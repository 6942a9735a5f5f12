------------------------------- MODULE AbBoot -------------------------------
(***************************************************************************)
(* The A/B boot: U-Boot's bootcmd, altbootcmd and boot counter             *)
(* (yocto/.../u-boot/files/satlink-env.txt), satlink-bootctl               *)
(* (linux/bootctl), the health check 90 s after boot (satlink-boot-ok) and *)
(* the installer (satlink-update.sh), across resets at any step.           *)
(*                                                                         *)
(* An image is known by what becomes of it: "sound" comes up healthy,      *)
(* "sick" boots and hangs or has failed units, "unsigned" holds a kernel   *)
(* bootm refuses, "none" has no fitImage.  The environment is written in   *)
(* one piece (fw_setenv -s, saveenv).  The golden image always boots.      *)
(*                                                                         *)
(* Definitions named Faulty_ are plausible mistakes in the definition that *)
(* follows; no specification uses them.                                    *)
(***************************************************************************)
EXTENDS Naturals

CONSTANTS
  BootLimit,   \* bootlimit of the default environment
  MaxCuts,     \* bound of the model: resets nothing in the system asked for
  MaxUpdates   \* bound of the model: runs of satlink-update

ASSUME BootAssumption ==
  BootLimit \in Nat \ {0} /\ MaxCuts \in Nat /\ MaxUpdates \in Nat

VARIABLES
  env,        \* the persistent variables of the U-Boot environment
  content,    \* [Slots -> the image in it]
  phase,      \* "reset", "select" (bootcount is saved) or "linux"
  running,    \* satlink.slot on the kernel command line
  service,    \* satlink-boot-ok: "timer", "waiting" for systemd, "done"
  update,     \* satlink-update: where it is and the image it installs
  cuts, updates,
  predicted,  \* history: PredictNextBoot at the last reset
  tries,      \* history: boots of boot_slot since it went on trial
  gambled,    \* history: an installation into the fallback of the trial that is on
  vouched     \* history: the system confirmed last was not healthy

disk == <<env, content>>
linux == <<phase, running, service, update>>
history == <<predicted, tries, gambled, vouched>>
vars == <<disk, linux, cuts, updates, history>>

Slots == {"a", "b"}
Images == {"sound", "sick", "unsigned", "none"}
Partial == {"none", "sick"}    \* what a write that was cut off leaves behind

OtherSlot(s) == CHOOSE t \in Slots : t # s

Idle == [at |-> "idle", image |-> "none"]

Init ==
  /\ env = [boot_slot |-> "a", bootcount |-> 0,
            upgrade_available |-> FALSE, rollback |-> FALSE]
  /\ content = [s \in Slots |-> "sound"]
  /\ phase = "reset" /\ running = "golden" /\ service = "timer"
  /\ update = Idle
  /\ cuts = 0 /\ updates = 0
  /\ predicted = "a" /\ tries = 0
  /\ gambled = FALSE /\ vouched = FALSE

-----------------------------------------------------------------------------
(* satlink-bootctl *)

(* ReadStatus().state *)
State ==
  IF ~env.upgrade_available THEN "normal"
  ELSE IF env.rollback THEN "rolled-back" ELSE "trial"

Faulty_PredictNextBoot ==
  IF State = "normal" \/ env.bootcount <= BootLimit THEN env.boot_slot
  ELSE IF State = "rolled-back" THEN "golden" ELSE OtherSlot(env.boot_slot)

PredictNextBoot ==
  IF State = "normal" \/ env.bootcount + 1 <= BootLimit THEN env.boot_slot
  ELSE IF State = "rolled-back" THEN "golden" ELSE OtherSlot(env.boot_slot)

(* The slot "inactive" names and prepare-update switches to. *)
Inactive == OtherSlot(IF running = "golden" THEN env.boot_slot ELSE running)

(* One write of the environment that leaves slot s on trial, or confirmed. *)
Written(s, trial) ==
  [boot_slot |-> s, bootcount |-> 0, upgrade_available |-> trial,
   rollback |-> FALSE]

(* On the golden image it throws; with nothing to confirm it writes nothing. *)
MarkGood ==
  /\ env' = IF running = "golden" THEN env ELSE Written(running, FALSE)
  /\ tries' = IF running = "golden" THEN tries ELSE 0
  /\ gambled' = (running = "golden" /\ gambled)

(* Throws while a trial is in progress. *)
PrepareUpdate ==
  IF State = "normal"
  THEN /\ env' = Written(Inactive, TRUE)
       /\ tries' = 0 /\ gambled' = FALSE
  ELSE UNCHANGED <<env, tries, gambled>>

-----------------------------------------------------------------------------
(* The board resets, whatever Linux or U-Boot is doing. *)
Reset ==
  /\ phase' = "reset" /\ service' = "timer" /\ update' = Idle
  /\ predicted' = PredictNextBoot
  /\ UNCHANGED running

PowerCut ==
  /\ cuts < MaxCuts /\ cuts' = cuts + 1
  /\ Reset
  /\ UNCHANGED <<disk, updates, tries, gambled, vouched>>

(* CONFIG_BOOTCOUNT_ENV: counted, and saved, only during a trial. *)
BootCount ==
  /\ phase = "reset" /\ phase' = "select"
  /\ env' = IF env.upgrade_available
            THEN [env EXCEPT !.bootcount = @ + 1] ELSE env
  /\ UNCHANGED <<content, running, service, update, cuts, updates, history>>

(* satlink_boot, and the golden image when the slot's kernel does not load. *)
Boot(s) ==
  /\ phase' = "linux"
  /\ running' = IF content[s] \in {"sound", "sick"} THEN s ELSE "golden"
  /\ UNCHANGED <<content, service, update, cuts, updates, predicted, gambled, vouched>>

OverLimit == env.upgrade_available /\ env.bootcount > BootLimit

bootcmd ==
  /\ phase = "select" /\ ~OverLimit
  /\ Boot(env.boot_slot) /\ UNCHANGED env
  /\ tries' = IF env.upgrade_available THEN tries + 1 ELSE 0

Faulty_altbootcmdKeepsCount ==
  /\ phase = "select" /\ OverLimit /\ ~env.rollback
  /\ LET other == OtherSlot(env.boot_slot) IN
       /\ Boot(other)
       /\ env' = [env EXCEPT !.boot_slot = other, !.rollback = TRUE]
  /\ tries' = 1

Faulty_altbootcmdKeepsSlot ==
  /\ phase = "select" /\ OverLimit /\ ~env.rollback
  /\ Boot(env.boot_slot)
  /\ env' = [env EXCEPT !.rollback = TRUE, !.bootcount = 0]
  /\ tries' = 1

(* The first time: switch to the other slot. *)
altbootcmd ==
  /\ phase = "select" /\ OverLimit /\ ~env.rollback
  /\ LET other == OtherSlot(env.boot_slot) IN
       /\ Boot(other)
       /\ env' = [env EXCEPT !.boot_slot = other, !.rollback = TRUE,
                             !.bootcount = 0]
  /\ tries' = 1

(* The second time: the golden image. *)
altbootcmdGolden ==
  /\ phase = "select" /\ OverLimit /\ env.rollback
  /\ phase' = "linux" /\ running' = "golden"
  /\ UNCHANGED <<disk, service, update, cuts, updates, history>>

-----------------------------------------------------------------------------
Up == phase = "linux"
Healthy == running # "golden" => content[running] = "sound"

(* 90 s after boot, but not on the golden image: confirm.  Nothing to do in *)
(* normal; otherwise it waits for systemd to finish the boot.               *)
HealthTimer ==
  /\ Up /\ running # "golden" /\ service = "timer"
  /\ service' = IF State = "normal" THEN "done" ELSE "waiting"
  /\ UNCHANGED <<disk, phase, running, update, cuts, updates, history>>

Faulty_ConfirmUnchecked ==
  /\ Up /\ service = "waiting"
  /\ MarkGood /\ vouched' = (running = "golden" /\ vouched)
  /\ service' = "done"
  /\ UNCHANGED <<content, phase, running, update, cuts, updates, predicted>>

(* MarkGood reads the environment again. *)
Confirm ==
  /\ Up /\ service = "waiting" /\ Healthy
  /\ MarkGood /\ vouched' = (running = "golden" /\ vouched)
  /\ service' = "done"
  /\ UNCHANGED <<content, phase, running, update, cuts, updates, predicted>>

(* Not confirmed: FailureAction=reboot. *)
ConfirmFails ==
  /\ Up /\ service = "waiting" /\ ~Healthy
  /\ Reset
  /\ UNCHANGED <<disk, cuts, updates, tries, gambled, vouched>>

(* A hung system is reset by the system watchdog. *)
Hang ==
  /\ Up /\ ~Healthy
  /\ Reset
  /\ UNCHANGED <<disk, cuts, updates, tries, gambled, vouched>>

-----------------------------------------------------------------------------
(* satlink-update: the target is the slot that is not running, and the     *)
(* write has begun.  Nothing asks first whether a trial is on, the fallback *)
(* of which this slot is once the slot on trial runs.                      *)
UpdateWrite(image, left) ==
  /\ Up /\ running # "golden" /\ update.at = "idle"
  /\ updates < MaxUpdates /\ updates' = updates + 1
  /\ update' = [at |-> "writing", image |-> image]
  /\ content' = [content EXCEPT ![Inactive] = left]
  /\ gambled' = (gambled \/ (State = "trial" /\ Inactive # env.boot_slot))
  /\ UNCHANGED <<env, phase, running, service, cuts, predicted, tries, vouched>>

(* The image is in the slot; without a fitImage the slot is not switched. *)
UpdateWritten ==
  /\ Up /\ update.at = "writing"
  /\ content' = [content EXCEPT ![Inactive] = update.image]
  /\ update' = IF update.image = "none" THEN Idle
               ELSE [update EXCEPT !.at = "written"]
  /\ UNCHANGED <<env, phase, running, service, cuts, updates, history>>

UpdateSwitch ==
  /\ Up /\ update.at = "written" /\ update' = Idle
  /\ PrepareUpdate
  /\ UNCHANGED <<content, phase, running, service, cuts, updates, predicted, vouched>>

(* The same with --reboot, when prepare-update succeeds. *)
UpdateReboot ==
  /\ Up /\ update.at = "written" /\ State = "normal"
  /\ PrepareUpdate
  /\ phase' = "reset" /\ service' = "timer" /\ update' = Idle
  /\ predicted' = PredictNextBoot'
  /\ UNCHANGED <<content, running, cuts, updates, vouched>>

(* The operator's own calls, at any moment: mark-good, which unlike        *)
(* confirm looks at no health; prepare-update, refused during a trial.     *)
MarkGoodByHand ==
  /\ Up
  /\ MarkGood /\ vouched' = (~Healthy \/ (running = "golden" /\ vouched))
  /\ UNCHANGED <<content, linux, cuts, updates, predicted>>

PrepareByHand ==
  /\ Up
  /\ PrepareUpdate
  /\ UNCHANGED <<content, linux, cuts, updates, predicted, vouched>>

-----------------------------------------------------------------------------
UBoot == BootCount \/ bootcmd \/ altbootcmd \/ altbootcmdGolden
Update ==
  \/ \E image \in Images, left \in Partial : UpdateWrite(image, left)
  \/ UpdateWritten \/ UpdateSwitch \/ UpdateReboot
Operator == MarkGoodByHand \/ PrepareByHand \/ Update

Next ==
  \/ PowerCut \/ UBoot
  \/ HealthTimer \/ Confirm \/ ConfirmFails \/ Hang
  \/ Operator

Spec == Init /\ [][Next]_vars

(* U-Boot goes on; what is up is, in the end, checked or reset.  Nobody    *)
(* owes the system an update or a power cut.                               *)
Fairness ==
  /\ WF_vars(UBoot)
  /\ WF_vars(HealthTimer \/ Confirm \/ ConfirmFails \/ Hang)

FairSpec == Spec /\ Fairness

-----------------------------------------------------------------------------
(* Types of the variables. *)
TypeOK ==
  /\ env \in [boot_slot : Slots, bootcount : Nat,
              upgrade_available : BOOLEAN, rollback : BOOLEAN]
  /\ env.rollback => env.upgrade_available
  /\ content \in [Slots -> Images]
  /\ phase \in {"reset", "select", "linux"}
  /\ running \in Slots \cup {"golden"}
  /\ service \in {"timer", "waiting", "done"}
  /\ update \in [at : {"idle", "writing", "written"}, image : Images]
  /\ cuts \in 0 .. MaxCuts /\ updates \in 0 .. MaxUpdates
  /\ predicted \in Slots \cup {"golden"} /\ tries \in Nat
  /\ gambled \in BOOLEAN /\ vouched \in BOOLEAN

(* A confirmed system was seen healthy, unless it was said good by hand.   *)
Trusted == IF vouched THEN {"sound", "sick"} ELSE {"sound"}

(* With no trial in progress U-Boot's slot holds the system that was       *)
(* confirmed and nothing has touched it since, and Linux runs from it: at  *)
(* whatever step of an installation or a confirmation the power fails.     *)
ConfirmedBoots ==
  State = "normal" =>
    /\ content[env.boot_slot] \in Trusted
    /\ Up => running = env.boot_slot

(* The slot a failed trial falls back to is the one that ran before it,    *)
(* intact; only an installation begun while the slot on trial runs, which  *)
(* the script does not refuse, takes it away.                              *)
FallbackKept ==
  gambled \/
    /\ State = "trial" => content[OtherSlot(env.boot_slot)] \in Trusted
    /\ State = "rolled-back" => content[env.boot_slot] \in Trusted

(* satlink-env.txt: linux/bootctl "models this logic": the boot that comes *)
(* is the one PredictNextBoot announced, or the golden image in place of a *)
(* slot without a kernel that verifies.                                    *)
PredictionHolds ==
  Up => \/ running = predicted
        \/ running = "golden" /\ content[predicted] \notin {"sound", "sick"}

(* A slot on trial is tried at most BootLimit times, the slot rolled back  *)
(* to once more, wherever the power fails.                                 *)
TriesBounded ==
  tries <= IF State = "rolled-back" THEN BootLimit + 1 ELSE BootLimit

(* A trial of an image whose kernel boots ends by itself, by its           *)
(* confirmation or by that of the slot before it; in the golden image only *)
(* when the power failed more often than the boot limit allows for, or the *)
(* slot before it was overwritten in the trial or never healthy.           *)
TrialResolves ==
  (/\ phase = "reset" /\ State = "trial"
   /\ content[env.boot_slot] \in {"sound", "sick"})
    ~> \/ State = "normal"
       \/ running = "golden" /\ (cuts > BootLimit \/ gambled \/ vouched)

-----------------------------------------------------------------------------
(* What makes these invariants inductive: a slot system that is up was     *)
(* bootable, and it is the one U-Boot names except in a trial; an          *)
(* installation goes on only in such a system, and into the fallback only  *)
(* as a gamble; the boot on its way is the predicted one; a boot on trial  *)
(* was counted before it was tried.                                        *)
Where ==
  Up /\ running # "golden" =>
    /\ content[running] \in {"sound", "sick"}
    /\ running = env.boot_slot \/ State = "trial"

Installing ==
  update.at # "idle" =>
    /\ Up /\ running # "golden"
    /\ State = "trial" /\ Inactive # env.boot_slot => gambled

Chosen ==
  IF ~OverLimit THEN env.boot_slot
  ELSE IF env.rollback THEN "golden" ELSE OtherSlot(env.boot_slot)

Predicting ==
  /\ phase = "reset" => predicted = PredictNextBoot
  /\ phase = "select" => predicted = Chosen

Counting ==
  /\ State = "normal" => tries = 0
  /\ State = "trial" => tries <= env.bootcount
  /\ State = "rolled-back" => tries <= env.bootcount + 1
  /\ State # "normal" /\ phase = "select" =>
       tries < (IF State = "trial" THEN env.bootcount ELSE env.bootcount + 1)

IndInv ==
  /\ TypeOK /\ ConfirmedBoots /\ FallbackKept /\ PredictionHolds
  /\ TriesBounded /\ Where /\ Installing /\ Predicting /\ Counting
=============================================================================
