--------------------------------- MODULE Boot ---------------------------------
(***************************************************************************)
(* A/B slots: platform/exynos9630/ab_update, with the paths of             *)
(* app/exynos_main and lib/fastboot that use it, in the build with         *)
(* CONFIG_AB_UPDATE.  The slot information lives on flash; every boot      *)
(* reads it, changes it and writes it back, and power may go at any        *)
(* moment.  A slot that was made active gets a number of tries; the        *)
(* operating system marks it successful once it runs; a slot that uses up  *)
(* its tries is given up for the other one.                                *)
(*                                                                         *)
(* A write goes to the storage device's buffer.  It is on the medium after *)
(* a while, after the 500 ms that the code waits before a reset, and after *)
(* a START STOP UNIT command (scsi_do_ssu), which may fail.                *)
(*                                                                         *)
(* The boot ROM and BL1, the operating system and the person at the        *)
(* fastboot prompt are not in the repository.  BL1 starts the boot loader  *)
(* of the active slot, the other one if that is damaged, and one over USB  *)
(* if both are.                                                            *)
(***************************************************************************)
EXTENDS Naturals, FiniteSets

CONSTANTS MaxTries,   \* 7 in the code
          MaxCuts     \* bound: how often power is cut

ASSUME BootAssumption == MaxTries \in Nat \ {0} /\ MaxCuts \in Nat

Slots == {"a", "b"}
Other(s) == IF s = "a" THEN "b" ELSE "a"

VARIABLES
  info,        \* the slot information as part_read returns it
  medium,      \* the contents the medium may have if power goes now
  pc,          \* where the boot has got to
  loader,      \* bl1_info.epbl_start: the slot of this boot loader, or "usb"
  booted,      \* the slot in androidboot.slot_suffix
  dat0,        \* EXYNOS_POWER_SYSIP_DAT0 = REBOOT_MODE_FASTBOOT
  scratch,     \* CONFIG_RAMDUMP_SCRATCH = CONFIG_RAMDUMP_MODE
  abnormal,    \* RST_STAT: the reset was a warm or a watchdog reset
  locked,      \* the lock state in RPMB
  ramdump_off, \* the build has RAMDUMP_MODE_OFF
  intact,      \* the slots whose boot loader BL1 can start
  tried,       \* history: starts of a slot's kernel since it was made active
  cuts         \* how often power was cut

storage == <<info, medium>>
regs    == <<dat0, scratch, abnormal>>
outside == <<locked, ramdump_off, intact, cuts>>
vars == <<storage, pc, loader, booted, regs, outside, tried>>

Fresh == [magic |-> TRUE, bootable |-> TRUE, is_active |-> TRUE,
          boot_successful |-> FALSE, tries_remaining |-> MaxTries]
Spare == [Fresh EXCEPT !.is_active = FALSE]
Dead  == [Spare EXCEPT !.bootable = FALSE, !.tries_remaining = 0]
Blank == [Dead EXCEPT !.magic = FALSE]

Valid(i)  == \A s \in Slots : i[s].magic
Active(i) == {s \in Slots : i[s].is_active}

part_write(i) == info' = i /\ medium' = medium \cup {i}
Settled == medium' = {info} /\ UNCHANGED info

\* A reset finds on the medium what got there.
Restart == pc' = "reset" /\ loader' = "none" /\ booted' = "none"
Reset   == Restart /\ \E i \in medium : info' = i /\ medium' = {i}

(***************************************************************************)
(* The slot information.                                                   *)
(***************************************************************************)
ab_current_slot == IF info["a"].is_active THEN "a" ELSE "b"

ab_set_active_bootloader(s) == [x \in Slots |-> IF x = s THEN Fresh ELSE Dead]

\* The boot loader that runs is not the one of the active slot.
ab_update_slot_info_bootloader ==
  IF Valid(info) /\ Cardinality(Active(info)) = 1 /\ loader \notin Active(info)
    THEN /\ part_write(ab_set_active_bootloader(loader))
         /\ tried' = [s \in Slots |-> 0]
    ELSE UNCHANGED <<storage, tried>>

ab_set_active(s) == [x \in Slots |-> IF x = s THEN Fresh ELSE Spare]

\* Mutant: the slot that is given up is not written back.
Spent_forgotten(i, s) ==
  CASE i[s].boot_successful -> [next |-> i, ret |-> "ok"]
    [] ~i[s].boot_successful /\ i[s].tries_remaining > 0 ->
         [next |-> [i EXCEPT ![s].tries_remaining = @ - 1], ret |-> "ok"]
    [] OTHER -> [next |-> i, ret |-> "reset"]

\* Mutant: the mark of the operating system is not looked at.
Spent_unmarked(i, s) ==
  LET given_up == [i EXCEPT ![s].bootable = FALSE, ![s].is_active = FALSE]
  IN  CASE i[s].tries_remaining > 0 ->
             [next |-> [i EXCEPT ![s].tries_remaining = @ - 1], ret |-> "ok"]
        [] i[s].tries_remaining = 0 /\ i[Other(s)].bootable ->
             [next |-> [given_up EXCEPT ![Other(s)].is_active = TRUE], ret |-> "reset"]
        [] OTHER -> [next |-> given_up, ret |-> "AB_ERROR_NO_BOOTABLE_SLOT"]

\* Mutant: the slot is given up without another one being made active.
Spent_leaves_none(i, s) ==
  LET given_up == [i EXCEPT ![s].bootable = FALSE, ![s].is_active = FALSE]
  IN  CASE i[s].boot_successful -> [next |-> i, ret |-> "ok"]
        [] ~i[s].boot_successful /\ i[s].tries_remaining > 0 ->
             [next |-> [i EXCEPT ![s].tries_remaining = @ - 1], ret |-> "ok"]
        [] OTHER -> [next |-> given_up, ret |-> "reset"]

\* One try of the bootable active slot s.
Spent(i, s) ==
  LET given_up == [i EXCEPT ![s].bootable = FALSE, ![s].is_active = FALSE]
  IN  CASE i[s].boot_successful -> [next |-> i, ret |-> "ok"]
        [] ~i[s].boot_successful /\ i[s].tries_remaining > 0 ->
             [next |-> [i EXCEPT ![s].tries_remaining = @ - 1], ret |-> "ok"]
        [] ~i[s].boot_successful /\ i[s].tries_remaining = 0 /\ i[Other(s)].bootable ->
             [next |-> [given_up EXCEPT ![Other(s)].is_active = TRUE], ret |-> "reset"]
        [] OTHER -> [next |-> given_up, ret |-> "AB_ERROR_NO_BOOTABLE_SLOT"]

Updated(i) ==
  CASE ~Valid(i) -> [next |-> i, ret |-> "AB_ERROR_INVALID_MAGIC"]
    [] Valid(i) /\ Active(i) = Slots -> [next |-> i, ret |-> "AB_ERROR_SLOT_ALL_ACTIVE"]
    [] Valid(i) /\ Active(i) = {} -> [next |-> i, ret |-> "AB_ERROR_SLOT_ALL_INACTIVE"]
    [] OTHER -> LET s == CHOOSE x \in Slots : i[x].is_active
                IN  IF i[s].bootable THEN Spent(i, s)
                                     ELSE [next |-> i, ret |-> "AB_ERROR_UNBOOTABLE_SLOT"]

(***************************************************************************)
(* The boot loader.                                                        *)
(***************************************************************************)
\* BL1 goes by the active slot.
bl1 ==
  /\ pc = "reset"
  /\ pc' = "task"
  /\ loader' \in IF intact = {} THEN {"usb"}
                 ELSE IF Active(info) \cap intact # {} THEN Active(info) \cap intact
                 ELSE intact
  /\ UNCHANGED <<storage, booted, regs, outside, tried>>

is_first_boot == loader \in Slots

\* exynos_boot_task, up to the checks that choose between fastboot and boot.
exynos_boot_task ==
  /\ pc = "task"
  /\ \/ /\ pc' = "fastboot"                     \* a key is held down
        /\ UNCHANGED <<storage, tried>>
     \/ /\ pc' = "checks"
        /\ IF is_first_boot THEN ab_update_slot_info_bootloader
                            ELSE UNCHANGED <<storage, tried>>
  /\ UNCHANGED <<loader, booted, regs, outside>>

\* The label fastboot, which RAMDUMP_MODE_OFF lets fall through to reboot.
Dump == IF ramdump_off THEN "cmd_boot" ELSE "fastboot"

exynos_boot_checks ==
  /\ pc = "checks"
  /\ \/ /\ ~is_first_boot
        /\ pc' = "fastboot" /\ UNCHANGED regs
     \/ /\ is_first_boot /\ abnormal
        /\ pc' = Dump /\ UNCHANGED regs
     \/ /\ is_first_boot /\ ~abnormal /\ dat0
        /\ pc' = "fastboot" /\ dat0' = FALSE /\ scratch' = FALSE /\ UNCHANGED abnormal
     \/ /\ is_first_boot /\ ~abnormal /\ ~dat0
        /\ pc' \in IF scratch THEN {Dump, "cmd_boot"}   \* by get_charger_mode
                              ELSE {"cmd_boot"}
        /\ UNCHANGED regs
  /\ UNCHANGED <<storage, loader, booted, outside, tried>>

AfterUpdate(ret) == CASE ret = "ok" -> "load" [] ret = "reset" -> "resetting"
                      [] OTHER -> "fastboot"

\* Mutant: the slot information is only written back when the slot changes.
ab_update_slot_info_unsaved ==
  /\ pc = "cmd_boot"
  /\ IF Updated(info).ret = "ok" THEN UNCHANGED storage ELSE part_write(Updated(info).next)
  /\ pc' = AfterUpdate(Updated(info).ret)
  /\ UNCHANGED <<loader, booted, regs, outside, tried>>

\* An error ends in fastboot; what was changed is written all the same.
ab_update_slot_info ==
  /\ pc = "cmd_boot"
  /\ part_write(Updated(info).next)
  /\ pc' = AfterUpdate(Updated(info).ret)
  /\ UNCHANGED <<loader, booted, regs, outside, tried>>

\* load_boot_images and avb_main.  What the verification says depends on the
\* images; a locked device does not start what fails it for another reason
\* than the key.
avb_main ==
  /\ pc = "load"
  /\ pc' \in IF locked THEN {"start", "resetting"} ELSE {"start"}
  /\ booted' = ab_current_slot
  /\ UNCHANGED <<storage, loader, regs, outside, tried>>

\* mdelay(500) and the reset.
delayed_reset ==
  /\ pc = "resetting"
  /\ Restart /\ Settled
  /\ abnormal' = FALSE
  /\ UNCHANGED <<dat0, scratch, outside, tried>>

\* The end of cmd_boot.  A start counts if SSU says that its try is saved.
kernel_entry ==
  /\ pc = "start"
  /\ pc' = "kernel"
  /\ \/ /\ Settled                              \* scsi_do_ssu succeeds
        /\ tried' = [tried EXCEPT ![booted] =
                       IF info[booted].boot_successful \/ @ > MaxTries THEN @ ELSE @ + 1]
     \/ UNCHANGED <<storage, tried>>            \* or fails
  /\ UNCHANGED <<loader, booted, regs, outside>>

(***************************************************************************)
(* Fastboot.                                                               *)
(***************************************************************************)
fb_do_set_active(s) ==
  /\ pc = "fastboot"
  /\ part_write(ab_set_active(s))
  /\ tried' = [x \in Slots |-> 0]
  /\ UNCHANGED <<pc, loader, booted, regs, outside>>

fb_do_reboot ==
  /\ pc = "fastboot"
  /\ (Restart /\ Settled) \/ Reset     \* SSU succeeds or fails
  /\ abnormal' = FALSE
  /\ \/ scratch' = TRUE /\ UNCHANGED dat0              \* reboot-bootloader
     \/ scratch' = FALSE /\ dat0' \in {dat0, FALSE}    \* reboot, -fastboot, -recovery
  /\ UNCHANGED <<outside, tried>>

\* The boot loader of slot s is written, well or badly.  The build does not
\* define CONFIG_CHECK_LOCK_STATE, so a locked device does not refuse.
fb_do_flash(s) ==
  /\ pc = "fastboot"
  /\ intact' \in {intact \cup {s}, intact \ {s}}
  /\ UNCHANGED <<storage, pc, loader, booted, regs, locked, ramdump_off, cuts, tried>>

fb_do_flashing ==
  /\ pc = "fastboot"
  /\ locked' = ~locked
  /\ UNCHANGED <<storage, pc, loader, booted, regs, ramdump_off, intact, cuts, tried>>

(***************************************************************************)
(* The operating system and power.                                         *)
(***************************************************************************)
os_write(i) == info' = i /\ medium' = {i}

os_mark_successful ==
  /\ pc = "kernel"
  /\ os_write([info EXCEPT ![booted].boot_successful = TRUE])
  /\ UNCHANGED <<pc, loader, booted, regs, outside, tried>>

\* An update makes the other slot unbootable, writes it, and makes it active.
os_begin_update ==
  /\ pc = "kernel"
  /\ booted \in Active(info)
  /\ os_write([info EXCEPT ![Other(booted)] = [Dead EXCEPT !.magic = info[Other(booted)].magic]])
  /\ intact' \in {intact \cup {Other(booted)}, intact \ {Other(booted)}}
  /\ UNCHANGED <<pc, loader, booted, regs, locked, ramdump_off, cuts, tried>>

os_end_update ==
  /\ pc = "kernel"
  /\ booted \in Active(info)
  /\ os_write([info EXCEPT ![Other(booted)] = Fresh, ![booted].is_active = FALSE])
  /\ tried' = [tried EXCEPT ![Other(booted)] = 0]
  /\ UNCHANGED <<pc, loader, booted, regs, outside>>

os_reboot ==
  /\ pc = "kernel"
  /\ Restart /\ Settled
  /\ dat0' \in BOOLEAN /\ scratch' = FALSE /\ abnormal' = FALSE
  /\ UNCHANGED <<outside, tried>>

os_crash ==
  /\ pc = "kernel"
  /\ Reset
  /\ abnormal' = TRUE
  /\ UNCHANGED <<dat0, scratch, outside, tried>>

settle ==
  /\ medium # {info}
  /\ Settled
  /\ UNCHANGED <<pc, loader, booted, regs, outside, tried>>

power_cut ==
  /\ cuts < MaxCuts
  /\ cuts' = cuts + 1
  /\ Reset
  /\ dat0' = FALSE /\ scratch' = FALSE /\ abnormal' = FALSE
  /\ UNCHANGED <<locked, ramdump_off, intact, tried>>

\* A device as it leaves the factory, before and after its slots are set up.
Init ==
  /\ info \in {[s \in Slots |-> Blank], ab_set_active("a")}
  /\ medium = {info}
  /\ pc = "reset"
  /\ loader = "none" /\ booted = "none"
  /\ dat0 = FALSE /\ scratch = FALSE /\ abnormal = FALSE
  /\ locked \in BOOLEAN /\ ramdump_off \in BOOLEAN
  /\ intact \in SUBSET Slots
  /\ tried = [s \in Slots |-> 0]
  /\ cuts = 0

BootLoader ==
  \/ bl1 \/ exynos_boot_task \/ exynos_boot_checks
  \/ ab_update_slot_info \/ avb_main \/ delayed_reset \/ kernel_entry

Next ==
  \/ BootLoader
  \/ \E s \in Slots : fb_do_set_active(s) \/ fb_do_flash(s)
  \/ fb_do_reboot \/ fb_do_flashing
  \/ os_mark_successful \/ os_begin_update \/ os_end_update \/ os_reboot \/ os_crash
  \/ settle \/ power_cut

\* The boot loader goes on executing.
Spec == Init /\ [][Next]_vars /\ WF_vars(BootLoader)

-----------------------------------------------------------------------------
(***************************************************************************)
(* Wherever power is cut, the slot information that is left names one      *)
(* active slot, which is bootable, or it names none because neither slot   *)
(* is bootable: ab_update_slot_info then ends in fastboot for that reason  *)
(* and no other, and never finds both slots active or the active slot      *)
(* unbootable.                                                             *)
(***************************************************************************)
OneSlotOrNone ==
  \A i \in medium \cup {info} :
    Valid(i) => \/ \E s \in Slots : Active(i) = {s} /\ i[s].bootable
                \/ Active(i) = {} /\ \A s \in Slots : ~i[s].bootable

(***************************************************************************)
(* "Boot times left range [0:7]": every start of a slot's kernel that has  *)
(* not been marked successful is paid for with a try, however the start    *)
(* ends, so that a slot is started MaxTries times at most before it is     *)
(* given up.  Starts for which SSU failed are not counted.                 *)
(***************************************************************************)
StartsArePaidFor ==
  \A i \in medium \cup {info}, s \in Slots :
    ~i[s].boot_successful => tried[s] + i[s].tries_remaining <= MaxTries

(***************************************************************************)
(* Once the medium says that a slot is active and successful, the boot     *)
(* loader keeps it that way, through any number of crashes, failed         *)
(* verifications and power cuts, as long as BL1 can start the slot's boot  *)
(* loader; only the operating system and fastboot change it.               *)
(***************************************************************************)
SafelySuccessful(s) == \A i \in medium : i[s].is_active /\ i[s].boot_successful

SuccessfulSlotStays ==
  [][\A s \in Slots \cap intact :
       pc \notin {"kernel", "fastboot"} /\ SafelySuccessful(s)
         => SafelySuccessful(s)']_vars

(***************************************************************************)
(* The device does not reset for ever: again and again it gets as far as a *)
(* kernel or fastboot.  The exception is a slot that was marked successful *)
(* and fails its verification from then on: it has no tries to use up.     *)
(***************************************************************************)
BootSettles ==
  \/ []<>(pc \in {"kernel", "fastboot"})
  \/ <>[](\E s \in Slots : info[s].is_active /\ info[s].boot_successful)
===============================================================================
