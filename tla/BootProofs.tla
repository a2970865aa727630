------------------------------ MODULE BootProofs ------------------------------
(***************************************************************************)
(* What TLAPS proves of the slot information of platform/exynos9630, for   *)
(* any number of tries and of power cuts.                                  *)
(***************************************************************************)
EXTENDS Boot, TLAPS

SlotInfo == [magic : BOOLEAN, bootable : BOOLEAN, is_active : BOOLEAN,
             boot_successful : BOOLEAN, tries_remaining : 0 .. MaxTries]
Infos == [Slots -> SlotInfo]

BootType ==
  /\ info \in Infos
  /\ medium \in SUBSET Infos
  /\ info \in medium
  /\ tried \in [Slots -> 0 .. MaxTries]

(***************************************************************************)
(* One version of the slot information, as it may be found on the medium.  *)
(***************************************************************************)
Usable(i) ==
  Valid(i) => \/ \E s \in Slots : Active(i) = {s} /\ i[s].bootable
              \/ Active(i) = {} /\ \A s \in Slots : ~i[s].bootable

Accounted(i, n) ==
  \A s \in Slots : ~i[s].boot_successful => n[s] + i[s].tries_remaining <= MaxTries

(***************************************************************************)
(* From the update of the slot information to the start of the kernel, the *)
(* try of the slot that is going to be started has been counted and its    *)
(* start has not.                                                          *)
(***************************************************************************)
Paid(s) == info[s].boot_successful \/ tried[s] + 1 + info[s].tries_remaining <= MaxTries

TryCounted ==
  /\ pc = "load" => Paid(ab_current_slot)
  /\ pc \in {"start", "kernel"} => booted \in Slots
  /\ pc = "start" => Paid(booted)

\* BL1 preferred the active slot's boot loader if it could start it.
LoaderOfActive ==
  pc = "task" /\ Active(info) \cap intact # {} => loader \in Active(info)

StorageInv == BootType /\ \A i \in medium : Usable(i) /\ Accounted(i, tried)

BootInv ==
  /\ StorageInv
  /\ TryCounted
  /\ LoaderOfActive

-------------------------------------------------------------------------------
(***************************************************************************)
(* The versions of the slot information that are ever written.             *)
(***************************************************************************)
LEMMA SlotTypes ==
  /\ Fresh \in SlotInfo /\ Spare \in SlotInfo /\ Dead \in SlotInfo /\ Blank \in SlotInfo
<1>1. Fresh \in SlotInfo
  BY BootAssumption DEF Fresh, SlotInfo
<1>2. Spare \in SlotInfo
  BY <1>1 DEF Spare, SlotInfo
<1>3. Dead \in SlotInfo
  <2>1. 0 \in 0 .. MaxTries
    BY BootAssumption
  <2> QED
    BY <1>2, <2>1, Zenon DEF Dead, SlotInfo
<1>4. Blank \in SlotInfo
  BY <1>3 DEF Blank, SlotInfo
<1> QED
  BY <1>1, <1>2, <1>3, <1>4

\* ab_set_active makes one slot active, and both bootable.
LEMMA SetActive ==
  ASSUME NEW s \in Slots
  PROVE  /\ ab_set_active(s) \in Infos
         /\ Usable(ab_set_active(s))
         /\ Accounted(ab_set_active(s), [x \in Slots |-> 0])
BY SlotTypes, BootAssumption DEF ab_set_active, Infos, Usable, Accounted, Valid, Active, Slots, Fresh, Spare

\* ab_set_active_bootloader makes one slot active and gives up the other.
LEMMA SetActiveBootloader ==
  ASSUME NEW s \in Slots
  PROVE  /\ ab_set_active_bootloader(s) \in Infos
         /\ Usable(ab_set_active_bootloader(s))
         /\ Accounted(ab_set_active_bootloader(s), [x \in Slots |-> 0])
BY SlotTypes, BootAssumption
   DEF ab_set_active_bootloader, Infos, Usable, Accounted, Valid, Active, Slots, Fresh, Spare, Dead

(***************************************************************************)
(* ab_update_slot_info leaves usable information behind whatever it does,  *)
(* and if it goes on to boot, it has taken a try off the active slot.      *)
(***************************************************************************)
LEMMA UpdatedIsGood ==
  ASSUME NEW i \in Infos, Usable(i),
         NEW n \in [Slots -> 0 .. MaxTries], Accounted(i, n)
  PROVE  /\ Updated(i).next \in Infos
         /\ Usable(Updated(i).next)
         /\ Accounted(Updated(i).next, n)
         /\ Updated(i).ret = "ok" =>
              \E s \in Slots :
                /\ Active(Updated(i).next) = {s}
                /\ \/ Updated(i).next[s].boot_successful
                   \/ n[s] + 1 + Updated(i).next[s].tries_remaining <= MaxTries
<1> DEFINE j == Updated(i).next
<1>1. CASE ~(Valid(i) /\ \E s \in Slots : Active(i) = {s} /\ i[s].bootable)
  <2>1. j = i /\ Updated(i).ret # "ok"
    BY <1>1 DEF Updated, Usable, Active, Slots
  <2> QED
    BY <2>1
<1>2. CASE Valid(i) /\ \E s \in Slots : Active(i) = {s} /\ i[s].bootable
  <2>1. PICK s \in Slots : Active(i) = {s} /\ i[s].bootable
    BY <1>2
  <2>2. Updated(i) = Spent(i, s)
    BY <1>2, <2>1 DEF Updated, Active, Slots
  <2>3. CASE i[s].boot_successful
    <3>1. Spent(i, s) = [next |-> i, ret |-> "ok"]
      BY <2>3 DEF Spent
    <3> QED
      BY <2>1, <2>2, <2>3, <3>1
  <2>4. CASE ~i[s].boot_successful /\ i[s].tries_remaining > 0
    <3>1. Spent(i, s) = [next |-> [i EXCEPT ![s].tries_remaining = @ - 1], ret |-> "ok"]
      BY <2>4 DEF Spent
    <3> QED
      BY <2>1, <2>2, <2>4, <3>1, BootAssumption
         DEF Infos, SlotInfo, Usable, Accounted, Valid, Active
  <2>5. CASE ~i[s].boot_successful /\ i[s].tries_remaining = 0 /\ i[Other(s)].bootable
    <3>1. Spent(i, s) =
            [next |-> [i EXCEPT ![s].bootable = FALSE, ![s].is_active = FALSE,
                                ![Other(s)].is_active = TRUE],
             ret |-> "reset"]
      BY <2>5 DEF Spent
    <3> QED
      BY <2>1, <2>2, <2>5, <3>1, BootAssumption
         DEF Infos, SlotInfo, Usable, Accounted, Valid, Active, Slots, Other
  <2>6. CASE ~i[s].boot_successful /\ i[s].tries_remaining = 0 /\ ~i[Other(s)].bootable
    <3>1. Spent(i, s) =
            [next |-> [i EXCEPT ![s].bootable = FALSE, ![s].is_active = FALSE],
             ret |-> "AB_ERROR_NO_BOOTABLE_SLOT"]
      BY <2>6 DEF Spent
    <3> QED
      BY <2>1, <2>2, <2>6, <3>1, BootAssumption
         DEF Infos, SlotInfo, Usable, Accounted, Valid, Active, Slots, Other
  <2> QED
    BY <2>3, <2>4, <2>5, <2>6 DEF Infos, SlotInfo
<1> QED
  BY <1>1, <1>2

(***************************************************************************)
(* The storage, whatever happens to it.                                    *)
(***************************************************************************)
\* The buffer reaches the medium, or power goes: no new version appears.
LEMMA StorageShrinks ==
  ASSUME StorageInv, medium' \subseteq medium, info' \in medium', tried' = tried
  PROVE  StorageInv'
BY DEF StorageInv, BootType

LEMMA StorageSettles ==
  ASSUME StorageInv, Settled \/ Reset \/ UNCHANGED storage, tried' = tried
  PROVE  StorageInv'
BY StorageShrinks DEF StorageInv, BootType, Settled, Reset, storage

\* A new version is written, and the tries of all slots count as before.
LEMMA StorageWrite ==
  ASSUME StorageInv, NEW i \in Infos, Usable(i), Accounted(i, tried),
         info' = i, medium' \in {medium \cup {i}, {i}}, tried' = tried
  PROVE  StorageInv'
BY DEF StorageInv, BootType

\* A new version is written that starts the count of tries anew.
LEMMA StorageReset ==
  ASSUME StorageInv, NEW i \in Infos, Usable(i), Accounted(i, [s \in Slots |-> 0]),
         part_write(i), tried' = [s \in Slots |-> 0]
  PROVE  StorageInv'
<1>1. tried' \in [Slots -> 0 .. MaxTries]
  BY BootAssumption
<1>2. ASSUME NEW j \in Infos
      PROVE  Accounted(j, tried')
  BY BootAssumption DEF Accounted, Infos, SlotInfo
<1> QED
  BY <1>1, <1>2 DEF StorageInv, BootType, part_write

-------------------------------------------------------------------------------
LEMMA BootInitInv == Init => BootInv
<1> SUFFICES ASSUME Init
             PROVE  BootInv
  OBVIOUS
<1>1. tried \in [Slots -> 0 .. MaxTries]
  BY BootAssumption DEF Init
<1>2. ASSUME info = [s \in Slots |-> Blank]
      PROVE  info \in Infos /\ Usable(info) /\ Accounted(info, tried)
  <2>1. info \in Infos
    BY <1>2, SlotTypes DEF Infos
  <2>2. ~Valid(info)
    BY <1>2 DEF Valid, Blank, Dead, Spare, Fresh, Slots
  <2>3. Accounted(info, tried)
    BY <2>1, BootAssumption DEF Init, Accounted, Infos, SlotInfo
  <2> QED
    BY <2>1, <2>2, <2>3 DEF Usable
<1>3. ASSUME info = ab_set_active("a")
      PROVE  info \in Infos /\ Usable(info) /\ Accounted(info, tried)
  BY <1>3, SetActive DEF Init, Slots
<1>4. StorageInv
  BY <1>1, <1>2, <1>3 DEF Init, StorageInv, BootType
<1>5. TryCounted /\ LoaderOfActive
  BY DEF Init, TryCounted, LoaderOfActive
<1> QED
  BY <1>4, <1>5 DEF BootInv

(***************************************************************************)
(* The boot loader.                                                        *)
(***************************************************************************)
LEMMA Bl1Step ==
  ASSUME BootInv, bl1
  PROVE  BootInv'
<1>1. StorageInv' /\ TryCounted'
  BY StorageSettles DEF bl1, BootInv, TryCounted
<1>2. LoaderOfActive'
  BY DEF bl1, LoaderOfActive, storage, outside, Active
<1> QED
  BY <1>1, <1>2 DEF BootInv

LEMMA BootTaskStep ==
  ASSUME BootInv, exynos_boot_task
  PROVE  BootInv'
<1>1. pc' \in {"fastboot", "checks"}
  BY DEF exynos_boot_task
<1>2. ASSUME UNCHANGED <<storage, tried>>
      PROVE  StorageInv'
  BY <1>2, StorageSettles DEF BootInv
<1>3. ASSUME is_first_boot, ab_update_slot_info_bootloader
      PROVE  StorageInv'
  <2>1. CASE UNCHANGED <<storage, tried>>
    BY <1>2, <2>1
  <2>2. CASE /\ part_write(ab_set_active_bootloader(loader))
             /\ tried' = [s \in Slots |-> 0]
    BY <1>3, <2>2, SetActiveBootloader, StorageReset DEF is_first_boot, BootInv
  <2> QED
    BY <1>3, <2>1, <2>2 DEF ab_update_slot_info_bootloader
<1>4. StorageInv'
  BY <1>2, <1>3 DEF exynos_boot_task
<1> QED
  BY <1>1, <1>4 DEF BootInv, TryCounted, LoaderOfActive

\* The checks that choose between fastboot and boot touch no storage.
LEMMA BootChecksStep ==
  ASSUME BootInv, exynos_boot_checks
  PROVE  BootInv'
<1>1. pc' \in {"fastboot", "cmd_boot"}
  BY DEF exynos_boot_checks, Dump
<1>2. StorageInv'
  BY StorageSettles DEF exynos_boot_checks, BootInv
<1> QED
  BY <1>1, <1>2 DEF BootInv, TryCounted, LoaderOfActive

\* ab_update_slot_info: a boot that goes on has its try counted.
LEMMA UpdateStep ==
  ASSUME BootInv, ab_update_slot_info
  PROVE  BootInv'
<1> DEFINE j == Updated(info).next
<1>1. /\ info \in Infos /\ Usable(info)
      /\ tried \in [Slots -> 0 .. MaxTries] /\ Accounted(info, tried)
  BY DEF BootInv, StorageInv, BootType
<1>2. /\ j \in Infos /\ Usable(j) /\ Accounted(j, tried)
      /\ Updated(info).ret = "ok" =>
           \E s \in Slots :
             /\ Active(j) = {s}
             /\ j[s].boot_successful \/ tried[s] + 1 + j[s].tries_remaining <= MaxTries
  BY <1>1, UpdatedIsGood
<1>3. info' = j /\ medium' = medium \cup {j} /\ tried' = tried
  BY DEF ab_update_slot_info, part_write
<1>4. StorageInv'
  BY <1>2, <1>3, StorageWrite DEF BootInv
<1>5. /\ pc' \in {"load", "resetting", "fastboot"}
      /\ pc' = "load" => Updated(info).ret = "ok"
  BY DEF ab_update_slot_info, AfterUpdate
<1> HIDE DEF j
<1>6. ASSUME pc' = "load"
      PROVE  Paid(ab_current_slot)'
  <2>1. PICK s \in Slots :
             /\ Active(j) = {s}
             /\ j[s].boot_successful \/ tried[s] + 1 + j[s].tries_remaining <= MaxTries
    BY <1>2, <1>5, <1>6
  <2>2. ab_current_slot' = s
    BY <1>3, <2>1 DEF ab_current_slot, Active, Slots
  <2> QED
    BY <1>3, <2>1, <2>2 DEF Paid
<1> QED
  BY <1>4, <1>5, <1>6 DEF BootInv, TryCounted, LoaderOfActive

\* load_boot_images and avb_main remember which slot is booted.
LEMMA AvbStep ==
  ASSUME BootInv, avb_main
  PROVE  BootInv'
<1>1. /\ pc' \in {"start", "resetting"} /\ booted' = ab_current_slot
      /\ pc = "load" /\ info' = info /\ tried' = tried
  BY DEF avb_main, storage
<1>2. StorageInv'
  BY StorageSettles DEF avb_main, BootInv
<1>3. booted' \in Slots
  BY <1>1 DEF ab_current_slot, Slots
<1> QED
  BY <1>1, <1>2, <1>3 DEF BootInv, TryCounted, LoaderOfActive, Paid

LEMMA DelayedResetStep ==
  ASSUME BootInv, delayed_reset
  PROVE  BootInv'
<1>1. pc' = "reset"
  BY DEF delayed_reset, Restart
<1>2. StorageInv'
  BY StorageSettles DEF delayed_reset, BootInv
<1> QED
  BY <1>1, <1>2 DEF BootInv, TryCounted, LoaderOfActive

(***************************************************************************)
(* The start of a kernel is counted here.  It was paid for before, and     *)
(* only the version that has the try taken off is left on the medium.      *)
(***************************************************************************)
LEMMA KernelEntryStep ==
  ASSUME BootInv, kernel_entry
  PROVE  BootInv'
<1>1. pc = "start" /\ pc' = "kernel" /\ booted' = booted
  BY DEF kernel_entry
<1>2. CASE UNCHANGED <<storage, tried>>
  <2>1. StorageInv'
    BY <1>2, StorageSettles DEF BootInv
  <2> QED
    BY <1>1, <2>1 DEF BootInv, TryCounted, LoaderOfActive
<1>3. CASE /\ Settled
           /\ tried' = [tried EXCEPT ![booted] =
                          IF info[booted].boot_successful \/ @ > MaxTries THEN @ ELSE @ + 1]
  <2>1. /\ booted \in Slots /\ Paid(booted)
        /\ info \in Infos /\ tried \in [Slots -> 0 .. MaxTries]
        /\ Usable(info) /\ Accounted(info, tried)
    BY DEF kernel_entry, BootInv, TryCounted, StorageInv, BootType
  <2>2. info' = info /\ medium' = {info}
    BY <1>3 DEF Settled
  <2>3. /\ tried' \in [Slots -> 0 .. MaxTries]
        /\ \A s \in Slots :
             \/ tried'[s] = tried[s]
             \/ s = booted /\ ~info[s].boot_successful /\ tried'[s] = tried[s] + 1
    <3>1. CASE info[booted].boot_successful
      <4>1. tried' = tried
        BY <1>3, <2>1, <3>1
      <4> QED
        BY <2>1, <4>1
    <3>2. CASE ~info[booted].boot_successful
      <4>1. tried[booted] \in 0 .. MaxTries /\ info[booted].tries_remaining \in 0 .. MaxTries
        BY <2>1 DEF Infos, SlotInfo
      <4>2. tried[booted] + 1 \in 0 .. MaxTries /\ ~(tried[booted] > MaxTries)
        BY <2>1, <3>2, <4>1, BootAssumption DEF Paid
      <4>3. tried' = [tried EXCEPT ![booted] = tried[booted] + 1]
        BY <1>3, <2>1, <3>2, <4>2
      <4> QED
        BY <2>1, <3>2, <4>2, <4>3
    <3> QED
      BY <3>1, <3>2
  <2>4. Accounted(info, tried')
    BY <2>1, <2>3 DEF Accounted, Paid, Infos, SlotInfo
  <2> QED
    BY <1>1, <2>1, <2>2, <2>3, <2>4
       DEF BootInv, StorageInv, BootType, TryCounted, LoaderOfActive
<1> QED
  BY <1>2, <1>3 DEF kernel_entry

(***************************************************************************)
(* Fastboot, the operating system and power.                               *)
(***************************************************************************)
LEMMA SetActiveStep ==
  ASSUME BootInv, NEW s \in Slots, fb_do_set_active(s)
  PROVE  BootInv'
<1>1. StorageInv'
  BY SetActive, StorageReset DEF fb_do_set_active, BootInv
<1> QED
  BY <1>1 DEF fb_do_set_active, BootInv, TryCounted, LoaderOfActive

LEMMA FastbootStep ==
  ASSUME BootInv,
         fb_do_reboot \/ fb_do_flashing \/ \E s \in Slots : fb_do_flash(s)
  PROVE  BootInv'
<1>1. pc' \in {"fastboot", "reset"}
  BY DEF fb_do_reboot, fb_do_flashing, fb_do_flash, Restart, Reset
<1>2. StorageInv'
  BY StorageSettles DEF fb_do_reboot, fb_do_flashing, fb_do_flash, BootInv
<1> QED
  BY <1>1, <1>2 DEF BootInv, TryCounted, LoaderOfActive

LEMMA ResetStep ==
  ASSUME BootInv, os_reboot \/ os_crash \/ power_cut
  PROVE  BootInv'
<1>1. pc' = "reset"
  BY DEF os_reboot, os_crash, power_cut, Restart, Reset
<1>2. StorageInv'
  BY StorageSettles DEF os_reboot, os_crash, power_cut, BootInv
<1> QED
  BY <1>1, <1>2 DEF BootInv, TryCounted, LoaderOfActive

LEMMA SettleStep ==
  ASSUME BootInv, settle
  PROVE  BootInv'
<1>1. info' = info /\ tried' = tried /\ pc' = pc /\ booted' = booted
      /\ loader' = loader /\ intact' = intact
  BY DEF settle, Settled, outside
<1>2. StorageInv'
  BY StorageSettles DEF settle, BootInv
<1> QED
  BY <1>1, <1>2
     DEF BootInv, TryCounted, LoaderOfActive, Paid, ab_current_slot, Active

(***************************************************************************)
(* The operating system marks its slot, and installs an update.            *)
(***************************************************************************)
LEMMA MarkSuccessfulStep ==
  ASSUME BootInv, os_mark_successful
  PROVE  BootInv'
<1> DEFINE j == [info EXCEPT ![booted].boot_successful = TRUE]
<1>1. /\ info \in Infos /\ Usable(info) /\ Accounted(info, tried)
      /\ booted \in Slots
  BY DEF os_mark_successful, BootInv, TryCounted, StorageInv, BootType
<1>2. j \in Infos
  BY <1>1 DEF Infos, SlotInfo
<1>3. \A s \in Slots : /\ j[s].magic = info[s].magic
                      /\ j[s].bootable = info[s].bootable
                      /\ j[s].is_active = info[s].is_active
                      /\ j[s].tries_remaining = info[s].tries_remaining
                      /\ ~j[s].boot_successful => ~info[s].boot_successful
  BY <1>1 DEF Infos, SlotInfo
<1>4. Usable(j) /\ Accounted(j, tried)
  BY <1>1, <1>3 DEF Usable, Accounted, Valid, Active
<1>5. info' = j /\ medium' = {j} /\ tried' = tried /\ pc' = "kernel" /\ booted' = booted
  BY DEF os_mark_successful, os_write
<1> HIDE DEF j
<1>6. StorageInv'
  BY <1>2, <1>4, <1>5, StorageWrite DEF BootInv
<1> QED
  BY <1>1, <1>5, <1>6 DEF BootInv, TryCounted, LoaderOfActive

LEMMA BeginUpdateStep ==
  ASSUME BootInv, os_begin_update
  PROVE  BootInv'
<1> DEFINE o == Other(booted)
           d == [Dead EXCEPT !.magic = info[o].magic]
           j == [info EXCEPT ![o] = d]
<1>1. /\ info \in Infos /\ Usable(info) /\ Accounted(info, tried)
      /\ tried \in [Slots -> 0 .. MaxTries]
      /\ booted \in Slots /\ booted \in Active(info)
  BY DEF os_begin_update, BootInv, TryCounted, StorageInv, BootType
<1>2. o \in Slots /\ o # booted /\ Slots = {booted, o}
  BY <1>1 DEF Other, Slots
<1>3. d \in SlotInfo
  BY <1>1, <1>2, SlotTypes DEF Infos, SlotInfo
<1>4. /\ d.magic = info[o].magic /\ ~d.is_active /\ ~d.bootable
      /\ d.tries_remaining = 0
  BY DEF Dead, Spare, Fresh
<1> HIDE DEF d, o
<1>5. j \in Infos /\ j[o] = d /\ j[booted] = info[booted]
  BY <1>1, <1>2, <1>3 DEF Infos
<1>6. info' = j /\ medium' = {j} /\ tried' = tried /\ pc' = "kernel" /\ booted' = booted
  BY DEF os_begin_update, os_write, d, o
<1> HIDE DEF j
<1>7. Usable(j)
  BY <1>1, <1>2, <1>4, <1>5 DEF Usable, Valid, Active
<1>8. Accounted(j, tried)
  BY <1>1, <1>2, <1>4, <1>5 DEF Accounted
<1>9. StorageInv'
  BY <1>5, <1>6, <1>7, <1>8, StorageWrite DEF BootInv
<1> QED
  BY <1>1, <1>6, <1>9 DEF BootInv, TryCounted, LoaderOfActive

LEMMA EndUpdateStep ==
  ASSUME BootInv, os_end_update
  PROVE  BootInv'
<1> DEFINE o == Other(booted)
           j == [info EXCEPT ![o] = Fresh, ![booted].is_active = FALSE]
<1>1. /\ info \in Infos /\ Accounted(info, tried)
      /\ tried \in [Slots -> 0 .. MaxTries]
      /\ booted \in Slots
  BY DEF os_end_update, BootInv, TryCounted, StorageInv, BootType
<1>2. o \in Slots /\ o # booted /\ Slots = {booted, o}
  BY <1>1 DEF Other, Slots
<1>3. /\ info' = j /\ medium' = {j} /\ pc' = "kernel" /\ booted' = booted
      /\ tried' = [tried EXCEPT ![o] = 0]
  BY DEF os_end_update, os_write
<1> HIDE DEF o
<1>4. /\ j \in Infos /\ j[o] = Fresh
      /\ ~j[booted].is_active
      /\ j[booted].tries_remaining = info[booted].tries_remaining
      /\ j[booted].boot_successful = info[booted].boot_successful
  BY <1>1, <1>2, SlotTypes DEF Infos, SlotInfo
<1> HIDE DEF j
<1>5. tried' \in [Slots -> 0 .. MaxTries] /\ tried'[o] = 0 /\ tried'[booted] = tried[booted]
  BY <1>1, <1>2, <1>3, BootAssumption
<1>6. Usable(j)
  BY <1>2, <1>4 DEF Usable, Active, Fresh
<1>7. Accounted(j, tried')
  BY <1>1, <1>2, <1>4, <1>5, BootAssumption DEF Accounted, Fresh
<1>8. StorageInv'
  BY <1>3, <1>4, <1>5, <1>6, <1>7 DEF StorageInv, BootType
<1> QED
  BY <1>1, <1>3, <1>8 DEF BootInv, TryCounted, LoaderOfActive

-------------------------------------------------------------------------------
LEMMA BootNextInv == BootInv /\ [Next]_vars => BootInv'
<1> SUFFICES ASSUME BootInv, [Next]_vars
             PROVE  BootInv'
  OBVIOUS
<1>1. CASE BootLoader
  BY <1>1, Bl1Step, BootTaskStep, BootChecksStep, UpdateStep, AvbStep, DelayedResetStep,
     KernelEntryStep DEF BootLoader
<1>2. CASE \E s \in Slots : fb_do_set_active(s) \/ fb_do_flash(s)
  BY <1>2, SetActiveStep, FastbootStep
<1>3. CASE fb_do_reboot \/ fb_do_flashing
  BY <1>3, FastbootStep
<1>4. CASE os_mark_successful \/ os_begin_update \/ os_end_update
  BY <1>4, MarkSuccessfulStep, BeginUpdateStep, EndUpdateStep
<1>5. CASE os_reboot \/ os_crash \/ power_cut
  BY <1>5, ResetStep
<1>6. CASE settle
  BY <1>6, SettleStep
<1>7. CASE UNCHANGED vars
  <2>1. StorageInv'
    BY <1>7, StorageSettles DEF vars, BootInv
  <2> QED
    BY <1>7, <2>1 DEF vars, storage, outside, BootInv, TryCounted, LoaderOfActive, Paid,
                      ab_current_slot, Active
<1> QED
  BY <1>1, <1>2, <1>3, <1>4, <1>5, <1>6, <1>7 DEF Next

\* BootInv holds in every state that the device can be in.
THEOREM BootInvariance == Spec => []BootInv
<1>1. BootInv /\ [Next]_vars => BootInv'
  BY BootNextInv
<1> QED
  BY <1>1, BootInitInv, PTL DEF Spec

(***************************************************************************)
(* Wherever power is cut, ab_update_slot_info finds one active bootable    *)
(* slot, or finds that neither slot is bootable.                           *)
(***************************************************************************)
THEOREM BootOneSlotOrNone == Spec => []OneSlotOrNone
<1>1. BootInv => OneSlotOrNone
  BY DEF BootInv, StorageInv, BootType, Usable, OneSlotOrNone
<1> QED
  BY <1>1, BootInvariance, PTL

(***************************************************************************)
(* Whatever number of tries a slot gets, its kernel is not started more    *)
(* often than that before it is marked successful or given up, with power  *)
(* cuts at any moment.                                                     *)
(***************************************************************************)
THEOREM BootStartsArePaidFor == Spec => []StartsArePaidFor
<1>1. BootInv => StartsArePaidFor
  BY DEF BootInv, StorageInv, BootType, Accounted, StartsArePaidFor
<1> QED
  BY <1>1, BootInvariance, PTL

(***************************************************************************)
(* The boot loader keeps an active successful slot active and successful.  *)
(***************************************************************************)
\* The active slot is successful: ab_update_slot_info changes nothing.
LEMMA UpdatedKeeps ==
  ASSUME NEW i \in Infos, Usable(i), NEW s \in Slots,
         i[s].is_active, i[s].boot_successful
  PROVE  Updated(i).next = i
<1>1. CASE Valid(i)
  <2>1. Active(i) = {s} /\ i[s].bootable
    BY <1>1 DEF Usable, Active
  <2>2. Updated(i) = Spent(i, s)
    BY <1>1, <2>1 DEF Updated, Active, Slots
  <2> QED
    BY <2>2 DEF Spent
<1>2. CASE ~Valid(i)
  BY <1>2 DEF Updated
<1> QED
  BY <1>1, <1>2

LEMMA SuccessfulStep ==
  ASSUME BootInv, [Next]_vars, NEW s \in Slots \cap intact,
         pc \notin {"kernel", "fastboot"}, SafelySuccessful(s)
  PROVE  SafelySuccessful(s)'
<1>1. /\ info \in Infos /\ info \in medium /\ Usable(info)
      /\ info[s].is_active /\ info[s].boot_successful
  BY DEF BootInv, StorageInv, BootType, SafelySuccessful
<1>2. ASSUME medium' \subseteq medium
      PROVE  SafelySuccessful(s)'
  BY <1>2 DEF SafelySuccessful
<1>3. ASSUME Settled \/ Reset \/ UNCHANGED storage
      PROVE  SafelySuccessful(s)'
  BY <1>1, <1>2, <1>3 DEF Settled, Reset, storage
<1>4. CASE exynos_boot_task
  <2>1. s \in Active(info) \cap intact
    BY <1>1 DEF Active
  <2>2. loader \in Active(info)
    BY <1>4, <2>1 DEF exynos_boot_task, BootInv, LoaderOfActive
  <2>3. UNCHANGED storage
    BY <1>4, <2>2 DEF exynos_boot_task, ab_update_slot_info_bootloader
  <2> QED
    BY <1>3, <2>3
<1>5. CASE ab_update_slot_info
  <2>1. Updated(info).next = info
    BY <1>1, UpdatedKeeps
  <2> QED
    BY <1>1, <1>2, <1>5, <2>1 DEF ab_update_slot_info, part_write
<1>6. CASE BootLoader /\ ~exynos_boot_task /\ ~ab_update_slot_info
  BY <1>3, <1>6 DEF BootLoader, bl1, exynos_boot_checks, avb_main, delayed_reset, kernel_entry
<1>7. CASE settle \/ power_cut
  BY <1>3, <1>7 DEF settle, power_cut
<1>8. CASE UNCHANGED vars
  BY <1>3, <1>8 DEF vars
<1> QED
  BY <1>4, <1>5, <1>6, <1>7, <1>8
     DEF Next, fb_do_set_active, fb_do_flash, fb_do_reboot, fb_do_flashing,
         os_mark_successful, os_begin_update, os_end_update, os_reboot, os_crash

\* An active successful slot stays so, through crashes and power cuts.
THEOREM BootSuccessfulSlotStays == Spec => SuccessfulSlotStays
<1>1. BootInv /\ [Next]_vars =>
        [\A s \in Slots \cap intact :
           pc \notin {"kernel", "fastboot"} /\ SafelySuccessful(s)
             => SafelySuccessful(s)']_vars
  BY SuccessfulStep
<1> QED
  BY <1>1, BootInvariance, PTL DEF Spec, SuccessfulSlotStays
===============================================================================
