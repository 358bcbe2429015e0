---------------------------- MODULE BootControl ----------------------------
(***************************************************************************)
(* The A/B boot control HAL of bootctrl/boot_control.cpp on top of the     *)
(* gpt_disk interface of gpt-utils/gpt-utils.cpp.                          *)
(*                                                                         *)
(* A call (set_active_boot_slot, mark_boot_successful, ...) is served to   *)
(* its end before the next one starts.  The calls that write are sequences *)
(* of steps: a gpt_disk handle is loaded, changed in memory, and committed *)
(* as two durable writes, the primary header and then the primary entry    *)
(* array.  Each of the steps can fail, and the machine can go down between *)
(* any two of them and inside the array write.                             *)
(*                                                                         *)
(* A partition is its position in AB_PTN_LIST, an entry is a pair          *)
(* <<partition, slot>>.  Of an entry the model keeps the type GUID and the *)
(* three A/B bits; of a GPT header it keeps the array its CRCs were        *)
(* computed over.  Priority and retry bits, names and offsets are left out.*)
(***************************************************************************)
EXTENDS Integers, FiniteSets, FiniteSetsExt

CONSTANTS
    NParts,       \* length of AB_PTN_LIST
    NDisks,       \* block devices, in the order of their paths in partition_map
    Present,      \* entries that exist under /dev/block/bootdevice/by-name
    DiskOf,       \* the block device holding each entry
    BootPart,     \* BOOT_IMG_PTN_NAME's position in AB_PTN_LIST
    XblPart,      \* PTN_XBL's position in AB_PTN_LIST, or 0
    IsUfs,        \* gpt_utils_is_ufs_device()
    ShortWrites,  \* write() may stop early and still report success
    MaxFaults     \* bound: crashes and failed system calls in a behaviour

Parts == 1..NParts
Slots == {0, 1}          \* positions in slot_suffix_arr: _a and _b
Disks == 1..NDisks
NoSlot == -1

ASSUME LayoutAssumption ==
    /\ NParts \in Nat \ {0}
    /\ NDisks \in Nat \ {0}
    /\ Present \subseteq Parts \X Slots
    /\ DiskOf \in [Present -> Disks]
    /\ BootPart \in Parts
    /\ XblPart \in Parts \cup {0}
    /\ IsUfs \in BOOLEAN
    /\ ShortWrites \in BOOLEAN
    /\ MaxFaults \in Nat
    /\ ~IsUfs => NDisks = 1      \* every name resolves to BLK_DEV_FILE

VARIABLES
    arr,        \* primary partition entry array of every disk
    crc,        \* the array over which the primary header's CRCs were computed
    bak,        \* secondary partition entry array of every disk
    bootLun,    \* bBootLunEn: which XBL copy the UFS device boots from
    slotProp,   \* ro.boot.slot_suffix
    pc,         \* where the running call is
    op,         \* the running call: its name and its slot
    cur,        \* its cursor: a disk of partition_map or a partition
    side,       \* the handle being committed
    h,          \* the gpt_disk handles diskA and diskB
    missed,     \* the A/B pairs that the running call, or the last, could not look up
    ret,        \* the last call that returned, its slot and its return code
    faults      \* faults so far, at most MaxFaults

disk == <<arr, crc, bak, bootLun, slotProp>>
call == <<op, cur, side, h>>
vars == <<arr, crc, bak, bootLun, slotProp, pc, op, cur, side, h, missed, ret, faults>>

-----------------------------------------------------------------------------
(* Tables, entries and handles. *)

\* "img" is the type GUID the boot loader looks for, "alt" the other one.
Entry == [guid : {"img", "alt"}, active : BOOLEAN, succ : BOOLEAN, unb : BOOLEAN]
Table == [Present -> Entry]

Zeroed == [guid |-> "alt", active |-> FALSE, succ |-> FALSE, unb |-> FALSE]

\* gpt_disk_alloc: a handle that is not loaded holds zeroes.
Handle == [st : {"null", "live", "freed", "double"}, disk : 0..NDisks, mem : Table]
gpt_disk_alloc ==
    [st |-> "null", disk |-> 0, mem |-> [e \in Present |-> Zeroed]]
NoHandles == [x \in {"A", "B"} |-> gpt_disk_alloc]

\* gpt_disk_get_disk_info followed by changes to the entries in memory.
gpt_disk_get_disk_info(d, mem) == [st |-> "live", disk |-> d, mem |-> mem]

gpt_disk_free(hd) ==
    [gpt_disk_alloc EXCEPT !.st = IF hd.st = "live" THEN "freed" ELSE "double"]

OnDisk(d) == {e \in Present : DiskOf[e] = d}
Overwrite(tab, new, W) == [e \in Present |-> IF e \in W THEN new[e] ELSE tab[e]]

\* What firmware checks before it trusts the primary table of disk d.
TableValid(d) == \A e \in OnDisk(d) : crc[e] = arr[e]

Paired(p) == <<p, 0>> \in Present /\ <<p, 1>> \in Present
Switchable == {p \in Parts : Paired(p) /\ ~(IsUfs /\ p = XblPart)}

Ops == {"set_active", "mark_successful", "set_unbootable", "is_bootable",
        "is_successful", "get_suffix", "get_current", "none"}
Call == [name : Ops, slot : Slots \cup {NoSlot}]
NoCall == [name |-> "none", slot |-> NoSlot]
NoRet == [name |-> "none", slot |-> NoSlot, rc |-> 0]

TypeOK ==
    /\ arr \in Table /\ crc \in Table /\ bak \in Table
    /\ bootLun \in Slots
    /\ slotProp \in Slots \cup {NoSlot}
    /\ pc \in {"idle", "group", "load", "hdr", "arr", "double", "xbl"}
    /\ op \in Call
    /\ cur \in 0..(NParts + NDisks + 1)
    /\ side \in {"A", "B"}
    /\ h \in [{"A", "B"} -> Handle]
    /\ missed \subseteq Parts
    /\ ret \in [name : Ops, slot : Int, rc : Int]
    /\ faults \in 0..MaxFaults

-----------------------------------------------------------------------------
(* Shared pieces of the actions. *)

\* A step in which n system calls fail, or one fails or the machine goes down.
Spend(n) == faults' = faults + n /\ faults' <= MaxFaults
Fault(happens) == Spend(IF happens THEN 1 ELSE 0)

\* get_number_slots: entries named boot*, or 0 when opendir fails.
get_number_slots(broken) ==
    IF broken THEN 0 ELSE Cardinality({s \in Slots : <<BootPart, s>> \in Present})

\* Mutant: the bound is off by one.
SanityOffByOne(slot, n) == n >= 1 /\ slot <= n

boot_control_check_slot_sanity(slot, n) == n >= 1 /\ slot <= n - 1

get_current_slot(n) == IF n <= 1 \/ slotProp = NoSlot THEN 0 ELSE slotProp

Return(name, slot, rc) ==
    /\ ret' = [name |-> name, slot |-> slot, rc |-> rc]
    /\ pc' = "idle"
    /\ op' = NoCall
    /\ cur' = 0
    /\ side' = "A"
    /\ h' = NoHandles

\* A call that is over at once.
Answer(name, slot, rc) == Return(name, slot, rc) /\ missed' = {}

Start(name, slot, where) ==
    /\ ret' = NoRet
    /\ pc' = where
    /\ op' = [name |-> name, slot |-> slot]
    /\ cur' = 1
    /\ UNCHANGED <<side, h>>

\* Mutant: the last disk of the map is left out.
NextGroupSkipsLast ==
    /\ pc' = IF cur >= NDisks - 1 THEN "xbl" ELSE "group"
    /\ cur' = cur + 1
    /\ side' = "A"
    /\ h' = NoHandles
    /\ UNCHANGED <<op, ret>>

\* The loop of set_active_boot_slot goes on whatever the group returned.
NextGroup ==
    /\ pc' = IF cur = NDisks THEN "xbl" ELSE "group"
    /\ cur' = cur + 1
    /\ side' = "A"
    /\ h' = NoHandles
    /\ UNCHANGED <<op, ret>>

\* The loop of update_slot_attribute.
NextPartition ==
    IF cur = NParts
    THEN Return(op.name, op.slot, 0)
    ELSE /\ pc' = "load"
         /\ cur' = cur + 1
         /\ side' = "A"
         /\ h' = NoHandles
         /\ UNCHANGED <<op, ret>>

-----------------------------------------------------------------------------
(* Calls.  Arguments are the two slots and the first number past them. *)

\* gpt_utils_get_partition_map: on UFS a partition whose stat() or readlink()
\* fails stays out of the map, "not necessarily an error"; on eMMC nothing is
\* looked up.
gpt_utils_get_partition_map ==
    \E M \in SUBSET (IF IsUfs THEN Switchable ELSE {}) :
        Spend(Cardinality(M)) /\ missed' = M

SetActiveBootSlot(slot) ==
    /\ pc = "idle"
    /\ \/ /\ boot_control_check_slot_sanity(slot, get_number_slots(FALSE))
          /\ gpt_utils_get_partition_map
          /\ Start("set_active", slot, "group")
       \/ \E broken \in BOOLEAN :
            /\ ~boot_control_check_slot_sanity(slot, get_number_slots(broken))
            /\ Fault(broken)
            /\ Answer("set_active", slot, -1)
    /\ UNCHANGED disk

SetSlotAsUnbootable(slot) ==
    /\ pc = "idle"
    /\ \E broken \in BOOLEAN :
         /\ Fault(broken)
         /\ IF boot_control_check_slot_sanity(slot, get_number_slots(broken))
            THEN Start("set_unbootable", slot, "load")
            ELSE Return("set_unbootable", slot, -1)
    /\ missed' = {}
    /\ UNCHANGED disk

MarkBootSuccessful ==
    /\ pc = "idle"
    /\ \E broken \in BOOLEAN :
         /\ Fault(broken)
         /\ Start("mark_successful", get_current_slot(get_number_slots(broken)), "load")
    /\ missed' = {}
    /\ UNCHANGED disk

\* The value of a bit of boot_<slot> in the primary array, or -1.
get_partition_attribute(e, bit, broken) ==
    IF broken \/ e \notin Present THEN -1
    ELSE IF arr[e][bit] THEN 1 ELSE 0

IsSlotBootable(slot) ==
    /\ pc = "idle"
    /\ \E broken \in BOOLEAN, unread \in BOOLEAN :
         /\ Fault(broken \/ unread)
         /\ LET attr == get_partition_attribute(<<BootPart, slot>>, "unb", unread)
            IN  Answer("is_bootable", slot,
                       IF \/ ~boot_control_check_slot_sanity(slot, get_number_slots(broken))
                          \/ attr < 0
                       THEN -1 ELSE 1 - attr)
    /\ UNCHANGED disk

IsSlotMarkedSuccessful(slot) ==
    /\ pc = "idle"
    /\ \E broken \in BOOLEAN, unread \in BOOLEAN :
         /\ Fault(broken \/ unread)
         /\ Answer("is_successful", slot,
                   IF ~boot_control_check_slot_sanity(slot, get_number_slots(broken))
                   THEN -1
                   ELSE get_partition_attribute(<<BootPart, slot>>, "succ", unread))
    /\ UNCHANGED disk

\* get_suffix returns slot_suffix_arr[slot] (here: slot) or NULL (here: -1).
GetSuffix(slot) ==
    /\ pc = "idle"
    /\ \E broken \in BOOLEAN :
         /\ Fault(broken)
         /\ Answer("get_suffix", slot,
                   IF boot_control_check_slot_sanity(slot, get_number_slots(broken))
                   THEN slot ELSE -1)
    /\ UNCHANGED disk

GetCurrentSlot ==
    /\ pc = "idle"
    /\ \E broken \in BOOLEAN :
         /\ Fault(broken)
         /\ Answer("get_current", NoSlot, get_current_slot(get_number_slots(broken)))
    /\ UNCHANGED disk

-----------------------------------------------------------------------------
(* boot_ctl_set_active_slot_for_partitions, on the group of disk cur. *)

\* The A/B pairs of the group, but for those that were not found so far.
Group(d) == {p \in Switchable \ missed : DiskOf[<<p, op.slot>>] = d}

\* Of the pairs G that pass both stat() calls, the first one names the disks.
DiskA(G) == DiskOf[<<Min(G), 0>>]
DiskB(G) == DiskOf[<<Min(G), 1>>]

\* An entry that is not on diskA or diskB has no pentry in the handles.
PentryMissing(G) ==
    \E p \in G : DiskOf[<<p, 0>>] # DiskA(G) \/ DiskOf[<<p, 1>>] # DiskB(G)

\* The _a bits of the partitions unread could not be read: they count as clear.
AActive(p, unread) == arr[<<p, 0>>].active /\ p \notin unread

\* Mutant: the check of the pair is dropped.
BothInactiveUnchecked(G, unread) == FALSE

BothInactive(G, unread) ==
    \E p \in G : ~AActive(p, unread) /\ ~arr[<<p, 1>>].active

\* Mutant: SLOT_ACTIVE sets the active bit and keeps the other ones.
UpdateSlotKeepsBits(e, guid, active) == [arr[e] EXCEPT !.guid = guid, !.active = active]

\* UPDATE_SLOT: SLOT_ACTIVE stores AB_SLOT_ACTIVE_VAL over the A/B bits,
\* SLOT_INACTIVE clears the active bit only.
UpdateSlot(e, guid, active) ==
    IF active
    THEN [guid |-> guid, active |-> TRUE, succ |-> FALSE, unb |-> FALSE]
    ELSE [arr[e] EXCEPT !.guid = guid, !.active = FALSE]

\* Mutant: the two GUIDs are exchanged.
ActiveGuidOfOther(p, unread) == arr[<<p, IF AActive(p, unread) THEN 1 ELSE 0>>].guid

ActiveGuidOf(p, unread) == arr[<<p, IF AActive(p, unread) THEN 0 ELSE 1>>].guid

\* Mutant: inactive_guid is not copied and stays zero.
InactiveGuidZeroed(p, unread) == "alt"

InactiveGuidOf(p, unread) == arr[<<p, IF AActive(p, unread) THEN 1 ELSE 0>>].guid

\* The array of the handle that holds the entries of slot s after the loop.
Switched(G, s, unread) ==
    [e \in Present |->
        IF e[1] \in G /\ e[2] = s
        THEN IF s = op.slot THEN UpdateSlot(e, ActiveGuidOf(e[1], unread), TRUE)
                            ELSE UpdateSlot(e, InactiveGuidOf(e[1], unread), FALSE)
        ELSE arr[e]]

\* No pair of this device is in the map, or none passes the stat() calls of the
\* loop: there is no handle to commit, and the group returns 0.
GroupEmpty ==
    /\ pc = "group"
    /\ Spend(Cardinality(Group(cur)))
    /\ missed' = missed \cup Group(cur)
    /\ NextGroup
    /\ UNCHANGED disk

\* The loop over the group leaves by "goto error" before anything is written.
\* (A pair that is left out makes no error that the others do not make.)
GroupAborts ==
    /\ pc = "group"
    /\ Group(cur) # {}
    /\ Fault(~(PentryMissing(Group(cur)) \/ BothInactive(Group(cur), {})))
    /\ NextGroup
    /\ UNCHANGED <<disk, missed>>

\* The pairs M fail a stat() and are skipped, the other ones are switched.
GroupPrepared ==
    /\ pc = "group"
    /\ \E M, unread \in SUBSET Group(cur) :
         LET G == Group(cur) \ M
         IN  /\ G # {}
             /\ M \cap unread = {}
             /\ ~PentryMissing(G)
             /\ ~BothInactive(G, unread)
             /\ Spend(Cardinality(M) + Cardinality(unread))
             /\ missed' = missed \cup M
             /\ h' = [A |-> gpt_disk_get_disk_info(DiskA(G), Switched(G, 0, unread)),
                      B |-> gpt_disk_get_disk_info(DiskB(G), Switched(G, 1, unread))]
    /\ pc' = "hdr"
    /\ side' = "A"
    /\ UNCHANGED <<disk, op, cur, ret>>

\* gpt_utils_set_xbl_boot_partition needs both xbl_a and xbl_b.
XblFound == XblPart # 0 /\ Paired(XblPart)

SwitchXbl ==
    /\ pc = "xbl"
    /\ IsUfs => XblFound
    /\ bootLun' = IF IsUfs THEN op.slot ELSE bootLun
    /\ Return("set_active", op.slot, 0)
    /\ UNCHANGED <<arr, crc, bak, slotProp, missed, faults>>

SwitchXblFails ==
    /\ pc = "xbl"
    /\ IsUfs
    /\ Fault(XblFound)
    /\ bootLun' \in IF XblFound THEN {bootLun, op.slot} ELSE {bootLun}
    /\ Return("set_active", op.slot, -1)
    /\ UNCHANGED <<arr, crc, bak, slotProp, missed>>

-----------------------------------------------------------------------------
(* update_slot_attribute, on partition cur. *)

AttrBit == IF op.name = "mark_successful" THEN "succ" ELSE "unb"

\* One of the two stat() calls fails, because there is no such entry or for any
\* other reason: the partition is skipped.
LoadSkips ==
    /\ pc = "load"
    /\ Fault(Paired(cur))
    /\ missed' = IF Paired(cur) THEN missed \cup {cur} ELSE missed
    /\ NextPartition
    /\ UNCHANGED disk

Load ==
    /\ pc = "load"
    /\ Paired(cur)
    /\ LET e == <<cur, op.slot>>
       IN  h' = [NoHandles EXCEPT !["A"] =
                   gpt_disk_get_disk_info(DiskOf[e], [arr EXCEPT ![e][AttrBit] = TRUE])]
    /\ pc' = "hdr"
    /\ UNCHANGED <<disk, op, cur, side, missed, ret, faults>>

LoadFails ==
    /\ pc = "load"
    /\ Paired(cur)
    /\ Fault(TRUE)
    /\ Return(op.name, op.slot, -1)
    /\ UNCHANGED <<disk, missed>>

-----------------------------------------------------------------------------
(* gpt_disk_commit on h[side], and what its caller does next. *)

Written == OnDisk(h[side].disk)
\* Mutant: gpt_disk_update_crc is not called.
HeaderWrittenStale == crc

HeaderWritten == Overwrite(crc, h[side].mem, Written)

\* Mutant: the size of the array is rounded down to whole blocks.
ArrayWrittenRounded(W) == Overwrite(arr, h[side].mem, {e \in W : e[1] # NParts})

ArrayWritten(W) == Overwrite(arr, h[side].mem, W)

\* Mutant: the group is done after diskA.
CommitZeroSkipsB == IF op.name # "set_active" THEN NextPartition ELSE NextGroup

CommitReturnsZero ==
    IF op.name # "set_active" THEN NextPartition
    ELSE IF side = "B" THEN NextGroup
    ELSE /\ h' = [h EXCEPT !["A"] = gpt_disk_free(@)]
         /\ side' = "B"
         /\ pc' = "hdr"
         /\ UNCHANGED <<op, cur, ret>>

\* Mutant: an update goes on to the next partition after an error.
CommitErrorIgnored ==
    IF op.name # "set_active" THEN NextPartition ELSE NextGroup

\* Mutant: diskB is committed although the commit of diskA failed.
CommitErrorThenB ==
    IF op.name # "set_active" THEN Return(op.name, op.slot, -1)
    ELSE IF side = "B" THEN NextGroup
    ELSE /\ h' = [h EXCEPT !["A"] = gpt_disk_free(@)]
         /\ side' = "B"
         /\ pc' = "hdr"
         /\ UNCHANGED <<op, cur, ret>>

\* The error label of the group frees diskA and diskB, whatever was freed.
CommitReturnsError ==
    IF op.name # "set_active" THEN Return(op.name, op.slot, -1)
    ELSE IF side = "A" THEN NextGroup
    ELSE /\ h' = [x \in {"A", "B"} |-> gpt_disk_free(h[x])]
         /\ pc' = "double"
         /\ UNCHANGED <<op, cur, side, ret>>

CommitHeader ==
    /\ pc = "hdr"
    /\ crc' = HeaderWritten
    /\ pc' = "arr"
    /\ UNCHANGED <<arr, bak, bootLun, slotProp, call, missed, ret, faults>>

\* open, lseek, write or fsync fails; after fsync the block may be there.
CommitHeaderFails ==
    /\ pc = "hdr"
    /\ Fault(TRUE)
    /\ crc' \in {crc, HeaderWritten}
    /\ CommitReturnsError
    /\ UNCHANGED <<arr, bak, bootLun, slotProp, missed>>

CommitArray ==
    /\ pc = "arr"
    /\ arr' = ArrayWritten(Written)
    /\ CommitReturnsZero
    /\ UNCHANGED <<crc, bak, bootLun, slotProp, missed, faults>>

CommitArrayFails ==
    /\ pc = "arr"
    /\ Fault(TRUE)
    /\ \E W \in SUBSET Written : arr' = ArrayWritten(W)
    /\ CommitReturnsError
    /\ UNCHANGED <<crc, bak, bootLun, slotProp, missed>>

\* blk_rw takes any count that is not negative for success.
CommitArrayShort ==
    /\ pc = "arr"
    /\ ShortWrites
    /\ Fault(TRUE)
    /\ \E W \in SUBSET Written : arr' = ArrayWritten(W)
    /\ CommitReturnsZero
    /\ UNCHANGED <<crc, bak, bootLun, slotProp, missed>>

\* diskA was freed twice: the process may carry on or be stopped (AfterDoubleFree
\* is the first, ProcessAborts the second).
AfterDoubleFree ==
    /\ pc = "double"
    /\ NextGroup
    /\ UNCHANGED <<disk, missed, faults>>

ProcessAborts ==
    /\ pc = "double"
    /\ Answer("none", NoSlot, 0)
    /\ UNCHANGED <<disk, faults>>

-----------------------------------------------------------------------------
(* The machine. *)

\* The machine goes down, inside the running write if there is one, and comes
\* up in a slot the boot loader picked.
Crash ==
    /\ pc # "idle"
    /\ Fault(TRUE)
    /\ crc' \in IF pc = "hdr" THEN {crc, HeaderWritten} ELSE {crc}
    /\ \E W \in IF pc = "arr" THEN SUBSET Written ELSE {{}} : arr' = ArrayWritten(W)
    /\ slotProp' \in Slots
    /\ Answer("none", NoSlot, 0)
    /\ UNCHANGED <<bak, bootLun>>

Reboot ==
    /\ pc = "idle"
    /\ slotProp' \in Slots
    /\ Answer("none", NoSlot, 0)
    /\ UNCHANGED <<arr, crc, bak, bootLun, faults>>

-----------------------------------------------------------------------------

\* A flashed device: one slot holds the bootable GUIDs and is active, no
\* attribute is set, and the two tables of every disk agree.
Factory(a) ==
    [e \in Present |->
        [guid |-> IF e[2] = a THEN "img" ELSE "alt", active |-> e[2] = a,
         succ |-> FALSE, unb |-> FALSE]]

Init ==
    /\ \E a \in Slots : arr = Factory(a) /\ bootLun = a
    /\ crc = arr
    /\ bak = arr
    /\ slotProp \in Slots \cup {NoSlot}
    /\ pc = "idle"
    /\ op = NoCall
    /\ cur = 0
    /\ side = "A"
    /\ h = NoHandles
    /\ missed = {}
    /\ ret = NoRet
    /\ faults = 0

Arguments == 0..2

Calls ==
    \/ MarkBootSuccessful
    \/ GetCurrentSlot
    \/ \E slot \in Arguments :
         \/ SetActiveBootSlot(slot)
         \/ SetSlotAsUnbootable(slot)
         \/ IsSlotBootable(slot)
         \/ IsSlotMarkedSuccessful(slot)
         \/ GetSuffix(slot)

Steps ==
    \/ GroupEmpty \/ GroupAborts \/ GroupPrepared
    \/ SwitchXbl \/ SwitchXblFails
    \/ LoadSkips \/ Load \/ LoadFails
    \/ CommitHeader \/ CommitHeaderFails
    \/ CommitArray \/ CommitArrayFails \/ CommitArrayShort
    \/ AfterDoubleFree \/ ProcessAborts

Next == Calls \/ Steps \/ Crash \/ Reboot

Spec == Init /\ [][Next]_vars

-----------------------------------------------------------------------------
(* Properties. *)

\* An entry with the active bit carries the bootable type GUID, on disk and in
\* every handle about to be written, whatever fails and wherever a write is cut:
\* the GUID swap and the flag update of UPDATE_SLOT never come apart.
ActiveGuid ==
    \A e \in Present :
        /\ arr[e].active => arr[e].guid = "img"
        /\ \A x \in {"A", "B"} : h[x].mem[e].active => h[x].mem[e].guid = "img"

SwitchedTo(p, s) ==
    /\ arr[<<p, s>>] = [guid |-> "img", active |-> TRUE, succ |-> FALSE, unb |-> FALSE]
    /\ ~arr[<<p, 1 - s>>].active
    /\ arr[<<p, 1 - s>>].guid = "alt"

\* When no system call failed, set_active_boot_slot returning 0 means that every
\* A/B pair of every disk was switched, that both tables of the pair are valid
\* and that the boot LUN followed.
SwitchedAll ==
    (ret.name = "set_active" /\ ret.rc = 0 /\ faults = 0) =>
        /\ \A p \in Switchable :
             /\ SwitchedTo(p, ret.slot)
             /\ \A s \in Slots : TableValid(DiskOf[<<p, s>>])
        /\ IsUfs => bootLun = ret.slot

\* update_slot_attribute skips a pair that it cannot look up and stops at every
\* other error, so a 0 from mark_boot_successful or set_slot_as_unbootable means
\* that the bit is on disk for every A/B pair but those whose stat() failed, in
\* tables that are valid, whatever failed before the call.
MarkDurable ==
    (ret.name \in {"mark_successful", "set_unbootable"} /\ ret.rc = 0) =>
        \A p \in Parts \ missed : Paired(p) =>
            /\ arr[<<p, ret.slot>>][IF ret.name = "mark_successful" THEN "succ" ELSE "unb"]
            /\ TableValid(DiskOf[<<p, ret.slot>>])

\* is_slot_bootable and is_slot_marked_successful look at one partition only,
\* boot.  Between calls, and as long as nothing failed, all the pairs that a
\* switch covers have the same A/B bits, so that boot speaks for the slot.
BootSpeaksForSlot ==
    (pc = "idle" /\ faults = 0) =>
        \A s \in Slots : \A p, q \in Switchable : arr[<<p, s>>] = arr[<<q, s>>]

\* While nothing failed, the primary table of a disk is invalid only between the
\* header write and the array write of the commit that is working on that disk.
InvalidOnlyInWindow ==
    faults = 0 =>
        \A d \in Disks : ~TableValid(d) => pc = "arr" /\ h[side].disk = d

\* The disks whose primary table firmware would refuse, without the one that a
\* running commit is in the middle of.
Broken ==
    {d \in Disks : ~TableValid(d)} \ (IF pc = "arr" THEN {h[side].disk} ELSE {})

\* A crash, a failed system call or a write that was silently cut breaks the
\* primary table of one disk at most, and no retry of a half finished call, on
\* top of tables that are broken already, breaks a table without another fault.
OneTablePerFault == Cardinality(Broken) <= faults

HasActive(p) == \E s \in Slots : arr[<<p, s>>].active

\* diskA is committed before diskB, so a switch towards _a can be cut or fail
\* anywhere and still leave an active copy of every partition.
NeverDarkTowardsA ==
    [][op.name = "set_active" /\ op.slot = 0 =>
         \A p \in Switchable : HasActive(p) => HasActive(p)']_vars

\* diskA is done with and diskB waits to be committed.
Coming(p) ==
    pc \in {"hdr", "arr"} /\ side = "B" /\ op.name = "set_active" /\ p \in Group(cur)

\* The two entries of a pair, and the one that diskB is about to store.
Held(p) ==
    {arr[<<p, s>>] : s \in Slots} \cup (IF Coming(p) THEN {h["B"].mem[<<p, 1>>]} ELSE {})

\* A switch towards _b that stops between its two commits leaves partitions with
\* no active copy.  No later sequence of calls makes one active again or even
\* starts to: their group aborts before it writes.
Dark(p) == \A x \in Held(p) : ~x.active
DarkForever == [][\A p \in Switchable : Dark(p) => Dark(p)']_vars

\* The two type GUIDs of a pair are copied from one entry to the other and written
\* nowhere else, so a GUID that a cut switch overwrote is gone: a pair that has
\* come to carry the bootable GUID twice does so for ever, and the switches that
\* return 0 later on leave it on their inactive slot.
Guids(p) == {x.guid : x \in Held(p)}
GuidLostForever == [][\A p \in Switchable : Guids(p)' \subseteq Guids(p)]_vars

\* boot_ctl_set_active_slot_for_partitions writes and then returns 0 only when every
\* pair of its group was switched, in two valid tables, but for the pairs whose
\* lookup failed (boot_control.cpp:418-425, gpt-utils.cpp:1108-1114), whatever failed
\* before and in whatever state an earlier switch that was cut has left the pairs.
\* (A group whose diskB fails goes on to "double", so only one that returns 0 leaves
\* its last write for the next group or the boot LUN.)
GroupZeroMeansSwitched ==
    [][(op.name = "set_active" /\ pc = "arr" /\ side = "B" /\ pc' \in {"group", "xbl"}) =>
         \A p \in Group(cur) :
            /\ arr'[<<p, op.slot>>] =
                  [guid |-> "img", active |-> TRUE, succ |-> FALSE, unb |-> FALSE]
            /\ ~arr'[<<p, 1 - op.slot>>].active
            /\ \A s \in Slots : TableValid(DiskOf[<<p, s>>])']_vars

\* What a call reports is what the next call reads back, if that one can read.
ReadsBack(slot) ==
    /\ ret.name = "mark_successful" /\ ret'.name = "is_successful" => ret'.rc # 0
    /\ ret.name = "set_unbootable" /\ ret'.name = "is_bootable" => ret'.rc # 1
    /\ ret.name = "set_active" /\ faults' = 0 =>
         /\ ret'.name = "is_bootable" => ret'.rc # 0
         /\ ret'.name = "is_successful" => ret'.rc # 1

\* A slot marked successful is not reported as unmarked, a slot marked
\* unbootable is not reported as bootable, unless the call that marked it could
\* not look up boot and skipped it; and a slot just made active, with no failure so
\* far, is reported bootable and not yet successful.
ReadBack ==
    [][(/\ ret.rc = 0 /\ ret'.slot = ret.slot
        /\ Paired(BootPart) /\ BootPart \notin missed) => ReadsBack(ret.slot)]_vars

\* Every disk write changes the entries of one slot only, and each of them by
\* one of the three updates of SlotTable.
Table_ == INSTANCE SlotTable WITH Entries <- Present, tab <- arr
SlotTableSpec == Table_!Spec

\* A 0 from set_active_boot_slot means that every pair that was found is active in
\* the new slot.  The code does not give this: a group that fails is passed over
\* (boot_control.cpp:585), whatever its reason, and the boot LUN is switched.
ZeroMeansActive ==
    (ret.name = "set_active" /\ ret.rc = 0) =>
        \A p \in Switchable \ missed : arr[<<p, ret.slot>>].active

\* "Mark A as active in backup table" (boot_control.cpp:479): after a switch the
\* backup table shows the slot as active too.  The code does not give this.
BackupFollows ==
    (ret.name = "set_active" /\ ret.rc = 0 /\ faults = 0) =>
        \A p \in Switchable : bak[<<p, ret.slot>>].active

\* "Free previously allocated/initialized handle" (gpt-utils.cpp:1363): a handle
\* that was freed is not freed again.  The code does not give this.
FreedOnce == \A x \in {"A", "B"} : h[x].st # "double"
=============================================================================
