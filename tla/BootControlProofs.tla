------------------------- MODULE BootControlProofs -------------------------
(***************************************************************************)
(* Proofs about BootControl, for every layout of partitions over disks and *)
(* every number of faults.                                                 *)
(***************************************************************************)
EXTENDS BootControl, FiniteSetTheorems, TLAPS

-----------------------------------------------------------------------------
(* The control state: what the program counter says about the call. *)

Updates == {"mark_successful", "set_unbootable"}

Control ==
    /\ pc # "idle" => op.slot \in Slots
    /\ pc \in {"group", "double"} => op.name = "set_active" /\ cur \in Disks
    /\ pc = "xbl" => op.name = "set_active"
    /\ pc \in {"idle", "group", "load"} => side = "A"
    /\ pc = "load" => op.name \in Updates /\ cur \in Parts
    /\ pc \in {"hdr", "arr"} =>
         /\ h[side].disk \in Disks
         /\ \/ op.name = "set_active" /\ cur \in Disks /\ h["B"].disk \in Disks
            \/ op.name \in Updates /\ cur \in Parts /\ side = "A"

DiskOK ==
    /\ arr \in Table /\ crc \in Table /\ bak \in Table
    /\ bootLun \in Slots
    /\ slotProp \in Slots \cup {NoSlot}

CallOK ==
    /\ pc \in {"idle", "group", "load", "hdr", "arr", "double", "xbl"}
    /\ op \in Call
    /\ cur \in 0..(NParts + NDisks + 1)
    /\ side \in {"A", "B"}
    /\ h \in [{"A", "B"} -> Handle]
    /\ ret \in [name : Ops, slot : Int, rc : Int]
    /\ Control

IInv == DiskOK /\ CallOK /\ missed \subseteq Parts /\ faults \in 0..MaxFaults

LEMMA IInvTypeOK == IInv => TypeOK
  BY DEF IInv, DiskOK, CallOK, TypeOK

-----------------------------------------------------------------------------
(* The operators return values of their types. *)

LEMMA NoHandlesType == NoHandles \in [{"A", "B"} -> Handle]
<1>1. Zeroed \in Entry
  BY DEF Zeroed, Entry
<1>2. [e \in Present |-> Zeroed] \in Table
  BY <1>1 DEF Table
<1>3. gpt_disk_alloc \in Handle
  BY <1>2, LayoutAssumption DEF gpt_disk_alloc, Handle
<1> QED  BY <1>3 DEF NoHandles

LEMMA OverwriteType ==
  ASSUME NEW tab \in Table, NEW new \in Table, NEW W
  PROVE  Overwrite(tab, new, W) \in Table
  BY DEF Overwrite, Table

LEMMA FreeType ==
  ASSUME NEW hd \in Handle
  PROVE  gpt_disk_free(hd) \in Handle
<1>1. gpt_disk_alloc \in Handle
  BY NoHandlesType DEF NoHandles
<1> QED  BY <1>1 DEF gpt_disk_free, Handle

LEMMA LoadType ==
  ASSUME NEW d \in Disks, NEW mem \in Table
  PROVE  gpt_disk_get_disk_info(d, mem) \in Handle
  BY LayoutAssumption DEF gpt_disk_get_disk_info, Handle, Disks

LEMMA SpendType ==
  ASSUME NEW n \in Nat, Spend(n), faults \in 0..MaxFaults
  PROVE  faults' \in 0..MaxFaults
  BY LayoutAssumption DEF Spend

LEMMA FaultType ==
  ASSUME NEW b, Fault(b), faults \in 0..MaxFaults
  PROVE  faults' \in 0..MaxFaults
  BY SpendType DEF Fault

\* Any number of partitions may be left out, and leaving one out is a fault.
LEMMA PartsCount ==
  ASSUME NEW M \in SUBSET Parts
  PROVE  IsFiniteSet(M) /\ Cardinality(M) \in Nat /\ (Cardinality(M) = 0 => M = {})
<1>1. IsFiniteSet(Parts)
  BY FS_Interval, LayoutAssumption DEF Parts
<1>2. IsFiniteSet(M)
  BY <1>1, FS_Subset
<1> QED  BY <1>2, FS_CardinalityType, FS_EmptySet

\* A slot number that passes the sanity check is a slot.
LEMMA SaneSlot ==
  ASSUME NEW slot \in Arguments, NEW b \in BOOLEAN,
         boot_control_check_slot_sanity(slot, get_number_slots(b))
  PROVE  slot \in Slots
<1> DEFINE S == {s \in Slots : <<BootPart, s>> \in Present}
<1>1. IsFiniteSet(Slots) /\ Cardinality(Slots) <= 2
  <2>1. IsFiniteSet({0}) /\ Cardinality({0}) = 1
    BY FS_Singleton
  <2>2. IsFiniteSet({0} \cup {1}) /\ Cardinality({0} \cup {1}) = 2
    <3>1. 1 \notin {0}
      OBVIOUS
    <3> QED  BY <2>1, <3>1, FS_AddElement
  <2>3. Slots = {0} \cup {1}
    BY DEF Slots
  <2> QED  BY <2>2, <2>3
<1>2. IsFiniteSet(S) /\ Cardinality(S) <= Cardinality(Slots)
  BY <1>1, FS_Subset
<1>3. Cardinality(S) \in Nat /\ Cardinality(Slots) \in Nat
  BY <1>1, <1>2, FS_CardinalityType
<1>4. get_number_slots(b) \in Nat /\ get_number_slots(b) <= 2
  BY <1>1, <1>2, <1>3 DEF get_number_slots
<1> QED  BY <1>4 DEF boot_control_check_slot_sanity, Arguments, Slots

LEMMA CurrentSlot ==
  ASSUME DiskOK, NEW n
  PROVE  get_current_slot(n) \in Slots
  BY DEF get_current_slot, DiskOK, Slots, NoSlot

-----------------------------------------------------------------------------
(* The continuations keep the call well formed. *)

LEMMA ReturnOK ==
  ASSUME NEW name \in Ops, NEW slot \in Int, NEW rc \in Int, Return(name, slot, rc)
  PROVE  CallOK'
<1>1. NoCall \in Call
  BY DEF NoCall, Call, Ops
<1>2. h' \in [{"A", "B"} -> Handle]
  BY NoHandlesType DEF Return
<1>3. cur' \in 0..(NParts + NDisks + 1)
  BY LayoutAssumption DEF Return
<1> QED  BY <1>1, <1>2, <1>3 DEF Return, CallOK, Control

LEMMA NextGroupOK ==
  ASSUME CallOK, op.name = "set_active", op.slot \in Slots, cur \in Disks, NextGroup
  PROVE  CallOK'
<1>1. h' \in [{"A", "B"} -> Handle]
  BY NoHandlesType DEF NextGroup
<1>2. cur' \in 1..(NDisks + 1) /\ cur' \in 0..(NParts + NDisks + 1)
  BY LayoutAssumption DEF NextGroup, Disks
<1>3. pc' = "group" => cur' \in Disks
  BY <1>2, LayoutAssumption DEF NextGroup, Disks
<1> QED  BY <1>1, <1>2, <1>3 DEF NextGroup, CallOK, Control

LEMMA NextPartitionOK ==
  ASSUME CallOK, op.name \in Updates, op.slot \in Slots, cur \in Parts, NextPartition
  PROVE  CallOK'
<1>1. CASE cur = NParts
  <2>1. Return(op.name, op.slot, 0)
    BY <1>1 DEF NextPartition
  <2> QED  BY <2>1, ReturnOK DEF Updates, Ops, Slots
<1>2. CASE cur # NParts
  <2>1. h' \in [{"A", "B"} -> Handle]
    BY <1>2, NoHandlesType DEF NextPartition
  <2>2. cur' \in Parts /\ cur' \in 0..(NParts + NDisks + 1)
    BY <1>2, LayoutAssumption DEF NextPartition, Parts
  <2> QED  BY <1>2, <2>1, <2>2 DEF NextPartition, CallOK, Control
<1> QED  BY <1>1, <1>2

LEMMA CommitReturnsZeroOK ==
  ASSUME CallOK, pc \in {"hdr", "arr"}, CommitReturnsZero
  PROVE  CallOK'
<1>1. op.slot \in Slots
  BY DEF CallOK, Control
<1>2. CASE op.name # "set_active"
  <2>1. op.name \in Updates /\ cur \in Parts
    BY <1>2 DEF CallOK, Control
  <2> QED  BY <1>1, <1>2, <2>1, NextPartitionOK DEF CommitReturnsZero
<1>3. CASE op.name = "set_active" /\ side = "B"
  <2>1. cur \in Disks
    BY <1>3 DEF CallOK, Control, Updates
  <2> QED  BY <1>1, <1>3, <2>1, NextGroupOK DEF CommitReturnsZero
<1>4. CASE op.name = "set_active" /\ side # "B"
  <2>1. cur \in Disks /\ h["B"].disk \in Disks
    BY <1>4 DEF CallOK, Control, Updates
  <2>2. h' = [h EXCEPT !["A"] = gpt_disk_free(h["A"])] /\ side' = "B" /\ pc' = "hdr"
        /\ op' = op /\ cur' = cur /\ ret' = ret
    BY <1>4 DEF CommitReturnsZero
  <2>3. gpt_disk_free(h["A"]) \in Handle
    BY FreeType DEF CallOK
  <2>4. h' \in [{"A", "B"} -> Handle] /\ h'["B"] = h["B"]
    BY <2>2, <2>3 DEF CallOK
  <2> QED  BY <1>1, <1>4, <2>1, <2>2, <2>4 DEF CallOK, Control
<1> QED  BY <1>2, <1>3, <1>4

LEMMA CommitReturnsErrorOK ==
  ASSUME CallOK, pc \in {"hdr", "arr"}, CommitReturnsError
  PROVE  CallOK'
<1>1. op.slot \in Slots
  BY DEF CallOK, Control
<1>2. CASE op.name # "set_active"
  <2>1. Return(op.name, op.slot, -1)
    BY <1>2 DEF CommitReturnsError
  <2>2. op.name \in Ops /\ op.slot \in Int /\ -1 \in Int
    BY <1>1 DEF CallOK, Call, Slots
  <2> QED  BY <2>1, <2>2, ReturnOK
<1>3. CASE op.name = "set_active" /\ side = "A"
  <2>1. cur \in Disks
    BY <1>3 DEF CallOK, Control, Updates
  <2> QED  BY <1>1, <1>3, <2>1, NextGroupOK DEF CommitReturnsError
<1>4. CASE op.name = "set_active" /\ side # "A"
  <2>1. cur \in Disks
    BY <1>4 DEF CallOK, Control, Updates
  <2>2. h' = [x \in {"A", "B"} |-> gpt_disk_free(h[x])] /\ pc' = "double"
        /\ op' = op /\ cur' = cur /\ side' = side /\ ret' = ret
    BY <1>4 DEF CommitReturnsError
  <2>3. \A x \in {"A", "B"} : gpt_disk_free(h[x]) \in Handle
    BY FreeType DEF CallOK
  <2>4. h' \in [{"A", "B"} -> Handle]
    BY <2>2, <2>3
  <2> QED  BY <1>1, <1>4, <2>1, <2>2, <2>4 DEF CallOK, Control
<1> QED  BY <1>2, <1>3, <1>4

-----------------------------------------------------------------------------
(* The entries a group computes. *)

LEMMA SwitchableFacts ==
  /\ Switchable \subseteq Parts
  /\ \A p \in Switchable : \A s \in Slots : <<p, s>> \in Present
  BY DEF Switchable, Paired, Slots

LEMMA GroupFacts ==
  ASSUME NEW d
  PROVE  /\ Group(d) \subseteq Parts /\ Group(d) \subseteq Switchable
         /\ \A p \in Group(d) : \A s \in Slots : <<p, s>> \in Present
  BY SwitchableFacts DEF Group

LEMMA SwitchedType ==
  ASSUME DiskOK, NEW G \in SUBSET Switchable, NEW s \in Slots, NEW unread
  PROVE  Switched(G, s, unread) \in Table
<1>1. ASSUME NEW e \in Present PROVE Switched(G, s, unread)[e] \in Entry
  <2>1. arr[e] \in Entry
    BY DEF DiskOK, Table
  <2>2. CASE e[1] \in G /\ e[2] = s
    <3>1. arr[<<e[1], 0>>] \in Entry /\ arr[<<e[1], 1>>] \in Entry
      BY <2>2, SwitchableFacts DEF DiskOK, Table, Slots
    <3>2. /\ ActiveGuidOf(e[1], unread) \in {"img", "alt"}
          /\ InactiveGuidOf(e[1], unread) \in {"img", "alt"}
      BY <3>1 DEF ActiveGuidOf, InactiveGuidOf, Entry
    <3>3. /\ UpdateSlot(e, ActiveGuidOf(e[1], unread), TRUE) \in Entry
          /\ UpdateSlot(e, InactiveGuidOf(e[1], unread), FALSE) \in Entry
      BY <2>1, <3>2 DEF UpdateSlot, Entry
    <3> QED  BY <2>2, <3>3 DEF Switched
  <2>3. CASE ~(e[1] \in G /\ e[2] = s)
    BY <2>1, <2>3 DEF Switched
  <2> QED  BY <2>2, <2>3
<1> QED  BY <1>1 DEF Table, Switched

LEMMA WrittenType ==
  ASSUME DiskOK, CallOK
  PROVE  /\ HeaderWritten \in Table
         /\ \A W : ArrayWritten(W) \in Table
<1>1. h[side].mem \in Table
  BY DEF CallOK, Handle
<1> QED  BY <1>1, OverwriteType DEF DiskOK, HeaderWritten, ArrayWritten

-----------------------------------------------------------------------------
(* Every action preserves the types and the control state. *)

\* Looking the partitions up leaves pairs out and spends a fault on each.
LEMMA MapCounts ==
  ASSUME gpt_utils_get_partition_map, faults \in 0..MaxFaults
  PROVE  /\ missed' \subseteq Parts /\ faults' \in 0..MaxFaults
         /\ faults' >= faults /\ (faults' = 0 => missed' = {})
<1>1. PICK M \in SUBSET (IF IsUfs THEN Switchable ELSE {}) :
        Spend(Cardinality(M)) /\ missed' = M
  BY DEF gpt_utils_get_partition_map
<1>2. M \in SUBSET Parts
  BY SwitchableFacts
<1>3. Cardinality(M) \in Nat /\ (Cardinality(M) = 0 => M = {})
  BY <1>2, PartsCount
<1>4. faults' = faults + Cardinality(M) /\ faults' \in 0..MaxFaults
  BY <1>1, <1>3, SpendType DEF Spend
<1> QED  BY <1>1, <1>2, <1>3, <1>4, LayoutAssumption

LEMMA CallsIInv ==
  ASSUME IInv, Calls
  PROVE  IInv'
<1> USE DEF IInv
<1>1. DiskOK'
  BY DEF Calls, MarkBootSuccessful, GetCurrentSlot, SetActiveBootSlot, SetSlotAsUnbootable,
     IsSlotBootable, IsSlotMarkedSuccessful, GetSuffix, disk, DiskOK
<1>2. missed' \subseteq Parts /\ faults' \in 0..MaxFaults
  <2>1. CASE \E slot \in Arguments : SetActiveBootSlot(slot)
    BY <2>1, FaultType, MapCounts DEF SetActiveBootSlot, Answer
  <2>2. CASE ~\E slot \in Arguments : SetActiveBootSlot(slot)
    BY <2>2, FaultType DEF Calls, MarkBootSuccessful, GetCurrentSlot,
       SetSlotAsUnbootable, IsSlotBootable, IsSlotMarkedSuccessful, GetSuffix, Answer
  <2> QED  BY <2>1, <2>2
<1>3. ASSUME NEW name \in Ops, NEW slot \in Slots, NEW where \in {"group", "load"},
             pc = "idle", Start(name, slot, where),
             where = "group" => name = "set_active",
             where = "load" => name \in Updates
      PROVE  CallOK'
  <2>1. NoRet \in [name : Ops, slot : Int, rc : Int]
    BY DEF NoRet, Ops, NoSlot
  <2>2. cur' = 1 /\ cur' \in Disks /\ cur' \in Parts /\ cur' \in 0..(NParts + NDisks + 1)
    BY <1>3, LayoutAssumption DEF Start, Disks, Parts
  <2>3. op' \in Call
    BY <1>3 DEF Start, Call
  <2> QED  BY <1>3, <2>1, <2>2, <2>3 DEF Start, CallOK, Control
<1>4. CASE MarkBootSuccessful
  <2>1. PICK b \in BOOLEAN :
          Start("mark_successful", get_current_slot(get_number_slots(b)), "load")
    BY <1>4 DEF MarkBootSuccessful
  <2>2. get_current_slot(get_number_slots(b)) \in Slots
    BY CurrentSlot
  <2> QED  BY <1>3, <1>4, <2>1, <2>2, <1>1, <1>2 DEF MarkBootSuccessful, Ops, Updates
<1>5. CASE GetCurrentSlot
  <2>1. PICK b \in BOOLEAN :
          Return("get_current", NoSlot, get_current_slot(get_number_slots(b)))
    BY <1>5 DEF GetCurrentSlot, Answer
  <2>2. get_current_slot(get_number_slots(b)) \in Int
    BY CurrentSlot DEF Slots
  <2> QED  BY <2>1, <2>2, ReturnOK, <1>1, <1>2 DEF Ops, NoSlot
<1>6. ASSUME NEW slot \in Arguments, SetActiveBootSlot(slot) PROVE CallOK'
  <2>1. CASE /\ boot_control_check_slot_sanity(slot, get_number_slots(FALSE))
             /\ Start("set_active", slot, "group")
    BY <1>3, <1>6, <2>1, SaneSlot DEF SetActiveBootSlot, Ops
  <2>2. CASE Return("set_active", slot, -1)
    BY <2>2, ReturnOK DEF Ops, Arguments
  <2> QED  BY <1>6, <2>1, <2>2 DEF SetActiveBootSlot, Answer
<1>7. ASSUME NEW slot \in Arguments, SetSlotAsUnbootable(slot) PROVE CallOK'
  <2>1. PICK b \in BOOLEAN :
          IF boot_control_check_slot_sanity(slot, get_number_slots(b))
          THEN Start("set_unbootable", slot, "load") ELSE Return("set_unbootable", slot, -1)
    BY <1>7 DEF SetSlotAsUnbootable
  <2>2. CASE boot_control_check_slot_sanity(slot, get_number_slots(b))
    BY <1>3, <1>7, <2>1, <2>2, SaneSlot DEF SetSlotAsUnbootable, Ops, Updates
  <2>3. CASE ~boot_control_check_slot_sanity(slot, get_number_slots(b))
    BY <2>1, <2>3, ReturnOK DEF Ops, Arguments
  <2> QED  BY <2>2, <2>3
<1>8. \A e, bit, b : get_partition_attribute(e, bit, b) \in {-1, 0, 1}
  BY DEF get_partition_attribute
<1>9. ASSUME NEW slot \in Arguments, IsSlotBootable(slot) PROVE CallOK'
  <2>1. PICK b \in BOOLEAN, u \in BOOLEAN :
          Return("is_bootable", slot,
                 IF \/ ~boot_control_check_slot_sanity(slot, get_number_slots(b))
                    \/ get_partition_attribute(<<BootPart, slot>>, "unb", u) < 0
                 THEN -1 ELSE 1 - get_partition_attribute(<<BootPart, slot>>, "unb", u))
    BY <1>9 DEF IsSlotBootable, Answer
  <2>2. (IF \/ ~boot_control_check_slot_sanity(slot, get_number_slots(b))
            \/ get_partition_attribute(<<BootPart, slot>>, "unb", u) < 0
         THEN -1 ELSE 1 - get_partition_attribute(<<BootPart, slot>>, "unb", u)) \in Int
    <3> DEFINE a == get_partition_attribute(<<BootPart, slot>>, "unb", u)
    <3>1. a \in Int
      BY <1>8
    <3> HIDE DEF a
    <3>2. (IF ~boot_control_check_slot_sanity(slot, get_number_slots(b)) \/ a < 0
           THEN -1 ELSE 1 - a) \in Int
      BY <3>1
    <3> QED  BY <3>2 DEF a
  <2>3. "is_bootable" \in Ops /\ slot \in Int
    BY DEF Ops, Arguments
  <2> QED  BY <2>1, <2>2, <2>3, ReturnOK
<1>10. ASSUME NEW slot \in Arguments, IsSlotMarkedSuccessful(slot) PROVE CallOK'
  <2>1. PICK b \in BOOLEAN, u \in BOOLEAN :
          Return("is_successful", slot,
                 IF ~boot_control_check_slot_sanity(slot, get_number_slots(b))
                 THEN -1 ELSE get_partition_attribute(<<BootPart, slot>>, "succ", u))
    BY <1>10 DEF IsSlotMarkedSuccessful, Answer
  <2>2. (IF ~boot_control_check_slot_sanity(slot, get_number_slots(b))
         THEN -1 ELSE get_partition_attribute(<<BootPart, slot>>, "succ", u)) \in Int
    BY <1>8
  <2>3. "is_successful" \in Ops /\ slot \in Int
    BY DEF Ops, Arguments
  <2> QED  BY <2>1, <2>2, <2>3, ReturnOK
<1>11. ASSUME NEW slot \in Arguments, GetSuffix(slot) PROVE CallOK'
  BY <1>11, ReturnOK DEF GetSuffix, Answer, Ops, Arguments
<1> QED  BY <1>1, <1>2, <1>4, <1>5, <1>6, <1>7, <1>9, <1>10, <1>11 DEF Calls

LEMMA DiskSame ==
  ASSUME DiskOK, UNCHANGED disk
  PROVE  DiskOK'
  BY DEF DiskOK, disk

\* A group leaves pairs out and spends a fault on each.
LEMMA GroupCounts ==
  ASSUME IInv, GroupEmpty \/ GroupAborts \/ GroupPrepared
  PROVE  /\ missed' \subseteq Parts /\ missed \subseteq missed'
         /\ faults' \in 0..MaxFaults /\ faults' >= faults
         /\ faults' = faults => missed' = missed
<1>1. missed \subseteq Parts /\ faults \in 0..MaxFaults /\ faults \in Nat
  BY LayoutAssumption DEF IInv
<1>2. CASE GroupEmpty
  <2>1. Group(cur) \in SUBSET Parts
    BY GroupFacts
  <2>2. Cardinality(Group(cur)) \in Nat /\ (Cardinality(Group(cur)) = 0 => Group(cur) = {})
    BY <2>1, PartsCount
  <2>3. faults' = faults + Cardinality(Group(cur)) /\ faults' \in 0..MaxFaults
    BY <1>1, <1>2, <2>2, SpendType DEF GroupEmpty, Spend
  <2> QED  BY <1>1, <1>2, <2>1, <2>2, <2>3 DEF GroupEmpty
<1>3. CASE GroupAborts
  BY <1>1, <1>3, FaultType DEF GroupAborts, Fault, Spend
<1>4. CASE GroupPrepared
  <2>1. PICK M \in SUBSET Group(cur), unread \in SUBSET Group(cur) :
          Spend(Cardinality(M) + Cardinality(unread)) /\ missed' = missed \cup M
    BY <1>4 DEF GroupPrepared
  <2>2. M \in SUBSET Parts /\ unread \in SUBSET Parts
    BY GroupFacts
  <2>3. /\ Cardinality(M) \in Nat /\ (Cardinality(M) = 0 => M = {})
        /\ Cardinality(unread) \in Nat
    BY <2>2, PartsCount
  <2>4. faults' = faults + Cardinality(M) + Cardinality(unread) /\ faults' \in 0..MaxFaults
    BY <1>1, <2>1, <2>3, SpendType DEF Spend
  <2> QED  BY <1>1, <2>1, <2>2, <2>3, <2>4
<1> QED  BY <1>2, <1>3, <1>4

\* What GroupPrepared leaves in the handles.
LEMMA PreparedHandles ==
  ASSUME IInv, GroupPrepared
  PROVE  \E G \in SUBSET Group(cur), unread \in SUBSET Group(cur) :
           /\ G # {} /\ G = Group(cur) \ missed'
           /\ ~PentryMissing(G) /\ ~BothInactive(G, unread)
           /\ h' = [A |-> gpt_disk_get_disk_info(DiskA(G), Switched(G, 0, unread)),
                    B |-> gpt_disk_get_disk_info(DiskB(G), Switched(G, 1, unread))]
           /\ h' \in [{"A", "B"} -> Handle]
           /\ h'["A"].disk \in Disks /\ h'["B"].disk \in Disks
           /\ \A p \in G : DiskOf[<<p, 0>>] = DiskA(G) /\ DiskOf[<<p, 1>>] = DiskB(G)
<1>1. PICK M \in SUBSET Group(cur), unread \in SUBSET Group(cur) :
        /\ Group(cur) \ M # {}
        /\ ~PentryMissing(Group(cur) \ M) /\ ~BothInactive(Group(cur) \ M, unread)
        /\ missed' = missed \cup M
        /\ h' = [A |-> gpt_disk_get_disk_info(DiskA(Group(cur) \ M),
                                              Switched(Group(cur) \ M, 0, unread)),
                 B |-> gpt_disk_get_disk_info(DiskB(Group(cur) \ M),
                                              Switched(Group(cur) \ M, 1, unread))]
  BY DEF GroupPrepared
<1> DEFINE G == Group(cur) \ M
<1>2. G = Group(cur) \ missed'
  BY <1>1 DEF Group
<1>3. \A p \in G : DiskOf[<<p, 0>>] = DiskA(G) /\ DiskOf[<<p, 1>>] = DiskB(G)
  BY <1>1 DEF PentryMissing
<1>4. DiskA(G) \in Disks /\ DiskB(G) \in Disks
  BY <1>1, <1>3, GroupFacts, LayoutAssumption DEF Slots
<1>5. Switched(G, 0, unread) \in Table /\ Switched(G, 1, unread) \in Table
  BY GroupFacts, SwitchedType DEF Slots, IInv
<1>6. /\ gpt_disk_get_disk_info(DiskA(G), Switched(G, 0, unread)) \in Handle
      /\ gpt_disk_get_disk_info(DiskB(G), Switched(G, 1, unread)) \in Handle
  BY <1>4, <1>5, LoadType
<1>7. h' \in [{"A", "B"} -> Handle]
  BY <1>1, <1>6
<1>8. h'["A"].disk \in Disks /\ h'["B"].disk \in Disks
  BY <1>1, <1>4 DEF gpt_disk_get_disk_info
<1> QED  BY <1>1, <1>2, <1>3, <1>7, <1>8

LEMMA GroupStepsIInv ==
  ASSUME IInv, GroupEmpty \/ GroupAborts \/ GroupPrepared
  PROVE  IInv'
<1>1. DiskOK /\ CallOK /\ DiskOK' /\ missed' \subseteq Parts /\ faults' \in 0..MaxFaults
  BY DiskSame, GroupCounts DEF IInv, GroupEmpty, GroupAborts, GroupPrepared
<1>2. pc = "group" /\ op.name = "set_active" /\ op.slot \in Slots /\ cur \in Disks
  BY <1>1 DEF GroupEmpty, GroupAborts, GroupPrepared, CallOK, Control
<1>3. CASE GroupEmpty \/ GroupAborts
  <2>1. NextGroup
    BY <1>3 DEF GroupEmpty, GroupAborts
  <2> QED  BY <1>1, <1>2, <2>1, NextGroupOK DEF IInv
<1>4. CASE GroupPrepared
  <2>1. /\ h' \in [{"A", "B"} -> Handle]
        /\ h'["A"].disk \in Disks /\ h'["B"].disk \in Disks
    BY <1>4, PreparedHandles
  <2>2. pc' = "hdr" /\ side' = "A" /\ UNCHANGED <<op, cur, ret>>
    BY <1>4 DEF GroupPrepared
  <2>3. CallOK'
    BY <1>1, <1>2, <2>1, <2>2 DEF CallOK, Control
  <2> QED  BY <1>1, <2>3 DEF IInv
<1> QED  BY <1>3, <1>4

LEMMA XblStepsIInv ==
  ASSUME IInv, SwitchXbl \/ SwitchXblFails
  PROVE  IInv'
<1>1. op.slot \in Slots /\ DiskOK /\ missed' \subseteq Parts /\ faults' \in 0..MaxFaults
  BY FaultType DEF IInv, CallOK, Control, SwitchXbl, SwitchXblFails
<1>2. DiskOK'
  BY <1>1, DiskSame DEF SwitchXbl, SwitchXblFails, DiskOK
<1>3. CallOK'
  BY <1>1, ReturnOK DEF SwitchXbl, SwitchXblFails, Ops, Slots
<1> QED  BY <1>1, <1>2, <1>3 DEF IInv

LEMMA LoadStepsIInv ==
  ASSUME IInv, LoadSkips \/ Load \/ LoadFails
  PROVE  IInv'
<1>1. DiskOK /\ CallOK /\ DiskOK' /\ faults' \in 0..MaxFaults
  BY DiskSame, FaultType DEF IInv, LoadSkips, Load, LoadFails
<1>2. /\ pc = "load" /\ op.name \in Updates /\ op.slot \in Slots /\ cur \in Parts
      /\ missed' \subseteq Parts
  BY <1>1 DEF LoadSkips, Load, LoadFails, CallOK, Control, IInv
<1>3. CASE LoadSkips
  BY <1>1, <1>2, <1>3, NextPartitionOK DEF LoadSkips, IInv
<1>4. CASE LoadFails
  <2>1. op.name \in Ops /\ op.slot \in Int /\ -1 \in Int
    BY <1>2 DEF Updates, Ops, Slots
  <2> QED  BY <1>1, <1>4, <2>1, ReturnOK DEF LoadFails, IInv
<1>5. CASE Load
  <2> DEFINE e == <<cur, op.slot>>
             mem == [arr EXCEPT ![e][AttrBit] = TRUE]
             hd == gpt_disk_get_disk_info(DiskOf[e], mem)
  <2>1. e \in Present
    BY <1>2, <1>5 DEF Load, Paired, Slots
  <2>2. DiskOf[e] \in Disks
    BY <2>1, LayoutAssumption
  <2>3. arr[e] \in Entry
    BY <1>1, <2>1 DEF DiskOK, Table
  <2>4. [arr[e] EXCEPT ![AttrBit] = TRUE] \in Entry
    BY <2>3 DEF AttrBit, Entry
  <2>5. mem = [arr EXCEPT ![e] = [arr[e] EXCEPT ![AttrBit] = TRUE]]
    OBVIOUS
  <2>6. mem \in Table
    BY <1>1, <2>1, <2>4, <2>5 DEF DiskOK, Table
  <2>7. hd \in Handle /\ hd.disk \in Disks
    BY <2>2, <2>6, LoadType DEF gpt_disk_get_disk_info
  <2>8. h' = [NoHandles EXCEPT !["A"] = hd] /\ pc' = "hdr" /\ side' = side /\ op' = op
        /\ cur' = cur /\ ret' = ret
    BY <1>5 DEF Load
  <2>9. h' \in [{"A", "B"} -> Handle] /\ h'["A"] = hd
    BY <2>7, <2>8, NoHandlesType
  <2>10. side = "A"
    BY <1>1, <1>2 DEF CallOK, Control
  <2>11. CallOK'
    BY <1>1, <1>2, <2>7, <2>8, <2>9, <2>10 DEF CallOK, Control
  <2> QED  BY <1>1, <1>2, <2>11 DEF IInv
<1> QED  BY <1>3, <1>4, <1>5

LEMMA CommitStepsIInv ==
  ASSUME IInv,
         \/ CommitHeader \/ CommitHeaderFails
         \/ CommitArray \/ CommitArrayFails \/ CommitArrayShort
  PROVE  IInv'
<1>1. /\ DiskOK /\ CallOK /\ pc \in {"hdr", "arr"}
      /\ missed' \subseteq Parts /\ faults' \in 0..MaxFaults
  BY FaultType DEF IInv, CommitHeader, CommitHeaderFails, CommitArray, CommitArrayFails,
     CommitArrayShort
<1>2. DiskOK'
  BY <1>1, WrittenType DEF DiskOK, CommitHeader, CommitHeaderFails, CommitArray,
     CommitArrayFails, CommitArrayShort
<1>3. CASE CommitHeader
  BY <1>1, <1>2, <1>3 DEF CommitHeader, call, CallOK, Control, IInv
<1>4. CASE CommitHeaderFails \/ CommitArrayFails
  BY <1>1, <1>2, <1>4, CommitReturnsErrorOK DEF CommitHeaderFails, CommitArrayFails, IInv
<1>5. CASE CommitArray \/ CommitArrayShort
  BY <1>1, <1>2, <1>5, CommitReturnsZeroOK DEF CommitArray, CommitArrayShort, IInv
<1> QED  BY <1>3, <1>4, <1>5

LEMMA MachineStepsIInv ==
  ASSUME IInv, AfterDoubleFree \/ ProcessAborts \/ Crash \/ Reboot
  PROVE  IInv'
<1>1. DiskOK /\ CallOK /\ missed' \subseteq Parts /\ faults' \in 0..MaxFaults
  BY FaultType DEF IInv, Answer, AfterDoubleFree, ProcessAborts, Crash, Reboot
<1>2. DiskOK'
  BY <1>1, DiskSame, WrittenType DEF DiskOK, AfterDoubleFree, ProcessAborts, Crash, Reboot
<1>3. CASE AfterDoubleFree
  BY <1>1, <1>2, <1>3, NextGroupOK DEF AfterDoubleFree, IInv, CallOK, Control
<1>4. CASE ProcessAborts \/ Crash \/ Reboot
  <2>1. Return("none", NoSlot, 0)
    BY <1>4 DEF ProcessAborts, Crash, Reboot, Answer
  <2> QED  BY <1>1, <1>2, <2>1, ReturnOK DEF IInv, Ops, NoSlot
<1> QED  BY <1>3, <1>4

LEMMA InitIInv ==
  ASSUME Init
  PROVE  IInv
<1>1. \A a \in Slots : Factory(a) \in Table
  BY DEF Factory, Table, Entry
<1>2. DiskOK
  BY <1>1 DEF Init, DiskOK
<1>3. NoCall \in Call /\ NoRet \in [name : Ops, slot : Int, rc : Int]
  BY DEF NoCall, NoRet, Call, Ops, NoSlot
<1>4. cur \in 0..(NParts + NDisks + 1) /\ faults \in 0..MaxFaults
  BY LayoutAssumption DEF Init
<1>5. CallOK
  BY <1>3, <1>4, NoHandlesType DEF Init, CallOK, Control
<1> QED  BY <1>2, <1>4, <1>5 DEF IInv, Init

LEMMA NextIInv ==
  ASSUME IInv, [Next]_vars
  PROVE  IInv'
<1>1. CASE Calls
  BY <1>1, CallsIInv
<1>2. CASE Steps
  BY <1>2, GroupStepsIInv, XblStepsIInv, LoadStepsIInv, CommitStepsIInv, MachineStepsIInv
     DEF Steps
<1>3. CASE Crash \/ Reboot
  BY <1>3, MachineStepsIInv
<1>4. CASE UNCHANGED vars
  BY <1>4 DEF vars, IInv, DiskOK, CallOK, Control
<1> QED  BY <1>1, <1>2, <1>3, <1>4 DEF Next

\* Faults are only ever added, and a call that leaves a pair out has spent one.
LEMMA FaultsGrow ==
  ASSUME IInv, [Next]_vars
  PROVE  /\ faults' \in Nat /\ faults' >= faults
         /\ faults' = 0 /\ missed = {} => missed' = {}
<1>1. faults \in Nat /\ faults \in 0..MaxFaults
  BY LayoutAssumption DEF IInv
<1>2. CASE \E slot \in Arguments : SetActiveBootSlot(slot)
  <2>1. PICK slot \in Arguments : SetActiveBootSlot(slot)
    BY <1>2
  <2>2. CASE gpt_utils_get_partition_map
    BY <1>1, <2>2, MapCounts, LayoutAssumption
  <2>3. CASE \E b : Fault(b) /\ missed' = {}
    BY <1>1, <2>3 DEF Fault, Spend
  <2> QED  BY <2>1, <2>2, <2>3 DEF SetActiveBootSlot, Answer
<1>3. CASE Calls /\ ~\E slot \in Arguments : SetActiveBootSlot(slot)
  <2>1. \E b : Fault(b) /\ missed' = {}
    BY <1>3 DEF Calls, MarkBootSuccessful, GetCurrentSlot, SetSlotAsUnbootable,
       IsSlotBootable, IsSlotMarkedSuccessful, GetSuffix, Answer
  <2> QED  BY <1>1, <2>1 DEF Fault, Spend
<1>4. CASE GroupEmpty \/ GroupAborts \/ GroupPrepared
  <2>1. /\ faults' \in 0..MaxFaults /\ faults' >= faults
        /\ faults' = faults => missed' = missed
    BY <1>4, GroupCounts
  <2> QED  BY <1>1, <2>1, LayoutAssumption
<1>5. CASE LoadSkips
  BY <1>1, <1>5 DEF LoadSkips, Fault, Spend
<1>6. CASE (Steps \/ Crash \/ Reboot)
           /\ ~(GroupEmpty \/ GroupAborts \/ GroupPrepared \/ LoadSkips)
  <2>1. (\E b : Fault(b) \/ faults' = faults) /\ (missed' = missed \/ missed' = {})
    BY <1>6 DEF Steps, SwitchXbl, SwitchXblFails, Load, LoadFails, CommitHeader,
       CommitHeaderFails, CommitArray, CommitArrayFails, CommitArrayShort, AfterDoubleFree,
       ProcessAborts, Crash, Reboot, Answer
  <2> QED  BY <1>1, <2>1 DEF Fault, Spend
<1>7. CASE UNCHANGED vars
  BY <1>1, <1>7 DEF vars
<1> QED  BY <1>2, <1>3, <1>4, <1>5, <1>6, <1>7 DEF Next

\* In every reachable state the variables have their types and the program
\* counter agrees with the call, its cursor and its handles.
THEOREM InductiveInvariant == Spec => []IInv
<1>1. Init => IInv
  BY InitIInv
<1>2. IInv /\ [Next]_vars => IInv'
  BY NextIInv
<1> QED  BY <1>1, <1>2, PTL DEF Spec

\* The HAL keeps every variable within its type.
THEOREM TypeCorrect == Spec => []TypeOK
  BY InductiveInvariant, IInvTypeOK, PTL
=============================================================================
