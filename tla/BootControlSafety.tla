------------------------- MODULE BootControlSafety -------------------------
(***************************************************************************)
(* Safety of BootControl, for every layout and every number of faults, on  *)
(* top of the control invariant of BootControlProofs.                      *)
(***************************************************************************)
EXTENDS BootControlProofs, FiniteSetTheorems

-----------------------------------------------------------------------------
(* The swap of the type GUIDs and the update of the active bits. *)

\* Every active entry of a table carries the bootable GUID.
GuidTable(tab) == \A e \in Present : tab[e].active => tab[e].guid = "img"
GuidHandles == \A x \in {"A", "B"} : GuidTable(h[x].mem)

LEMMA ActiveGuidParts == ActiveGuid <=> GuidTable(arr) /\ GuidHandles
  BY DEF ActiveGuid, GuidTable, GuidHandles

LEMMA OverwriteGuid ==
  ASSUME NEW tab, NEW new, NEW W, GuidTable(tab), GuidTable(new)
  PROVE  GuidTable(Overwrite(tab, new, W))
  BY DEF GuidTable, Overwrite

LEMMA NoHandlesGuid == \A x \in {"A", "B"} : GuidTable(NoHandles[x].mem)
  BY DEF GuidTable, NoHandles, gpt_disk_alloc, Zeroed

LEMMA FreeGuid ==
  ASSUME NEW hd
  PROVE  GuidTable(gpt_disk_free(hd).mem)
  BY DEF GuidTable, gpt_disk_free, gpt_disk_alloc, Zeroed

\* A group that has an active copy of every partition hands the bootable GUID
\* to the slot it switches to.
LEMMA SwitchedGuid ==
  ASSUME DiskOK, GuidTable(arr), NEW G \in SUBSET Switchable, NEW s \in Slots,
         NEW unread, ~BothInactive(G, unread)
  PROVE  GuidTable(Switched(G, s, unread))
<1> SUFFICES ASSUME NEW e \in Present, Switched(G, s, unread)[e].active
             PROVE  Switched(G, s, unread)[e].guid = "img"
  BY DEF GuidTable
<1>1. CASE e[1] \in G /\ e[2] = s /\ s = op.slot
  <2>1. Switched(G, s, unread)[e] = UpdateSlot(e, ActiveGuidOf(e[1], unread), TRUE)
    BY <1>1 DEF Switched
  <2>2. <<e[1], 0>> \in Present /\ <<e[1], 1>> \in Present
    BY <1>1, SwitchableFacts DEF Slots
  <2>3. AActive(e[1], unread) \/ arr[<<e[1], 1>>].active
    BY <1>1 DEF BothInactive
  <2>4. ActiveGuidOf(e[1], unread) = "img"
    BY <2>2, <2>3 DEF ActiveGuidOf, AActive, GuidTable
  <2> QED  BY <2>1, <2>4 DEF UpdateSlot
<1>2. CASE e[1] \in G /\ e[2] = s /\ s # op.slot
  <2>1. Switched(G, s, unread)[e] = UpdateSlot(e, InactiveGuidOf(e[1], unread), FALSE)
    BY <1>2 DEF Switched
  <2>2. arr[e] \in Entry
    BY DEF DiskOK, Table
  <2>3. ~Switched(G, s, unread)[e].active
    BY <2>1, <2>2 DEF UpdateSlot, Entry
  <2> QED  BY <2>3
<1>3. CASE ~(e[1] \in G /\ e[2] = s)
  <2>1. Switched(G, s, unread)[e] = arr[e]
    BY <1>3 DEF Switched
  <2> QED  BY <2>1 DEF GuidTable
<1> QED  BY <1>1, <1>2, <1>3

\* What a call does next never puts a new table into a handle.
LEMMA ContinueGuid ==
  ASSUME GuidHandles,
         \/ NextGroup \/ NextPartition \/ CommitReturnsZero \/ CommitReturnsError
         \/ \E name, slot, rc : Return(name, slot, rc) \/ Start(name, slot, "group")
                                \/ Start(name, slot, "load"),
         CallOK
  PROVE  GuidHandles'
<1> DEFINE Same == h' = h
           None == h' = NoHandles
<1>1. CASE Same \/ None
  BY <1>1, NoHandlesGuid DEF GuidHandles, GuidTable
<1>2. NextGroup \/ NextPartition => None
  BY DEF NextGroup, NextPartition, Return
<1>3. ASSUME NEW name, NEW slot, NEW rc PROVE Return(name, slot, rc) => None
  BY DEF Return
<1>4. ASSUME NEW name, NEW slot, NEW where PROVE Start(name, slot, where) => Same
  BY DEF Start
<1>5. CASE CommitReturnsZero /\ ~None
  <2>1. h' = [h EXCEPT !["A"] = gpt_disk_free(h["A"])]
    BY <1>2, <1>5 DEF CommitReturnsZero
  <2>2. h'["A"] = gpt_disk_free(h["A"]) /\ h'["B"] = h["B"]
    BY <2>1 DEF CallOK
  <2> QED  BY <2>2, FreeGuid DEF GuidHandles, GuidTable
<1>6. CASE CommitReturnsError /\ ~None
  <2>1. h' = [x \in {"A", "B"} |-> gpt_disk_free(h[x])]
    BY <1>2, <1>3, <1>6 DEF CommitReturnsError
  <2>2. \A x \in {"A", "B"} : h'[x] = gpt_disk_free(h[x])
    BY <2>1
  <2> QED  BY <2>2, FreeGuid DEF GuidHandles, GuidTable
<1> QED  BY <1>1, <1>2, <1>3, <1>4, <1>5, <1>6

LEMMA WrittenGuid ==
  ASSUME GuidTable(arr), GuidHandles, CallOK
  PROVE  \A W : GuidTable(ArrayWritten(W))
<1>1. GuidTable(h[side].mem)
  BY DEF GuidHandles, CallOK
<1> QED  BY <1>1, OverwriteGuid DEF ArrayWritten

LEMMA GuidUnchanged ==
  ASSUME GuidTable(arr), arr' = arr
  PROVE  GuidTable(arr)'
  BY DEF GuidTable

LEMMA NextActiveGuid ==
  ASSUME IInv, ActiveGuid, [Next]_vars
  PROVE  ActiveGuid'
<1>1. DiskOK /\ CallOK /\ GuidTable(arr) /\ GuidHandles
  BY ActiveGuidParts DEF IInv
<1>2. CASE Calls
  <2>1. arr' = arr
    BY <1>2 DEF Calls, MarkBootSuccessful, GetCurrentSlot, SetActiveBootSlot,
       SetSlotAsUnbootable, IsSlotBootable, IsSlotMarkedSuccessful, GetSuffix, disk
  <2>2. \E name, slot, rc : Return(name, slot, rc) \/ Start(name, slot, "group")
                            \/ Start(name, slot, "load")
    BY <1>2 DEF Calls, MarkBootSuccessful, GetCurrentSlot, SetActiveBootSlot,
       SetSlotAsUnbootable, IsSlotBootable, IsSlotMarkedSuccessful, GetSuffix, Answer
  <2> QED  BY <1>1, <2>1, <2>2, GuidUnchanged, ContinueGuid, ActiveGuidParts
              DEF ActiveGuid, GuidTable, GuidHandles
<1>3. CASE GroupPrepared
  <2>1. arr' = arr
    BY <1>3 DEF GroupPrepared, disk
  <2>2. PICK G \in SUBSET Group(cur), unread \in SUBSET Group(cur) :
          /\ ~BothInactive(G, unread)
          /\ h' = [A |-> gpt_disk_get_disk_info(DiskA(G), Switched(G, 0, unread)),
                   B |-> gpt_disk_get_disk_info(DiskB(G), Switched(G, 1, unread))]
    BY <1>3, PreparedHandles
  <2>3. G \in SUBSET Switchable
    BY GroupFacts
  <2>4. GuidTable(Switched(G, 0, unread)) /\ GuidTable(Switched(G, 1, unread))
    BY <1>1, <2>2, <2>3, SwitchedGuid DEF Slots
  <2>5. h'["A"].mem = Switched(G, 0, unread) /\ h'["B"].mem = Switched(G, 1, unread)
    BY <2>2 DEF gpt_disk_get_disk_info
  <2> QED  BY <1>1, <2>1, <2>4, <2>5 DEF ActiveGuid, GuidTable
<1>4. CASE Load
  <2> DEFINE e == <<cur, op.slot>>
             mem == [arr EXCEPT ![e] = [arr[e] EXCEPT ![AttrBit] = TRUE]]
  <2>1. cur \in Parts /\ op.slot \in Slots /\ e \in Present /\ arr' = arr
    BY <1>1, <1>4 DEF Load, CallOK, Control, Paired, Slots, disk
  <2>2. h' = [NoHandles EXCEPT !["A"] = gpt_disk_get_disk_info(DiskOf[e], mem)]
    BY <1>4 DEF Load
  <2>3. h'["A"].mem = mem /\ h'["B"].mem = NoHandles["B"].mem
    BY <2>2 DEF gpt_disk_get_disk_info, NoHandles
  <2>4. arr[e] \in Entry
    BY <1>1, <2>1 DEF DiskOK, Table
  <2>5. mem[e].active = arr[e].active /\ mem[e].guid = arr[e].guid
    BY <1>1, <2>1, <2>4 DEF AttrBit, Entry, DiskOK, Table
  <2>6. \A f \in Present \ {e} : mem[f] = arr[f]
    BY <1>1 DEF DiskOK, Table
  <2>7. GuidTable(mem)
    BY <1>1, <2>1, <2>5, <2>6 DEF GuidTable
  <2> HIDE DEF mem
  <2> QED  BY <1>1, <2>1, <2>3, <2>7, NoHandlesGuid DEF ActiveGuid, GuidTable
<1>5. CASE CommitHeader \/ UNCHANGED vars
  BY <1>5 DEF CommitHeader, call, vars, ActiveGuid
<1>6. CASE CommitHeaderFails \/ GroupEmpty \/ GroupAborts \/ SwitchXbl \/ SwitchXblFails
           \/ LoadSkips \/ LoadFails \/ AfterDoubleFree \/ ProcessAborts \/ Reboot
  <2>1. arr' = arr
    BY <1>6 DEF CommitHeaderFails, GroupEmpty, GroupAborts, SwitchXbl, SwitchXblFails,
       LoadSkips, LoadFails, AfterDoubleFree, ProcessAborts, Reboot, disk
  <2>2. GuidHandles'
    BY <1>1, <1>6, ContinueGuid DEF CommitHeaderFails, GroupEmpty, GroupAborts, SwitchXbl,
       SwitchXblFails, LoadSkips, LoadFails, AfterDoubleFree, ProcessAborts, Reboot, Answer
  <2> QED  BY <1>1, <2>1, <2>2 DEF ActiveGuid, GuidTable, GuidHandles
<1>7. CASE CommitArray \/ CommitArrayFails \/ CommitArrayShort \/ Crash
  <2>1. PICK W : arr' = ArrayWritten(W)
    BY <1>7 DEF CommitArray, CommitArrayFails, CommitArrayShort, Crash
  <2>2. GuidTable(arr')
    BY <1>1, <2>1, WrittenGuid
  <2>3. GuidHandles'
    BY <1>1, <1>7, ContinueGuid DEF CommitArray, CommitArrayFails, CommitArrayShort, Crash,
       Answer
  <2> QED  BY <2>2, <2>3 DEF ActiveGuid, GuidTable, GuidHandles
<1> QED  BY <1>2, <1>3, <1>4, <1>5, <1>6, <1>7 DEF Next, Steps

\* An entry with the active bit always carries the bootable type GUID, whatever
\* call is cut at whatever write: UPDATE_SLOT and the GUID swap of
\* boot_ctl_set_active_slot_for_partitions never come apart.
THEOREM ActiveGuidHolds == Spec => []ActiveGuid
<1>1. Init => ActiveGuid
  <2> SUFFICES ASSUME Init PROVE GuidTable(arr) /\ GuidHandles
    BY ActiveGuidParts
  <2>1. PICK a \in Slots : arr = Factory(a)
    BY DEF Init
  <2>2. GuidTable(arr)
    BY <2>1 DEF GuidTable, Factory
  <2>3. h = NoHandles
    BY DEF Init
  <2> QED  BY <2>2, <2>3, NoHandlesGuid DEF GuidHandles
<1>2. IInv /\ ActiveGuid /\ [Next]_vars => ActiveGuid'
  BY NextActiveGuid
<1> QED  BY <1>1, <1>2, InductiveInvariant, PTL DEF Spec

-----------------------------------------------------------------------------
(* The two writes of a commit. *)

\* Between them the header on disk is the one of the handle.
Halfway == pc = "arr" => \A e \in Written : crc[e] = h[side].mem[e]

LEMMA NextHalfway ==
  ASSUME IInv, Halfway, [Next]_vars
  PROVE  Halfway'
<1>1. CASE CommitHeader
  <2>1. crc' = HeaderWritten /\ h' = h /\ side' = side
    BY <1>1 DEF CommitHeader, call
  <2> QED  BY <2>1 DEF Halfway, Written, HeaderWritten, Overwrite, OnDisk
<1>2. CASE UNCHANGED vars
  BY <1>2 DEF vars, Halfway, Written, OnDisk
<1>3. CASE Next /\ ~CommitHeader
  <2>1. pc' # "arr"
    BY <1>3 DEF Next, Calls, Steps, MarkBootSuccessful, GetCurrentSlot, SetActiveBootSlot,
       SetSlotAsUnbootable, IsSlotBootable, IsSlotMarkedSuccessful, GetSuffix, Start, Return, Answer,
       GroupEmpty, GroupAborts, GroupPrepared, NextGroup, NextPartition, SwitchXbl,
       SwitchXblFails, LoadSkips, Load, LoadFails, CommitHeaderFails, CommitArray,
       CommitArrayFails, CommitArrayShort, CommitReturnsZero, CommitReturnsError,
       AfterDoubleFree, ProcessAborts, Crash, Reboot
  <2> QED  BY <2>1 DEF Halfway
<1> QED  BY <1>1, <1>2, <1>3

FaultyStep ==
    LoadFails \/ CommitHeaderFails \/ CommitArrayFails \/ CommitArrayShort \/ Crash

LEMMA QuietCalls ==
  ASSUME Calls
  PROVE  UNCHANGED disk /\ pc = "idle"
  BY DEF Calls, MarkBootSuccessful, GetCurrentSlot, SetActiveBootSlot, SetSlotAsUnbootable,
     IsSlotBootable, IsSlotMarkedSuccessful, GetSuffix

LEMMA ZeroFaults ==
  ASSUME IInv, [Next]_vars, faults' = 0
  PROVE  faults = 0 /\ (Next => ~FaultyStep)
<1>1. faults \in Nat
  BY LayoutAssumption DEF IInv
<1>2. faults = 0
  BY <1>1, FaultsGrow
<1>3. ~FaultyStep
  BY <1>1 DEF Fault, Spend, FaultyStep, LoadFails, CommitHeaderFails, CommitArrayFails,
     CommitArrayShort, Crash
<1> QED  BY <1>2, <1>3

\* A step without a fault that is not a commit's write leaves the tables alone.
LEMMA NextWindow ==
  ASSUME IInv, Halfway, InvalidOnlyInWindow, [Next]_vars
  PROVE  InvalidOnlyInWindow'
<1> SUFFICES ASSUME faults' = 0, NEW d \in Disks, ~TableValid(d)'
             PROVE  pc' = "arr" /\ h'[side'].disk = d
  BY DEF InvalidOnlyInWindow
<1>1. faults = 0 /\ (Next => ~FaultyStep)
  BY ZeroFaults
<1>2. PICK e \in OnDisk(d) : crc'[e] # arr'[e]
  BY DEF TableValid, OnDisk
<1>3. CASE CommitHeader
  <2>1. crc' = HeaderWritten /\ arr' = arr /\ h' = h /\ side' = side /\ pc' = "arr"
        /\ pc = "hdr"
    BY <1>3 DEF CommitHeader, call
  <2>2. TableValid(d)
    BY <1>1, <2>1 DEF InvalidOnlyInWindow
  <2>3. crc[e] = arr[e]
    BY <1>2, <2>2 DEF TableValid
  <2>4. e \in Written
    BY <1>2, <2>1, <2>3 DEF HeaderWritten, Overwrite, OnDisk
  <2> QED  BY <1>2, <2>1, <2>4 DEF Written, OnDisk
<1>4. CASE CommitArray
  <2>1. arr' = ArrayWritten(Written) /\ crc' = crc /\ pc = "arr"
    BY <1>4 DEF CommitArray
  <2>2. e \in Present
    BY <1>2 DEF OnDisk
  <2>3. e \notin Written
    BY <1>2, <2>1, <2>2 DEF Halfway, ArrayWritten, Overwrite
  <2>4. arr'[e] = arr[e]
    BY <2>1, <2>2, <2>3 DEF ArrayWritten, Overwrite
  <2>5. ~TableValid(d)
    BY <1>2, <2>1, <2>4 DEF TableValid
  <2>6. h[side].disk = d
    BY <1>1, <2>5 DEF InvalidOnlyInWindow
  <2> QED  BY <1>2, <2>3, <2>6 DEF Written
<1>5. CASE ~CommitHeader /\ ~CommitArray
  <2>1. arr' = arr /\ crc' = crc /\ (pc = "arr" => UNCHANGED vars)
    <3>1. CASE Calls
      BY <3>1, QuietCalls DEF disk
    <3>2. CASE Steps \/ Crash \/ Reboot
      BY <1>1, <1>5, <3>2 DEF Next, Steps, FaultyStep, GroupEmpty, GroupAborts, GroupPrepared,
         SwitchXbl, SwitchXblFails, LoadSkips, Load, AfterDoubleFree, ProcessAborts, Reboot,
         disk
    <3> QED  BY <3>1, <3>2 DEF Next, vars
  <2>2. ~TableValid(d)
    BY <1>2, <2>1 DEF TableValid
  <2>3. pc = "arr" /\ h[side].disk = d
    BY <1>1, <2>2 DEF InvalidOnlyInWindow
  <2> QED  BY <2>1, <2>3 DEF vars
<1> QED  BY <1>3, <1>4, <1>5

\* As long as nothing failed, the only primary table that can be invalid is the
\* one that the running gpt_disk_commit is between its two writes of.
THEOREM InvalidOnlyInWindowHolds == Spec => []InvalidOnlyInWindow
<1>1. Init => Halfway /\ InvalidOnlyInWindow
  BY DEF Init, Halfway, InvalidOnlyInWindow, TableValid, OnDisk
<1>2. IInv /\ Halfway /\ InvalidOnlyInWindow /\ [Next]_vars
        => (Halfway /\ InvalidOnlyInWindow)'
  BY NextHalfway, NextWindow
<1> QED  BY <1>1, <1>2, InductiveInvariant, PTL DEF Spec

-----------------------------------------------------------------------------
(* How many tables the faults have broken. *)

\* A step of a call that is not a write, and that needs no fault of its own.
LEMMA QuietStep ==
  ASSUME IInv, [Next]_vars, ~CommitHeader, ~CommitArray, ~(Next /\ FaultyStep)
  PROVE  /\ arr' = arr /\ crc' = crc
         /\ pc = "arr" => UNCHANGED vars
         /\ faults' \in Nat /\ faults' >= faults
<1>1. faults' \in Nat /\ faults' >= faults
  BY FaultsGrow
<1>2. CASE Calls
  BY <1>1, <1>2, QuietCalls DEF disk
<1>3. CASE Steps \/ Crash \/ Reboot
  BY <1>1, <1>3 DEF Next, Steps, FaultyStep, GroupEmpty, GroupAborts, GroupPrepared,
     SwitchXbl, SwitchXblFails, LoadSkips, Load, AfterDoubleFree, ProcessAborts, Reboot, disk
<1>4. CASE UNCHANGED vars
  BY <1>1, <1>4 DEF vars
<1> QED  BY <1>2, <1>3, <1>4 DEF Next

\* A step that spends a fault touches one table at most, that of the handle at
\* work, and leaves no commit half way.
LEMMA FaultyStepTouches ==
  ASSUME IInv, FaultyStep
  PROVE  /\ \A d \in Disks : d # h[side].disk /\ TableValid(d) => TableValid(d)'
         /\ pc \notin {"hdr", "arr"} => UNCHANGED <<arr, crc>>
         /\ faults' = faults + 1
         /\ pc' # "arr"
<1>1. faults' = faults + 1
  BY DEF FaultyStep, LoadFails, CommitHeaderFails, CommitArrayFails, CommitArrayShort, Crash,
     Fault, Spend
<1>2. pc' # "arr"
  BY DEF FaultyStep, LoadFails, CommitHeaderFails, CommitArrayFails, CommitArrayShort, Crash,
     Return, Answer, CommitReturnsError, CommitReturnsZero, NextGroup, NextPartition
<1>3. /\ crc' = crc \/ (crc' = HeaderWritten /\ pc = "hdr")
      /\ arr' = arr \/ \E W \in SUBSET Written : arr' = ArrayWritten(W) /\ pc = "arr"
  <2>1. CASE LoadFails \/ CommitHeaderFails \/ CommitArrayFails \/ CommitArrayShort
    BY <2>1 DEF LoadFails, CommitHeaderFails, CommitArrayFails, CommitArrayShort, disk
  <2>2. CASE Crash /\ pc = "arr"
    BY <2>2 DEF Crash
  <2>3. CASE Crash /\ pc # "arr"
    <3>1. arr' = ArrayWritten({}) /\ arr = [e \in Present |-> arr[e]]
      BY <2>3 DEF Crash, IInv, DiskOK, Table
    <3>2. arr' = arr
      BY <3>1 DEF ArrayWritten, Overwrite
    <3> QED  BY <2>3, <3>2 DEF Crash
  <2> QED  BY <2>1, <2>2, <2>3 DEF FaultyStep
<1>4. ASSUME NEW d \in Disks, d # h[side].disk, TableValid(d)
      PROVE  TableValid(d)'
  <2> SUFFICES ASSUME NEW e \in OnDisk(d) PROVE crc'[e] = arr'[e]
    BY DEF TableValid, OnDisk
  <2>1. e \in Present /\ e \notin Written /\ crc[e] = arr[e]
    BY <1>4 DEF OnDisk, Written, TableValid
  <2> QED  BY <1>3, <2>1 DEF HeaderWritten, ArrayWritten, Overwrite
<1> QED  BY <1>1, <1>2, <1>3, <1>4

\* The finite-set facts of the count: a set of disks that gains one disk at most.
LEMMA OneMoreDisk ==
  ASSUME NEW S \in SUBSET Disks, NEW T \in SUBSET Disks, NEW d, T \subseteq S \cup {d}
  PROVE  /\ Cardinality(S) \in Nat /\ Cardinality(T) \in Nat
         /\ Cardinality(T) =< Cardinality(S) + 1
         /\ T \subseteq S => Cardinality(T) =< Cardinality(S)
<1>1. IsFiniteSet(Disks)
  BY LayoutAssumption, FS_Interval DEF Disks
<1>2. IsFiniteSet(S) /\ IsFiniteSet(T)
  BY <1>1, FS_Subset
<1>3. /\ IsFiniteSet(S \cup {d})
      /\ Cardinality(S \cup {d}) = IF d \in S THEN Cardinality(S) ELSE Cardinality(S) + 1
  BY <1>2, FS_AddElement
<1>4. Cardinality(T) =< Cardinality(S \cup {d})
  BY <1>3, FS_Subset
<1>5. T \subseteq S => Cardinality(T) =< Cardinality(S)
  BY <1>2, FS_Subset
<1>6. Cardinality(S) \in Nat /\ Cardinality(T) \in Nat /\ Cardinality(S \cup {d}) \in Nat
  BY <1>2, <1>3, FS_CardinalityType
<1> QED  BY <1>3, <1>4, <1>5, <1>6

\* Without a fault no table joins the broken ones; a fault adds one at most.
LEMMA NextBroken ==
  ASSUME IInv, Halfway, [Next]_vars
  PROVE  \/ Broken' \subseteq Broken /\ faults' \in Nat /\ faults' >= faults
         \/ Broken' \subseteq Broken \cup {h[side].disk} /\ faults' = faults + 1
<1>1. faults \in Nat
  BY LayoutAssumption DEF IInv
<1>2. CASE CommitHeader
  <2>1. /\ crc' = HeaderWritten /\ arr' = arr /\ h' = h /\ side' = side /\ faults' = faults
        /\ pc = "hdr" /\ pc' = "arr"
    BY <1>2 DEF CommitHeader, call
  <2>2. ASSUME NEW d \in Disks, d # h[side].disk, TableValid(d)
        PROVE  TableValid(d)'
    <3> SUFFICES ASSUME NEW e \in OnDisk(d) PROVE crc'[e] = arr'[e]
      BY DEF TableValid, OnDisk
    <3>1. e \in Present /\ e \notin Written /\ crc[e] = arr[e]
      BY <2>2 DEF OnDisk, Written, TableValid
    <3> QED  BY <2>1, <3>1 DEF HeaderWritten, Overwrite
  <2>3. Broken' \subseteq Broken
    BY <2>1, <2>2 DEF Broken
  <2> QED  BY <1>1, <2>1, <2>3
<1>3. CASE CommitArray
  <2>1. arr' = ArrayWritten(Written) /\ crc' = crc /\ pc = "arr" /\ faults' = faults
    BY <1>3 DEF CommitArray
  <2>2. ASSUME NEW d \in Disks, d = h[side].disk \/ TableValid(d)
        PROVE  TableValid(d)'
    <3> SUFFICES ASSUME NEW e \in OnDisk(d) PROVE crc'[e] = arr'[e]
      BY DEF TableValid, OnDisk
    <3>1. CASE e \in Written
      <4>1. arr'[e] = h[side].mem[e] /\ crc[e] = h[side].mem[e]
        BY <2>1, <3>1 DEF Halfway, ArrayWritten, Overwrite, OnDisk
      <4> QED  BY <2>1, <4>1
    <3>2. CASE e \notin Written
      <4>1. arr'[e] = arr[e] /\ TableValid(d)
        BY <2>1, <2>2, <3>2 DEF ArrayWritten, Overwrite, OnDisk, Written
      <4> QED  BY <2>1, <4>1 DEF TableValid
    <3> QED  BY <3>1, <3>2
  <2>3. Broken' \subseteq Broken
    BY <2>1, <2>2 DEF Broken
  <2> QED  BY <1>1, <2>1, <2>3
<1>4. CASE Next /\ FaultyStep
  <2>1. /\ \A d \in Disks : d # h[side].disk /\ TableValid(d) => TableValid(d)'
        /\ faults' = faults + 1
    BY <1>4, FaultyStepTouches
  <2>2. Broken' \subseteq Broken \cup {h[side].disk}
    BY <2>1 DEF Broken
  <2> QED  BY <2>1, <2>2
<1>5. CASE ~CommitHeader /\ ~CommitArray /\ ~(Next /\ FaultyStep)
  <2>1. /\ arr' = arr /\ crc' = crc
        /\ pc = "arr" => UNCHANGED vars
        /\ faults' \in Nat /\ faults' >= faults
    BY <1>5, QuietStep
  <2>2. \A d \in Disks : TableValid(d)' <=> TableValid(d)
    BY <2>1 DEF TableValid
  <2>3. Broken' \subseteq Broken
    BY <2>1, <2>2 DEF Broken, vars
  <2> QED  BY <2>1, <2>3
<1> QED  BY <1>2, <1>3, <1>4, <1>5

\* Each fault breaks the primary table of one disk at most, whatever call it hits
\* and however many tables are broken by then: gpt_disk_commit of a handle that
\* was loaded from a broken table leaves a valid one.
THEOREM OneTablePerFaultHolds == Spec => []OneTablePerFault
<1>1. Init => Halfway /\ OneTablePerFault
  <2> SUFFICES ASSUME Init PROVE OneTablePerFault
    BY DEF Init, Halfway
  <2>1. Broken = {}
    BY DEF Init, Broken, TableValid, OnDisk
  <2> QED  BY <2>1, FS_EmptySet DEF Init, OneTablePerFault
<1>2. IInv /\ Halfway /\ OneTablePerFault /\ [Next]_vars => OneTablePerFault'
  <2> SUFFICES ASSUME IInv, Halfway, OneTablePerFault, [Next]_vars
               PROVE  Cardinality(Broken') =< faults'
    BY DEF OneTablePerFault
  <2>1. faults \in Nat /\ Cardinality(Broken) =< faults
    BY LayoutAssumption DEF IInv, OneTablePerFault
  <2>2. Broken \in SUBSET Disks /\ Broken' \in SUBSET Disks
    BY DEF Broken
  <2>3. CASE Broken' \subseteq Broken /\ faults' \in Nat /\ faults' >= faults
    <3>1. /\ Cardinality(Broken) \in Nat /\ Cardinality(Broken') \in Nat
          /\ Cardinality(Broken') =< Cardinality(Broken)
      BY <2>2, <2>3, OneMoreDisk
    <3> QED  BY <2>1, <2>3, <3>1
  <2>4. CASE Broken' \subseteq Broken \cup {h[side].disk} /\ faults' = faults + 1
    <3>1. /\ Cardinality(Broken) \in Nat /\ Cardinality(Broken') \in Nat
          /\ Cardinality(Broken') =< Cardinality(Broken) + 1
      BY <2>2, <2>4, OneMoreDisk
    <3> QED  BY <2>1, <2>4, <3>1
  <2> QED  BY <2>3, <2>4, NextBroken
<1>3. IInv /\ Halfway /\ [Next]_vars => Halfway'
  BY NextHalfway
<1> QED  BY <1>1, <1>2, <1>3, InductiveInvariant, PTL DEF Spec

-----------------------------------------------------------------------------
(* The loop of update_slot_attribute. *)

\* Every pair up to partition n that was found has the bit, in a valid table.
MarkedTo(n, s, bit) ==
    \A p \in Parts \ missed : p <= n /\ Paired(p) =>
        arr[<<p, s>>][bit] /\ TableValid(DiskOf[<<p, s>>])

\* The handle being committed keeps what the loop did and adds the bit of cur;
\* between the two writes only its own table is not valid.
Loop ==
    /\ ret.name \in Updates => pc = "idle"
    /\ op.name \in Updates =>
         /\ pc \in {"load", "hdr"} => MarkedTo(cur - 1, op.slot, AttrBit)
         /\ pc \in {"hdr", "arr"} => \A p \in Parts \ missed : p <= cur /\ Paired(p) =>
              /\ h[side].mem[<<p, op.slot>>][AttrBit]
              /\ p = cur => DiskOf[<<p, op.slot>>] = h[side].disk
         /\ pc = "arr" => \A p \in Parts \ missed : p < cur /\ Paired(p) =>
              /\ arr[<<p, op.slot>>][AttrBit]
              /\ DiskOf[<<p, op.slot>>] # h[side].disk =>
                   TableValid(DiskOf[<<p, op.slot>>])

LoopInv == IInv /\ Halfway /\ Loop /\ MarkDurable

\* A call that returns anything but a 0 of an update, or starts, owes nothing.
LEMMA OtherReturn ==
  ASSUME NEW name, NEW slot, NEW rc, Return(name, slot, rc),
         name \notin Updates \/ rc # 0
  PROVE  (Loop /\ MarkDurable)'
  BY DEF Return, Loop, NoCall, Updates, MarkDurable

LEMMA StartLoop ==
  ASSUME NEW name, NEW slot, NEW where, Start(name, slot, where), where # "hdr", where # "arr"
  PROVE  (Loop /\ MarkDurable)'
<1>1. ret'.name \notin Updates /\ cur' = 1 /\ pc' # "hdr" /\ pc' # "arr"
  BY DEF Start, NoRet, Updates
<1> QED  BY <1>1 DEF Loop, MarkedTo, Parts, Updates, MarkDurable

LEMMA SwitchStep ==
  ASSUME Loop, op' = op, ret' = ret, op.name = "set_active", pc # "idle"
  PROVE  (Loop /\ MarkDurable)'
  BY DEF Loop, Updates, MarkDurable

LEMMA NextPartitionLoop ==
  ASSUME LoopInv, op.name \in Updates, pc \in {"load", "arr"}, NextPartition,
         \A p \in Parts \ missed' : p <= cur /\ Paired(p) =>
            /\ arr'[<<p, op.slot>>][AttrBit]
            /\ \A e \in OnDisk(DiskOf[<<p, op.slot>>]) : crc'[e] = arr'[e]
  PROVE  (Loop /\ MarkDurable)'
<1>1. cur \in Parts /\ op.slot \in Slots
  BY DEF LoopInv, IInv, CallOK, Control, Updates
<1>2. CASE cur = NParts
  <2>1. pc' = "idle" /\ op' = NoCall
        /\ ret' = [name |-> op.name, slot |-> op.slot, rc |-> 0]
    BY <1>2 DEF NextPartition, Return
  <2>2. Loop'
    BY <2>1 DEF Loop, NoCall, Updates
  <2>3. \A p \in Parts : p <= cur
    BY <1>2, LayoutAssumption DEF Parts
  <2>4. AttrBit = IF ret'.name = "mark_successful" THEN "succ" ELSE "unb"
    BY <2>1 DEF AttrBit
  <2>5. ret'.slot = op.slot
    BY <2>1
  <2>6. \A p \in Parts \ missed' : Paired(p) =>
          /\ arr'[<<p, ret'.slot>>][IF ret'.name = "mark_successful" THEN "succ" ELSE "unb"]
          /\ TableValid(DiskOf[<<p, ret.slot>>])'
    BY <2>3, <2>4, <2>5 DEF TableValid, OnDisk
  <2> QED  BY <2>2, <2>6 DEF MarkDurable, Paired
<1>3. CASE cur # NParts
  <2>1. pc' = "load" /\ cur' = cur + 1 /\ op' = op /\ ret' = ret
    BY <1>3 DEF NextPartition
  <2>2. cur' - 1 = cur
    BY <1>1, <2>1 DEF Parts
  <2>3. ret'.name \notin Updates
    BY <2>1 DEF LoopInv, Loop
  <2>4. AttrBit' = AttrBit
    BY <2>1 DEF AttrBit
  <2>5. \A p \in Parts \ missed' : p <= cur' - 1 /\ Paired(p) =>
          arr'[<<p, op'.slot>>][AttrBit'] /\ TableValid(DiskOf[<<p, op.slot>>])'
    BY <2>1, <2>2, <2>4 DEF TableValid, OnDisk
  <2>6. Loop'
    BY <2>1, <2>3, <2>5 DEF Loop, MarkedTo, Paired
  <2> QED  BY <2>3, <2>6 DEF MarkDurable, Updates
<1> QED  BY <1>2, <1>3

LEMMA LoadSkipsLoop ==
  ASSUME LoopInv, LoadSkips
  PROVE  (Loop /\ MarkDurable)'
<1>1. op.name \in Updates /\ cur \in Parts
  BY DEF LoopInv, IInv, CallOK, Control, LoadSkips
<1>2. MarkedTo(cur - 1, op.slot, AttrBit) /\ arr' = arr /\ crc' = crc
  BY <1>1 DEF LoopInv, Loop, LoadSkips, disk
<1>3. \A p \in Parts \ missed' : p <= cur /\ Paired(p) => p <= cur - 1 /\ p \notin missed
  BY <1>1 DEF LoadSkips, Parts
<1> QED  BY <1>1, <1>2, <1>3, NextPartitionLoop DEF LoadSkips, MarkedTo, TableValid

LEMMA LoadLoop ==
  ASSUME LoopInv, Load
  PROVE  (Loop /\ MarkDurable)'
<1> DEFINE e == <<cur, op.slot>>
           mem == [arr EXCEPT ![e] = [arr[e] EXCEPT ![AttrBit] = TRUE]]
<1>1. op.name \in Updates /\ cur \in Parts /\ op.slot \in Slots /\ arr \in Table
      /\ side = "A" /\ e \in Present
  BY DEF LoopInv, IInv, DiskOK, CallOK, Control, Load, Paired, Slots
<1>2. op' = op /\ ret' = ret /\ cur' = cur /\ side' = "A" /\ pc' = "hdr"
      /\ arr' = arr /\ crc' = crc /\ missed' = missed /\ ret.name \notin Updates
  BY <1>1 DEF Load, disk, LoopInv, Loop
<1>3. h' = [NoHandles EXCEPT !["A"] = gpt_disk_get_disk_info(DiskOf[e], mem)]
  BY DEF Load
<1>4. h'["A"].mem = mem /\ h'["A"].disk = DiskOf[e]
  BY <1>3 DEF gpt_disk_get_disk_info, NoHandles
<1>5. MarkedTo(cur - 1, op.slot, AttrBit)
  BY <1>1 DEF LoopInv, Loop, Load
<1>6. arr[e] \in Entry /\ AttrBit \in {"succ", "unb"}
  BY <1>1 DEF Table, AttrBit
<1>7. mem[e][AttrBit] /\ \A f \in Present \ {e} : mem[f] = arr[f]
  BY <1>1, <1>6 DEF Table, Entry
<1> HIDE DEF mem
<1>8. ASSUME NEW p \in Parts \ missed, p <= cur, Paired(p)
      PROVE  mem[<<p, op.slot>>][AttrBit]
  <2>1. CASE p = cur
    BY <1>7, <2>1
  <2>2. CASE p # cur
    <3>1. p <= cur - 1 /\ <<p, op.slot>> \in Present \ {e}
      BY <1>1, <1>8, <2>2 DEF Parts, Paired, Slots
    <3> QED  BY <1>5, <1>7, <1>8, <3>1 DEF MarkedTo
  <2> QED  BY <2>1, <2>2
<1>9. MarkedTo(cur - 1, op.slot, AttrBit)'
  BY <1>2, <1>5 DEF MarkedTo, TableValid, AttrBit
<1> QED  BY <1>2, <1>4, <1>8, <1>9 DEF Loop, MarkedTo, MarkDurable, Updates, AttrBit, Paired

LEMMA CommitHeaderLoop ==
  ASSUME LoopInv, CommitHeader, op.name \in Updates
  PROVE  (Loop /\ MarkDurable)'
<1>1. crc' = HeaderWritten /\ arr' = arr /\ op' = op /\ cur' = cur /\ side' = side /\ h' = h
      /\ ret' = ret /\ missed' = missed /\ pc' = "arr" /\ pc = "hdr"
      /\ ret.name \notin Updates
  BY DEF CommitHeader, call, LoopInv, Loop
<1>2. MarkedTo(cur - 1, op.slot, AttrBit) /\ cur \in Parts
  BY <1>1 DEF LoopInv, Loop, IInv, CallOK, Control, Updates
<1>3. ASSUME NEW d, d # h[side].disk, TableValid(d) PROVE TableValid(d)'
  BY <1>1, <1>3 DEF TableValid, OnDisk, HeaderWritten, Overwrite, Written
<1>4. ASSUME NEW p \in Parts \ missed, p < cur, Paired(p)
      PROVE  /\ arr[<<p, op.slot>>][AttrBit]
             /\ DiskOf[<<p, op.slot>>] # h[side].disk => TableValid(DiskOf[<<p, op.slot>>])'
  <2>1. p <= cur - 1
    BY <1>2, <1>4 DEF Parts
  <2> QED  BY <1>1, <1>2, <1>3, <1>4, <2>1 DEF MarkedTo
<1>5. \A p \in Parts \ missed : p <= cur /\ Paired(p) =>
        /\ h[side].mem[<<p, op.slot>>][AttrBit]
        /\ p = cur => DiskOf[<<p, op.slot>>] = h[side].disk
  BY <1>1 DEF LoopInv, Loop
<1>6. AttrBit' = AttrBit
  BY <1>1 DEF AttrBit
<1> QED  BY <1>1, <1>4, <1>5, <1>6 DEF Loop, MarkDurable, Updates, Paired

LEMMA CommitArrayLoop ==
  ASSUME LoopInv, CommitArray, op.name \in Updates
  PROVE  (Loop /\ MarkDurable)'
<1>1. /\ pc = "arr" /\ arr' = ArrayWritten(Written) /\ crc' = crc /\ NextPartition
      /\ missed' = missed
  BY DEF CommitArray, CommitReturnsZero, Updates
<1>2. cur \in Parts /\ op.slot \in Slots
  BY <1>1 DEF LoopInv, IInv, CallOK, Control, Updates
<1>3. \A e \in Present : arr'[e] = IF e \in Written THEN h[side].mem[e] ELSE arr[e]
  BY <1>1 DEF ArrayWritten, Overwrite
<1>4. ASSUME NEW p \in Parts \ missed, p <= cur, Paired(p)
      PROVE  /\ arr'[<<p, op.slot>>][AttrBit]
             /\ \A e \in OnDisk(DiskOf[<<p, op.slot>>]) : crc'[e] = arr'[e]
  <2> DEFINE d == DiskOf[<<p, op.slot>>]
  <2>1. <<p, op.slot>> \in Present /\ h[side].mem[<<p, op.slot>>][AttrBit]
    BY <1>1, <1>2, <1>4 DEF LoopInv, Loop, Paired, Slots
  <2>2. CASE d = h[side].disk
    <3>1. OnDisk(d) = Written /\ <<p, op.slot>> \in Written /\ Written \subseteq Present
      BY <2>1, <2>2 DEF Written, OnDisk
    <3> QED  BY <1>1, <1>3, <2>1, <3>1 DEF LoopInv, Halfway
  <2>3. CASE d # h[side].disk
    <3>1. p < cur
      BY <1>1, <1>2, <1>4, <2>3 DEF LoopInv, Loop, Parts
    <3>2. arr[<<p, op.slot>>][AttrBit] /\ TableValid(d)
      BY <1>1, <1>4, <2>3, <3>1 DEF LoopInv, Loop
    <3>3. \A e \in OnDisk(d) : e \in Present /\ e \notin Written
      BY <2>3 DEF OnDisk, Written
    <3>4. <<p, op.slot>> \in OnDisk(d)
      BY <2>1 DEF OnDisk
    <3> QED  BY <1>1, <1>3, <3>2, <3>3, <3>4 DEF TableValid
  <2> QED  BY <2>2, <2>3
<1> QED  BY <1>1, <1>4, NextPartitionLoop

LEMMA NextLoop ==
  ASSUME LoopInv, [Next]_vars, ~ShortWrites
  PROVE  (Loop /\ MarkDurable)'
<1>1. IInv /\ CallOK /\ Control
  BY DEF LoopInv, IInv, CallOK
<1>2. CASE UNCHANGED vars
  BY <1>2 DEF vars, LoopInv, Loop, MarkedTo, MarkDurable, TableValid, AttrBit, Paired
<1>3. CASE Calls
  <2>1. CASE MarkBootSuccessful
    BY <2>1, StartLoop DEF MarkBootSuccessful
  <2>2. CASE GetCurrentSlot
    BY <2>2, OtherReturn DEF GetCurrentSlot, Answer, Updates
  <2>3. ASSUME NEW slot, SetActiveBootSlot(slot) PROVE (Loop /\ MarkDurable)'
    <3>1. Start("set_active", slot, "group") \/ Return("set_active", slot, -1)
      BY <2>3 DEF SetActiveBootSlot, Answer
    <3> QED  BY <3>1, StartLoop, OtherReturn DEF Updates
  <2>4. ASSUME NEW slot, SetSlotAsUnbootable(slot) PROVE (Loop /\ MarkDurable)'
    <3>1. Start("set_unbootable", slot, "load") \/ Return("set_unbootable", slot, -1)
      BY <2>4 DEF SetSlotAsUnbootable
    <3>2. -1 # 0
      OBVIOUS
    <3> QED  BY <3>1, <3>2, StartLoop, OtherReturn
  <2>5. ASSUME NEW slot, IsSlotBootable(slot) \/ IsSlotMarkedSuccessful(slot) \/ GetSuffix(slot)
        PROVE  (Loop /\ MarkDurable)'
    <3>1. \A rc : \A name \in {"is_bootable", "is_successful", "get_suffix"} :
            Return(name, slot, rc) => (Loop /\ MarkDurable)'
      BY OtherReturn DEF Updates
    <3> QED  BY <2>5, <3>1 DEF IsSlotBootable, IsSlotMarkedSuccessful, GetSuffix, Answer
  <2> QED  BY <1>3, <2>1, <2>2, <2>3, <2>4, <2>5 DEF Calls
<1>4. CASE GroupEmpty \/ GroupAborts \/ GroupPrepared \/ AfterDoubleFree
  <2>1. op' = op /\ ret' = ret /\ op.name = "set_active" /\ pc # "idle"
    BY <1>1, <1>4 DEF Control, GroupEmpty, GroupAborts, GroupPrepared, AfterDoubleFree,
       NextGroup
  <2> QED  BY <2>1, SwitchStep DEF LoopInv
<1>5. CASE SwitchXbl \/ SwitchXblFails \/ LoadFails \/ ProcessAborts \/ Crash \/ Reboot
  <2>1. \/ Return("set_active", op.slot, 0) \/ Return("set_active", op.slot, -1)
        \/ Return(op.name, op.slot, -1) \/ Return("none", NoSlot, 0)
    BY <1>5 DEF SwitchXbl, SwitchXblFails, LoadFails, ProcessAborts, Crash, Reboot, Answer
  <2>2. "set_active" \notin Updates /\ "none" \notin Updates /\ -1 # 0
    BY DEF Updates
  <2> QED  BY <2>1, <2>2, OtherReturn
<1>6. CASE LoadSkips \/ Load
  BY <1>6, LoadSkipsLoop, LoadLoop
<1>7. CASE (CommitHeader \/ CommitArray) /\ op.name \in Updates
  BY <1>7, CommitHeaderLoop, CommitArrayLoop
<1>8. CASE (CommitHeaderFails \/ CommitArrayFails) /\ op.name \in Updates
  <2>1. Return(op.name, op.slot, -1)
    BY <1>8 DEF CommitHeaderFails, CommitArrayFails, CommitReturnsError, Updates
  <2>2. -1 # 0
    OBVIOUS
  <2> QED  BY <2>1, <2>2, OtherReturn
<1>9. CASE /\ CommitHeader \/ CommitArray \/ CommitHeaderFails \/ CommitArrayFails
           /\ op.name \notin Updates
  <2>1. op.name = "set_active" /\ pc # "idle"
    BY <1>1, <1>9 DEF Control, CommitHeader, CommitArray, CommitHeaderFails, CommitArrayFails
  <2>2. op' = op /\ ret' = ret
    BY <1>9, <2>1 DEF CommitHeader, CommitArray, CommitHeaderFails, CommitArrayFails, call,
       CommitReturnsZero, CommitReturnsError, NextGroup
  <2> QED  BY <2>1, <2>2, SwitchStep DEF LoopInv
<1>10. ~CommitArrayShort
  BY DEF CommitArrayShort
<1> QED  BY <1>2, <1>3, <1>4, <1>5, <1>6, <1>7, <1>8, <1>9, <1>10 DEF Next, Steps

\* If write() does all it reports, a 0 from mark_boot_successful or from
\* set_slot_as_unbootable means that the bit is on disk for every A/B pair but those
\* that the call itself could not look up (boot_control.cpp:170-184), and that their
\* tables are valid, whatever failed before or during the call.
THEOREM MarkDurableHolds ==
  ASSUME ~ShortWrites
  PROVE  Spec => []MarkDurable
<1>1. Init => LoopInv
  <2> SUFFICES ASSUME Init PROVE LoopInv
    OBVIOUS
  <2>1. Halfway /\ Loop /\ MarkDurable
    BY DEF Init, Halfway, Loop, MarkDurable, NoRet, NoCall, Updates
  <2> QED  BY <2>1, InitIInv DEF LoopInv
<1>2. LoopInv /\ [Next]_vars => LoopInv'
  BY NextIInv, NextHalfway, NextLoop DEF LoopInv
<1>3. LoopInv => MarkDurable
  BY DEF LoopInv
<1> QED  BY <1>1, <1>2, <1>3, PTL DEF Spec

=============================================================================
