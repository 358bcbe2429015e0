------------------------- MODULE BootControlSwitch -------------------------
(***************************************************************************)
(* What set_active_boot_slot does to the A/B bits, for every layout that   *)
(* keeps the two slots on different disks and every number of faults: the  *)
(* refinement of SlotTable, and the fate of a switch that was cut.         *)
(***************************************************************************)
EXTENDS BootControlSafety, WellFoundedInduction

\* As on nash: no disk holds entries of both slots.  On the one table of an eMMC
\* device diskB is stale when it is committed.
SlotsApart == \A e, f \in Present : DiskOf[e] = DiskOf[f] => e[2] = f[2]

-----------------------------------------------------------------------------
(* The handles that wait to be committed. *)

\* Handle x of a group holds, of its disk, which is one of slot s, the group's
\* entries switched and the other ones as they are.
GroupHandle(x, s) ==
    /\ \A p \in Group(cur) : DiskOf[<<p, s>>] = h[x].disk
    /\ \A e \in OnDisk(h[x].disk) :
         /\ e[2] = s
         /\ e[1] \in Group(cur) =>
              /\ s = op.slot => Table_!Activated(arr[e], h[x].mem[e])
              /\ s # op.slot => Table_!Deactivated(arr[e], h[x].mem[e])
         /\ e[1] \notin Group(cur) => h[x].mem[e] = arr[e]

\* The handle of an update: one entry got one bit.
MarkHandle ==
    /\ <<cur, op.slot>> \in OnDisk(h["A"].disk)
    /\ h["A"].mem[<<cur, op.slot>>] = [arr[<<cur, op.slot>>] EXCEPT ![AttrBit] = TRUE]
    /\ \A e \in OnDisk(h["A"].disk) : e # <<cur, op.slot>> => h["A"].mem[e] = arr[e]

Pending ==
    pc \in {"hdr", "arr"} =>
        /\ op.name = "set_active" =>
             /\ GroupHandle("B", 1)
             /\ side = "A" => GroupHandle("A", 0) /\ \A p \in Group(cur) : HasActive(p)
        /\ op.name # "set_active" => MarkHandle

LEMMA EntryParts ==
  ASSUME NEW e \in Present
  PROVE  e[1] \in Parts /\ e[2] \in Slots /\ e = <<e[1], e[2]>>
  BY LayoutAssumption

LEMMA PairTypes ==
  ASSUME NEW p \in Switchable, NEW s \in Slots
  PROVE  p \in Parts /\ <<p, s>> \in Present /\ DiskOf[<<p, s>>] \in Disks
  BY LayoutAssumption DEF Switchable, Paired, Slots

\* The primary array changes only in the second write of a commit.
LEMMA ArrayStep ==
  ASSUME IInv, [Next]_vars, arr' # arr
  PROVE  /\ pc = "arr"
         /\ \E W \in SUBSET Written : arr' = ArrayWritten(W)
<1>1. CASE Calls \/ UNCHANGED vars
  BY <1>1, QuietCalls DEF disk, vars
<1>2. CASE Reboot \/ (Steps /\ ~(CommitArray \/ CommitArrayFails \/ CommitArrayShort))
  BY <1>2 DEF Steps, GroupEmpty, GroupAborts, GroupPrepared, SwitchXbl, SwitchXblFails,
     LoadSkips, Load, LoadFails, CommitHeader, CommitHeaderFails, AfterDoubleFree,
     ProcessAborts, Reboot, disk
<1>3. CASE CommitArray \/ CommitArrayFails \/ CommitArrayShort
  BY <1>3 DEF CommitArray, CommitArrayFails, CommitArrayShort
<1>4. CASE Crash
  <2>1. PICK W \in IF pc = "arr" THEN SUBSET Written ELSE {{}} : arr' = ArrayWritten(W)
    BY <1>4 DEF Crash
  <2>2. arr \in Table
    BY DEF IInv, DiskOK
  <2>3. CASE pc # "arr"
    <3>1. W = {}
      BY <2>1, <2>3
    <3>2. ArrayWritten({}) = arr
      BY <2>2 DEF ArrayWritten, Overwrite, Table
    <3> QED  BY <2>1, <3>1, <3>2
  <2> QED  BY <2>1, <2>3
<1> QED  BY <1>1, <1>2, <1>3, <1>4 DEF Next

LEMMA WrittenEntry ==
  ASSUME NEW W \in SUBSET Written, arr' = ArrayWritten(W), NEW e \in Present
  PROVE  /\ arr'[e] = IF e \in W THEN h[side].mem[e] ELSE arr[e]
         /\ e \in W => e \in OnDisk(h[side].disk)
  BY DEF ArrayWritten, Overwrite, Written

\* A group is prepared from the table as it is, when each of its partitions has an
\* active copy that can be read.
LEMMA GroupPreparedPending ==
  ASSUME SlotsApart, IInv, ActiveGuid, GroupPrepared
  PROVE  Pending'
<1>1. op.slot \in Slots /\ cur \in Disks /\ op.name = "set_active" /\ DiskOK /\ side = "A"
  BY DEF GroupPrepared, IInv, CallOK, Control
<1>2. op' = op /\ cur' = cur /\ arr' = arr /\ pc' = "hdr" /\ side' = "A" /\ missed \subseteq missed'
  BY DEF GroupPrepared, disk
<1>3. PICK G \in SUBSET Group(cur), unread \in SUBSET Group(cur) :
        /\ G # {} /\ G = Group(cur) \ missed'
        /\ ~BothInactive(G, unread)
        /\ h' = [A |-> gpt_disk_get_disk_info(DiskA(G), Switched(G, 0, unread)),
                 B |-> gpt_disk_get_disk_info(DiskB(G), Switched(G, 1, unread))]
        /\ \A p \in G : DiskOf[<<p, 0>>] = DiskA(G) /\ DiskOf[<<p, 1>>] = DiskB(G)
  BY PreparedHandles
<1>4. Group(cur)' = G
  BY <1>2, <1>3 DEF Group
<1>5. PICK q \in G : TRUE
  BY <1>3
<1>6. \A p \in G : <<p, 0>> \in Present /\ <<p, 1>> \in Present
  BY <1>3, GroupFacts DEF Slots
<1>7. \A p \in G : AActive(p, unread) \/ arr[<<p, 1>>].active
  BY <1>3 DEF BothInactive
<1>8. \A p \in G : HasActive(p)
  BY <1>7 DEF HasActive, AActive, Slots
<1>9. \A p \in G : ActiveGuidOf(p, unread) = "img"
  BY <1>6, <1>7 DEF ActiveGuidOf, AActive, ActiveGuid
<1>10. \A p \in G : InactiveGuidOf(p, unread) \in {"img", "alt"}
  BY <1>1, <1>6 DEF InactiveGuidOf, DiskOK, Table, Entry
<1>11. ASSUME NEW s \in Slots, NEW d, d = DiskOf[<<q, s>>], NEW e \in OnDisk(d)
       PROVE  /\ e[2] = s
              /\ e[1] \in G =>
                   /\ s = op.slot => Table_!Activated(arr[e], Switched(G, s, unread)[e])
                   /\ s # op.slot => Table_!Deactivated(arr[e], Switched(G, s, unread)[e])
              /\ e[1] \notin G => Switched(G, s, unread)[e] = arr[e]
  <2>1. e \in Present /\ e[2] = s
    BY <1>6, <1>11 DEF OnDisk, Slots, SlotsApart
  <2>2. ASSUME e[1] \in G, s = op.slot
        PROVE  Table_!Activated(arr[e], Switched(G, s, unread)[e])
    BY <1>9, <2>1, <2>2 DEF Switched, UpdateSlot, Table_!Activated
  <2>3. ASSUME e[1] \in G, s # op.slot
        PROVE  Table_!Deactivated(arr[e], Switched(G, s, unread)[e])
    BY <1>10, <2>1, <2>3 DEF Switched, UpdateSlot, Table_!Deactivated, Table_!GUIDs
  <2>4. e[1] \notin G => Switched(G, s, unread)[e] = arr[e]
    BY <2>1 DEF Switched
  <2> QED  BY <2>1, <2>2, <2>3, <2>4
<1>12. /\ h'["A"].disk = DiskA(G) /\ h'["A"].mem = Switched(G, 0, unread)
       /\ h'["B"].disk = DiskB(G) /\ h'["B"].mem = Switched(G, 1, unread)
  BY <1>3 DEF gpt_disk_get_disk_info
<1>13. DiskA(G) = DiskOf[<<q, 0>>] /\ DiskB(G) = DiskOf[<<q, 1>>]
  BY <1>3
<1>14. GroupHandle("A", 0)'
  BY <1>2, <1>3, <1>4, <1>11, <1>12, <1>13 DEF GroupHandle, OnDisk, Slots
<1>15. GroupHandle("B", 1)'
  BY <1>2, <1>3, <1>4, <1>11, <1>12, <1>13 DEF GroupHandle, OnDisk, Slots
<1>16. \A p \in Group(cur)' : HasActive(p)'
  BY <1>2, <1>4, <1>8 DEF HasActive
<1> QED  BY <1>1, <1>2, <1>14, <1>15, <1>16 DEF Pending

LEMMA LoadPending ==
  ASSUME IInv, Load
  PROVE  Pending'
<1> DEFINE e == <<cur, op.slot>>
           mem == [arr EXCEPT ![e] = [arr[e] EXCEPT ![AttrBit] = TRUE]]
<1>1. op.name \in Updates /\ op.slot \in Slots /\ side = "A" /\ e \in Present /\ arr \in Table
  BY DEF Load, IInv, DiskOK, CallOK, Control, Paired, Slots
<1>2. op' = op /\ cur' = cur /\ arr' = arr /\ AttrBit' = AttrBit
  BY DEF Load, disk, AttrBit
<1>3. h' = [NoHandles EXCEPT !["A"] = gpt_disk_get_disk_info(DiskOf[e], mem)]
  BY DEF Load
<1>4. h'["A"].disk = DiskOf[e] /\ h'["A"].mem = mem
  BY <1>3 DEF gpt_disk_get_disk_info, NoHandles
<1>5. mem[e] = [arr[e] EXCEPT ![AttrBit] = TRUE] /\ \A f \in Present \ {e} : mem[f] = arr[f]
  BY <1>1 DEF Table
<1> HIDE DEF mem
<1>6. MarkHandle'
  BY <1>1, <1>2, <1>4, <1>5 DEF MarkHandle, OnDisk
<1> QED  BY <1>1, <1>2, <1>6 DEF Pending, Updates

\* The commit of diskA does not touch the disk of diskB.
LEMMA SideBPending ==
  ASSUME IInv, Pending, pc = "arr", CommitReturnsZero, missed' = missed,
         NEW W \in SUBSET Written, arr' = ArrayWritten(W)
  PROVE  Pending'
<1>1. CASE op.name = "set_active" /\ side # "B"
  <2>1. side = "A" /\ h' = [h EXCEPT !["A"] = gpt_disk_free(h["A"])] /\ op' = op /\ cur' = cur
        /\ side' = "B"
    BY <1>1 DEF CommitReturnsZero, IInv, CallOK
  <2>2. h'["B"] = h["B"]
    BY <2>1 DEF IInv, CallOK
  <2>3. GroupHandle("A", 0) /\ GroupHandle("B", 1)
    BY <1>1, <2>1 DEF Pending
  <2>4. \A e \in OnDisk(h["B"].disk) : arr'[e] = arr[e]
    <3>1. \A e \in OnDisk(h["B"].disk) : e \in Present /\ e \notin OnDisk(h["A"].disk)
      BY <2>3 DEF GroupHandle, OnDisk
    <3> QED  BY <2>1, <3>1, WrittenEntry
  <2>5. Group(cur)' = Group(cur)
    BY <2>1 DEF Group
  <2>6. GroupHandle("B", 1)'
    BY <2>1, <2>2, <2>3, <2>4, <2>5 DEF GroupHandle, OnDisk
  <2> QED  BY <1>1, <2>1, <2>6 DEF Pending
<1>2. CASE ~(op.name = "set_active" /\ side # "B")
  <2>1. pc' \notin {"hdr", "arr"}
    BY <1>2 DEF CommitReturnsZero, NextPartition, NextGroup, Return
  <2> QED  BY <2>1 DEF Pending
<1> QED  BY <1>1, <1>2

LEMMA NextPending ==
  ASSUME SlotsApart, IInv, ActiveGuid, Pending, [Next]_vars
  PROVE  Pending'
<1>1. CASE GroupPrepared
  BY <1>1, GroupPreparedPending
<1>2. CASE Load
  BY <1>2, LoadPending
<1>3. CASE CommitHeader \/ UNCHANGED vars
  <2>1. arr' = arr /\ h' = h /\ op' = op /\ cur' = cur /\ side' = side /\ missed' = missed
        /\ (pc' \in {"hdr", "arr"} => pc \in {"hdr", "arr"})
    BY <1>3 DEF CommitHeader, call, vars
  <2> QED  BY <2>1 DEF Pending, GroupHandle, MarkHandle, Group, HasActive, AttrBit, OnDisk
<1>4. CASE CommitArray \/ CommitArrayShort
  <2>1. pc = "arr" /\ CommitReturnsZero /\ missed' = missed
        /\ \E W \in SUBSET Written : arr' = ArrayWritten(W)
    BY <1>4 DEF CommitArray, CommitArrayShort
  <2> QED  BY <2>1, SideBPending
<1>5. CASE /\ Next
           /\ ~GroupPrepared /\ ~Load /\ ~CommitHeader /\ ~CommitArray /\ ~CommitArrayShort
  <2>1. pc' \notin {"hdr", "arr"}
    BY <1>5 DEF Next, Calls, Steps, MarkBootSuccessful, GetCurrentSlot, SetActiveBootSlot,
       SetSlotAsUnbootable, IsSlotBootable, IsSlotMarkedSuccessful, GetSuffix, Start, Answer,
       Return, GroupEmpty, GroupAborts, NextGroup, NextPartition, SwitchXbl, SwitchXblFails,
       LoadSkips, LoadFails, CommitHeaderFails, CommitArrayFails, CommitReturnsError,
       AfterDoubleFree, ProcessAborts, Crash, Reboot
  <2> QED  BY <2>1 DEF Pending
<1> QED  BY <1>1, <1>2, <1>3, <1>4, <1>5

PendingInv == IInv /\ ActiveGuid /\ Pending

LEMMA PendingInvariant ==
  ASSUME SlotsApart
  PROVE  Spec => []PendingInv
<1>1. Init => Pending
  BY DEF Init, Pending
<1>2. IInv /\ ActiveGuid /\ Pending /\ [Next]_vars => Pending'
  BY NextPending
<1> QED  BY <1>1, <1>2, InductiveInvariant, ActiveGuidHolds, PTL DEF Spec, PendingInv

-----------------------------------------------------------------------------
(* Every disk write is one of the updates of SlotTable. *)

\* What one write does to one entry, by the handle that is being committed.
LEMMA WriteOfGroup ==
  ASSUME PendingInv, pc = "arr", op.name = "set_active",
         NEW W \in SUBSET Written, arr' = ArrayWritten(W),
         NEW e \in Present, arr'[e] # arr[e]
  PROVE  LET s == IF side = "A" THEN 0 ELSE 1
         IN  /\ e[2] = s
             /\ e[1] \in Group(cur)
             /\ s = op.slot => Table_!Activated(arr[e], arr'[e])
             /\ s # op.slot => Table_!Deactivated(arr[e], arr'[e])
<1> DEFINE s == IF side = "A" THEN 0 ELSE 1
<1>1. e \in W /\ arr'[e] = h[side].mem[e] /\ e \in OnDisk(h[side].disk)
  BY WrittenEntry
<1>2. GroupHandle(side, s)
  BY DEF PendingInv, Pending, IInv, CallOK
<1> QED  BY <1>1, <1>2 DEF GroupHandle

LEMMA WriteOfUpdate ==
  ASSUME PendingInv, pc = "arr", op.name # "set_active",
         NEW W \in SUBSET Written, arr' = ArrayWritten(W),
         NEW e \in Present, arr'[e] # arr[e]
  PROVE  /\ e = <<cur, op.slot>>
         /\ arr'[e] = [arr[e] EXCEPT ![AttrBit] = TRUE]
<1>1. side = "A" /\ MarkHandle
  BY DEF PendingInv, Pending, IInv, CallOK, Control
<1>2. e \in W /\ arr'[e] = h["A"].mem[e] /\ e \in OnDisk(h["A"].disk)
  BY <1>1, WrittenEntry
<1> QED  BY <1>1, <1>2 DEF MarkHandle

LEMMA WriteIsUpdate ==
  ASSUME PendingInv, [Next]_vars, arr' # arr
  PROVE  Table_!Next
<1>1. pc = "arr" /\ \E W \in SUBSET Written : arr' = ArrayWritten(W)
  BY ArrayStep DEF PendingInv
<1>2. PICK W \in SUBSET Written : arr' = ArrayWritten(W)
  BY <1>1
<1>3. arr' \in Table_!TabType
  BY NextIInv DEF PendingInv, IInv, DiskOK, Table, Entry, Table_!TabType, Table_!GUIDs
<1>4. op.slot \in Slots
  BY <1>1 DEF PendingInv, IInv, CallOK, Control
<1>5. CASE op.name = "set_active"
  <2> DEFINE s == IF side = "A" THEN 0 ELSE 1
  <2>1. CASE s = op.slot
    <3>1. \A e \in Present : arr'[e] # arr[e] =>
            e[2] = s /\ Table_!Activated(arr[e], arr'[e])
      BY <1>1, <1>2, <1>5, <2>1, WriteOfGroup
    <3>2. Table_!MakeActive(s)
      BY <1>3, <3>1 DEF Table_!MakeActive, Table_!Update
    <3> QED  BY <3>2 DEF Table_!Next
  <2>2. CASE s # op.slot
    <3>1. \A e \in Present : arr'[e] # arr[e] =>
            e[2] = s /\ Table_!Deactivated(arr[e], arr'[e])
      BY <1>1, <1>2, <1>5, <2>2, WriteOfGroup
    <3>2. Table_!MakeInactive(s)
      BY <1>3, <3>1 DEF Table_!MakeInactive, Table_!Update
    <3> QED  BY <3>2 DEF Table_!Next
  <2> QED  BY <2>1, <2>2
<1>6. CASE op.name # "set_active"
  <2>1. AttrBit \in Table_!Attributes
    BY DEF AttrBit, Table_!Attributes
  <2>2. \A e \in Present : arr'[e] # arr[e] =>
          e[2] = op.slot /\ Table_!Marked(AttrBit, arr[e], arr'[e])
    BY <1>1, <1>2, <1>6, WriteOfUpdate DEF Table_!Marked
  <2>3. Table_!Mark(op.slot, AttrBit)
    BY <1>3, <2>2 DEF Table_!Mark, Table_!Update
  <2> QED  BY <1>4, <2>1, <2>3 DEF Table_!Next, Slots
<1> QED  BY <1>5, <1>6

\* The HAL implements SlotTable: whatever fails, every write to a primary array
\* touches the entries of one slot and makes each of those it changes active,
\* inactive or marked, completely.
THEOREM SlotTableImplemented ==
  ASSUME SlotsApart
  PROVE  Spec => SlotTableSpec
<1>1. Init => Table_!Init
  <2> SUFFICES ASSUME Init PROVE Table_!Init
    OBVIOUS
  <2>1. PICK a \in Slots : arr = Factory(a)
    BY DEF Init
  <2>2. arr \in Table_!TabType
    BY InitIInv DEF IInv, DiskOK, Table, Entry, Table_!TabType, Table_!GUIDs
  <2>3. \A e \in Present : arr[e].active => arr[e].guid = "img"
    BY <2>1 DEF Factory
  <2> QED  BY <2>2, <2>3 DEF Table_!Init
<1>2. PendingInv /\ [Next]_vars => [Table_!Next]_arr
  BY WriteIsUpdate
<1> QED  BY <1>1, <1>2, PendingInvariant, PTL DEF Spec, SlotTableSpec, Table_!Spec

-----------------------------------------------------------------------------
(* A switch that was cut. *)

LEMMA HeldOf ==
  ASSUME NEW p
  PROVE  /\ \A x \in Held(p) :
              (\E s \in Slots : x = arr[<<p, s>>]) \/ (Coming(p) /\ x = h["B"].mem[<<p, 1>>])
         /\ \A s \in Slots : arr[<<p, s>>] \in Held(p)
         /\ Coming(p) => h["B"].mem[<<p, 1>>] \in Held(p)
  BY DEF Held, Coming

\* The step that leaves diskB to be committed is the commit of diskA.
LEMMA ComingNext ==
  ASSUME IInv, [Next]_vars, NEW p \in Switchable, Coming(p)'
  PROVE  \/ Coming(p) /\ h' = h /\ arr' = arr
         \/ /\ pc = "arr" /\ side = "A" /\ op.name = "set_active" /\ p \in Group(cur)
            /\ h'["B"] = h["B"]
<1>1. CASE CommitHeader \/ UNCHANGED vars
  BY <1>1 DEF CommitHeader, call, vars, Coming, Group
<1>2. CASE CommitArray \/ CommitArrayShort
  <2>1. pc = "arr" /\ CommitReturnsZero /\ missed' = missed
    BY <1>2 DEF CommitArray, CommitArrayShort
  <2>2. op.name = "set_active" /\ side # "B"
    BY <2>1 DEF CommitReturnsZero, NextPartition, NextGroup, Return, Coming
  <2>3. side = "A" /\ h' = [h EXCEPT !["A"] = gpt_disk_free(h["A"])] /\ op' = op /\ cur' = cur
    BY <2>1, <2>2 DEF CommitReturnsZero, IInv, CallOK
  <2>4. h'["B"] = h["B"]
    BY <2>3 DEF IInv, CallOK
  <2>5. p \in Group(cur)
    BY <2>1, <2>3 DEF Coming, Group
  <2> QED  BY <2>1, <2>2, <2>3, <2>4, <2>5
<1>3. CASE Next /\ ~CommitHeader /\ ~CommitArray /\ ~CommitArrayShort
  <2>1. pc' \notin {"hdr", "arr"} \/ side' # "B"
    BY <1>3 DEF IInv, CallOK, Control, Next, Calls, Steps, MarkBootSuccessful,
       GetCurrentSlot, SetActiveBootSlot, SetSlotAsUnbootable, IsSlotBootable,
       IsSlotMarkedSuccessful, GetSuffix, Start, Answer, Return, GroupEmpty, GroupAborts,
       GroupPrepared, NextGroup, NextPartition, SwitchXbl, SwitchXblFails, LoadSkips, Load,
       LoadFails, CommitHeaderFails, CommitArrayFails, CommitReturnsError,
       AfterDoubleFree, ProcessAborts, Crash, Reboot
  <2> QED  BY <2>1 DEF Coming
<1> QED  BY <1>1, <1>2, <1>3

\* What a pair has after a step it had before, or one bit of it was marked, or it is
\* what the handles of its group hold while diskA is committed.
LEMMA HeldMoves ==
  ASSUME PendingInv, [Next]_vars, NEW p \in Switchable, NEW x \in Held(p)'
  PROVE  \/ x \in Held(p)
         \/ \E y \in Held(p), bit \in {"succ", "unb"} : y \in Entry /\ x = [y EXCEPT ![bit] = TRUE]
         \/ /\ pc = "arr" /\ side = "A" /\ op.name = "set_active" /\ p \in Group(cur)
            /\ x = h["A"].mem[<<p, 0>>] \/ x = h["B"].mem[<<p, 1>>]
<1>1. (\E s \in Slots : x = arr'[<<p, s>>]) \/ (Coming(p)' /\ x = h'["B"].mem[<<p, 1>>])
  BY DEF Held, Coming
<1>2. CASE Coming(p)' /\ x = h'["B"].mem[<<p, 1>>]
  <2>1. CASE Coming(p) /\ h' = h
    BY <1>2, <2>1, HeldOf
  <2>2. CASE ~(Coming(p) /\ h' = h)
    BY <1>2, <2>2, ComingNext DEF PendingInv
  <2> QED  BY <2>1, <2>2
<1>3. ASSUME NEW s \in Slots, x = arr'[<<p, s>>], x # arr[<<p, s>>]
      PROVE  \/ x \in Held(p)
             \/ \E y \in Held(p), bit \in {"succ", "unb"} :
                   y \in Entry /\ x = [y EXCEPT ![bit] = TRUE]
             \/ /\ pc = "arr" /\ side = "A" /\ op.name = "set_active" /\ p \in Group(cur)
                /\ x = h["A"].mem[<<p, 0>>] \/ x = h["B"].mem[<<p, 1>>]
  <2>1. pc = "arr" /\ \E W \in SUBSET Written : arr' = ArrayWritten(W)
    BY <1>3, ArrayStep DEF PendingInv
  <2>2. PICK W \in SUBSET Written : arr' = ArrayWritten(W)
    BY <2>1
  <2>3. <<p, s>> \in Present /\ arr[<<p, s>>] \in Entry
    BY PairTypes DEF PendingInv, IInv, DiskOK, Table
  <2>4. CASE op.name = "set_active"
    <3>1. p \in Group(cur) /\ s = (IF side = "A" THEN 0 ELSE 1)
      BY <1>3, <2>1, <2>2, <2>3, <2>4, WriteOfGroup
    <3>2. side \in {"A", "B"}
      BY DEF PendingInv, IInv, CallOK
    <3>3. x = h[side].mem[<<p, s>>]
      BY <1>3, <2>2, <2>3, WrittenEntry
    <3>4. CASE side = "A"
      BY <2>1, <2>4, <3>1, <3>3, <3>4
    <3>5. CASE side = "B"
      BY <2>1, <2>4, <3>1, <3>3, <3>5, HeldOf DEF Coming
    <3> QED  BY <3>2, <3>4, <3>5
  <2>5. CASE op.name # "set_active"
    <3>1. x = [arr[<<p, s>>] EXCEPT ![AttrBit] = TRUE]
      BY <1>3, <2>1, <2>2, <2>3, <2>5, WriteOfUpdate
    <3>2. AttrBit \in {"succ", "unb"}
      BY DEF AttrBit
    <3>3. arr[<<p, s>>] \in Held(p)
      BY <1>3, HeldOf
    <3> QED  BY <2>3, <3>1, <3>2, <3>3
  <2> QED  BY <2>4, <2>5
<1> QED  BY <1>1, <1>2, <1>3, HeldOf

LEMMA DarkStep ==
  ASSUME PendingInv, [Next]_vars, NEW p \in Switchable, Dark(p)
  PROVE  Dark(p)'
<1>1. ~HasActive(p)
  BY HeldOf DEF Dark, HasActive
<1>2. ~(pc = "arr" /\ side = "A" /\ op.name = "set_active" /\ p \in Group(cur))
  BY <1>1 DEF PendingInv, Pending
<1>3. ASSUME NEW x \in Held(p)' PROVE ~x.active
  <2>1. CASE x \in Held(p)
    BY <2>1 DEF Dark
  <2>2. CASE x \notin Held(p)
    <3>1. PICK y \in Held(p), bit \in {"succ", "unb"} : y \in Entry /\ x = [y EXCEPT ![bit] = TRUE]
      BY <1>2, <1>3, <2>2, HeldMoves
    <3>2. x.active = y.active
      BY <3>1 DEF Entry
    <3> QED  BY <3>1, <3>2 DEF Dark
  <2> QED  BY <2>1, <2>2
<1> QED  BY <1>3 DEF Dark

\* A partition that a cut switch left without an active copy stays without one:
\* no later call, repeated or other, turns it back on, nor comes to be about to.
THEOREM DarkForeverHolds ==
  ASSUME SlotsApart
  PROVE  Spec => DarkForever
<1> DEFINE Step == \A p \in Switchable : Dark(p) => Dark(p)'
<1>1. PendingInv /\ [Next]_vars => [Step]_vars
  BY DarkStep
<1> QED  BY <1>1, PendingInvariant, PTL DEF Spec, DarkForever

\* On the way to _a, diskB is only committed over a diskA that is active.
Armed ==
    (pc \in {"hdr", "arr"} /\ op.name = "set_active" /\ op.slot = 0 /\ side = "B") =>
        \A p \in Group(cur) : arr[<<p, 0>>].active

LEMMA NextArmed ==
  ASSUME PendingInv, Armed, [Next]_vars, ~ShortWrites
  PROVE  Armed'
<1> SUFFICES ASSUME pc' \in {"hdr", "arr"}, op'.name = "set_active", op'.slot = 0, side' = "B",
                    NEW p \in Group(cur)'
             PROVE  arr'[<<p, 0>>].active
  BY DEF Armed
<1>1. CASE CommitHeader \/ UNCHANGED vars
  BY <1>1 DEF CommitHeader, call, vars, Armed, Group
<1>2. CASE CommitArray
  <2>1. pc = "arr" /\ arr' = ArrayWritten(Written) /\ CommitReturnsZero /\ missed' = missed
    BY <1>2 DEF CommitArray
  <2>2. op.name = "set_active" /\ op' = op /\ cur' = cur /\ side = "A"
    BY <2>1 DEF CommitReturnsZero, NextPartition, NextGroup, Return, PendingInv, IInv, CallOK
  <2>3. p \in Group(cur) /\ op.slot = 0
    BY <2>1, <2>2 DEF Group
  <2>4. <<p, 0>> \in Present
    BY <2>3 DEF Group, Switchable, Paired
  <2>5. GroupHandle("A", 0)
    BY <2>1, <2>2 DEF PendingInv, Pending
  <2>6. <<p, 0>> \in OnDisk(h["A"].disk)
    BY <2>3, <2>4, <2>5 DEF GroupHandle, OnDisk
  <2>7. Table_!Activated(arr[<<p, 0>>], h["A"].mem[<<p, 0>>])
    BY <2>3, <2>5, <2>6 DEF GroupHandle
  <2>8. arr'[<<p, 0>>] = h["A"].mem[<<p, 0>>]
    BY <2>1, <2>2, <2>4, <2>6 DEF ArrayWritten, Overwrite, Written
  <2> QED  BY <2>7, <2>8 DEF Table_!Activated
<1>3. CASE Next /\ ~CommitHeader /\ ~CommitArray
  <2>1. pc' \notin {"hdr", "arr"} \/ side' # "B"
    BY <1>3 DEF PendingInv, IInv, CallOK, Control, Next, Calls, Steps, MarkBootSuccessful,
       GetCurrentSlot, SetActiveBootSlot, SetSlotAsUnbootable, IsSlotBootable,
       IsSlotMarkedSuccessful, GetSuffix, Start, Answer, Return, GroupEmpty, GroupAborts,
       GroupPrepared, NextGroup, NextPartition, SwitchXbl, SwitchXblFails, LoadSkips, Load,
       LoadFails, CommitHeaderFails, CommitArrayFails, CommitArrayShort, CommitReturnsError,
       AfterDoubleFree, ProcessAborts, Crash, Reboot
  <2> QED  BY <2>1
<1> QED  BY <1>1, <1>2, <1>3

LEMMA LightStep ==
  ASSUME PendingInv, Armed, [Next]_vars, op.name = "set_active", op.slot = 0,
         NEW p \in Switchable, HasActive(p)
  PROVE  HasActive(p)'
<1>1. CASE arr' = arr
  BY <1>1 DEF HasActive
<1>2. CASE arr' # arr
  <2>1. pc = "arr" /\ \E W \in SUBSET Written : arr' = ArrayWritten(W)
    BY <1>2, ArrayStep DEF PendingInv
  <2>2. PICK W \in SUBSET Written : arr' = ArrayWritten(W)
    BY <2>1
  <2>3. <<p, 0>> \in Present /\ <<p, 1>> \in Present /\ side \in {"A", "B"}
    BY DEF Switchable, Paired, PendingInv, IInv, CallOK
  <2>4. PICK s \in Slots : arr[<<p, s>>].active
    BY DEF HasActive
  <2>5. CASE arr'[<<p, s>>] = arr[<<p, s>>]
    BY <2>4, <2>5 DEF HasActive
  <2>6. CASE arr'[<<p, s>>] # arr[<<p, s>>] /\ side = "A"
    <3>1. s = 0 /\ Table_!Activated(arr[<<p, s>>], arr'[<<p, s>>])
      BY <2>1, <2>2, <2>3, <2>6, WriteOfGroup DEF Slots
    <3> QED  BY <3>1 DEF Table_!Activated, HasActive, Slots
  <2>7. CASE arr'[<<p, s>>] # arr[<<p, s>>] /\ side = "B"
    <3>1. s = 1 /\ p \in Group(cur)
      BY <2>1, <2>2, <2>3, <2>7, WriteOfGroup DEF Slots
    <3>2. arr[<<p, 0>>].active
      BY <2>1, <2>7, <3>1 DEF Armed
    <3>3. arr'[<<p, 0>>] = arr[<<p, 0>>]
      BY <2>1, <2>2, <2>3, <2>7, WriteOfGroup
    <3> QED  BY <3>2, <3>3 DEF HasActive, Slots
  <2> QED  BY <2>3, <2>5, <2>6, <2>7
<1> QED  BY <1>1, <1>2

\* If write() does all it reports, a switch towards _a may be cut anywhere and no
\* partition that had an active copy loses its last one.
THEOREM NeverDarkTowardsAHolds ==
  ASSUME SlotsApart, ~ShortWrites
  PROVE  Spec => NeverDarkTowardsA
<1> DEFINE Step == op.name = "set_active" /\ op.slot = 0 =>
      \A p \in Switchable : HasActive(p) => HasActive(p)'
<1>1. Init => Armed
  BY DEF Init, Armed
<1>2. PendingInv /\ Armed /\ [Next]_vars => Armed'
  BY NextArmed
<1>3. PendingInv /\ Armed /\ [Next]_vars => [Step]_vars
  BY LightStep
<1> QED  BY <1>1, <1>2, <1>3, PendingInvariant, PTL DEF Spec, NeverDarkTowardsA

-----------------------------------------------------------------------------
(* The type GUIDs of a pair. *)

\* Until diskA is written the two handles hold no GUID that the pair does not have.
GuidKept ==
    (pc \in {"hdr", "arr"} /\ op.name = "set_active" /\ side = "A") =>
        \A p \in Group(cur) :
           {h["A"].mem[<<p, 0>>].guid, h["B"].mem[<<p, 1>>].guid} \subseteq Guids(p)

\* UPDATE_SLOT stores the GUID it is given.
LEMMA UpdateSlotGuid ==
  ASSUME NEW e \in Present, arr[e] \in Entry, NEW g, NEW active \in BOOLEAN
  PROVE  UpdateSlot(e, g, active).guid = g
<1>1. CASE active
  BY <1>1 DEF UpdateSlot
<1>2. CASE ~active
  <2>1. UpdateSlot(e, g, active) = [arr[e] EXCEPT !.guid = g, !.active = FALSE]
    BY <1>2 DEF UpdateSlot
  <2> QED  BY <2>1 DEF Entry
<1> QED  BY <1>1, <1>2

LEMMA NextGuidKept ==
  ASSUME IInv, GuidKept, [Next]_vars
  PROVE  GuidKept'
<1>1. CASE GroupPrepared
  <2>1. op' = op /\ cur' = cur /\ arr' = arr /\ op.slot \in Slots /\ arr \in Table
    BY <1>1 DEF GroupPrepared, disk, IInv, DiskOK, CallOK, Control
  <2>2. PICK G \in SUBSET Group(cur), unread \in SUBSET Group(cur) :
          /\ G = Group(cur) \ missed'
          /\ h' = [A |-> gpt_disk_get_disk_info(DiskA(G), Switched(G, 0, unread)),
                   B |-> gpt_disk_get_disk_info(DiskB(G), Switched(G, 1, unread))]
    BY <1>1, PreparedHandles
  <2>3. h'["A"].mem = Switched(G, 0, unread) /\ h'["B"].mem = Switched(G, 1, unread)
    BY <2>2 DEF gpt_disk_get_disk_info
  <2>4. ASSUME NEW p \in G, NEW s \in Slots
        PROVE  Switched(G, s, unread)[<<p, s>>].guid \in {arr[<<p, t>>].guid : t \in Slots}
    <3> DEFINE mem == Switched(G, s, unread)
    <3>1. <<p, s>> \in Present
      BY <2>2, <2>4, GroupFacts
    <3>2. \/ mem[<<p, s>>] = UpdateSlot(<<p, s>>, ActiveGuidOf(p, unread), TRUE)
          \/ mem[<<p, s>>] = UpdateSlot(<<p, s>>, InactiveGuidOf(p, unread), FALSE)
      BY <2>4, <3>1 DEF Switched
    <3>3. arr[<<p, s>>] \in Entry
      BY <2>1, <3>1 DEF Table
    <3>4. \/ mem[<<p, s>>].guid = ActiveGuidOf(p, unread)
          \/ mem[<<p, s>>].guid = InactiveGuidOf(p, unread)
      BY <3>1, <3>2, <3>3, UpdateSlotGuid
    <3> QED  BY <3>4 DEF ActiveGuidOf, InactiveGuidOf, Slots
  <2>5. missed \subseteq missed'
    BY <1>1 DEF GroupPrepared
  <2>6. Group(cur)' = G /\ \A p : {arr[<<p, t>>].guid : t \in Slots} \subseteq Guids(p)'
    BY <2>1, <2>2, <2>5 DEF Group, Guids, Held, Coming
  <2>7. ASSUME NEW p \in G
        PROVE  h'["A"].mem[<<p, 0>>].guid \in Guids(p)' /\ h'["B"].mem[<<p, 1>>].guid \in Guids(p)'
    BY <2>3, <2>4, <2>6, 0 \in Slots, 1 \in Slots DEF Slots
  <2> QED  BY <2>6, <2>7 DEF GuidKept
<1>2. CASE CommitHeader \/ UNCHANGED vars
  <2>1. /\ arr' = arr /\ h' = h /\ op' = op /\ cur' = cur /\ side' = side /\ missed' = missed
        /\ (pc' \in {"hdr", "arr"} => pc \in {"hdr", "arr"})
    BY <1>2 DEF CommitHeader, call, vars
  <2>2. Group(cur)' = Group(cur)
    BY <2>1 DEF Group
  <2>3. CASE pc' \in {"hdr", "arr"} /\ op'.name = "set_active" /\ side' = "A"
    <3>1. \A p : Guids(p) = {arr[<<p, s>>].guid : s \in Slots}
                 /\ Guids(p)' = {arr[<<p, s>>].guid : s \in Slots}
      BY <2>1, <2>3 DEF Guids, Held, Coming
    <3> QED  BY <2>1, <2>2, <2>3, <3>1 DEF GuidKept
  <2> QED  BY <2>3 DEF GuidKept
<1>3. CASE Next /\ ~GroupPrepared /\ ~CommitHeader
  <2>1. pc' \notin {"hdr", "arr"} \/ op'.name # "set_active" \/ side' # "A"
    BY <1>3 DEF IInv, CallOK, Control, Updates, Next, Calls, Steps, MarkBootSuccessful,
       GetCurrentSlot, SetActiveBootSlot, SetSlotAsUnbootable, IsSlotBootable,
       IsSlotMarkedSuccessful, GetSuffix, Start, Answer, Return, GroupEmpty, GroupAborts, NextGroup,
       NextPartition, SwitchXbl, SwitchXblFails, LoadSkips, Load, LoadFails,
       CommitHeaderFails, CommitArray, CommitArrayFails, CommitArrayShort,
       CommitReturnsZero, CommitReturnsError, AfterDoubleFree, ProcessAborts, Crash, Reboot
  <2> QED  BY <2>1 DEF GuidKept
<1> QED  BY <1>1, <1>2, <1>3

LEMMA GuidStep ==
  ASSUME PendingInv, GuidKept, [Next]_vars, NEW p \in Switchable
  PROVE  Guids(p)' \subseteq Guids(p)
<1>1. ASSUME NEW x \in Held(p)' PROVE x.guid \in Guids(p)
  <2>1. CASE x \in Held(p)
    BY <2>1 DEF Guids
  <2>2. CASE \E y \in Held(p), bit \in {"succ", "unb"} : y \in Entry /\ x = [y EXCEPT ![bit] = TRUE]
    <3>1. PICK y \in Held(p), bit \in {"succ", "unb"} : y \in Entry /\ x = [y EXCEPT ![bit] = TRUE]
      BY <2>2
    <3>2. x.guid = y.guid
      BY <3>1 DEF Entry
    <3> QED  BY <3>1, <3>2 DEF Guids
  <2>3. CASE /\ pc = "arr" /\ side = "A" /\ op.name = "set_active" /\ p \in Group(cur)
             /\ x = h["A"].mem[<<p, 0>>] \/ x = h["B"].mem[<<p, 1>>]
    BY <2>3 DEF GuidKept
  <2> QED  BY <1>1, <2>1, <2>2, <2>3, HeldMoves
<1> QED  BY <1>1 DEF Guids

\* A GUID that a pair has lost to a switch that was cut never comes back, whatever
\* is called, fails or crashes: boot_ctl_set_active_slot_for_partitions only copies
\* the GUIDs it finds.
THEOREM GuidLostForeverHolds ==
  ASSUME SlotsApart
  PROVE  Spec => GuidLostForever
<1> DEFINE Step == \A p \in Switchable : Guids(p)' \subseteq Guids(p)
<1>1. Init => GuidKept
  BY DEF Init, GuidKept
<1>2. IInv /\ GuidKept /\ [Next]_vars => GuidKept'
  BY NextGuidKept
<1>3. PendingInv /\ GuidKept /\ [Next]_vars => [Step]_vars
  BY GuidStep
<1>4. PendingInv => IInv
  BY DEF PendingInv
<1> QED  BY <1>1, <1>2, <1>3, <1>4, PendingInvariant, PTL DEF Spec, GuidLostForever

-----------------------------------------------------------------------------
(* A group that returns 0. *)

\* The entry of p in slot s is as the running switch wants it, in a valid table.
SwitchDone(p, s) ==
    /\ s = op.slot => arr[<<p, s>>] =
                        [guid |-> "img", active |-> TRUE, succ |-> FALSE, unb |-> FALSE]
    /\ s # op.slot => ~arr[<<p, s>>].active
    /\ TableValid(DiskOf[<<p, s>>])

\* diskB is committed over a diskA that was committed completely.
FirstDone ==
    (pc \in {"hdr", "arr"} /\ op.name = "set_active" /\ side = "B") =>
        \A p \in Group(cur) : SwitchDone(p, 0)

\* The commit of a handle switches the entries of its slot.
LEMMA CommitSwitches ==
  ASSUME PendingInv, Halfway, CommitArray, op.name = "set_active", op' = op,
         NEW p \in Group(cur), NEW s \in Slots, side = IF s = 0 THEN "A" ELSE "B"
  PROVE  SwitchDone(p, s)'
<1> DEFINE e == <<p, s>>
<1>1. pc = "arr" /\ arr' = ArrayWritten(Written) /\ crc' = crc
  BY DEF CommitArray
<1>2. GroupHandle(side, s)
  BY <1>1 DEF PendingInv, Pending, Slots
<1>3. e \in Present /\ arr[e] \in Entry
  BY PairTypes DEF Group, PendingInv, IInv, DiskOK, Table
<1>4. DiskOf[e] = h[side].disk /\ e \in OnDisk(h[side].disk)
  BY <1>2, <1>3 DEF GroupHandle, OnDisk
<1>5. \A f \in OnDisk(h[side].disk) : arr'[f] = h[side].mem[f] /\ crc'[f] = h[side].mem[f]
  BY <1>1 DEF Halfway, Written, ArrayWritten, Overwrite, OnDisk
<1>6. TableValid(DiskOf[e])'
  BY <1>4, <1>5 DEF TableValid, OnDisk
<1>7. /\ s = op.slot => Table_!Activated(arr[e], arr'[e])
      /\ s # op.slot => Table_!Deactivated(arr[e], arr'[e])
  BY <1>2, <1>4, <1>5 DEF GroupHandle
<1>8. s # op.slot => ~arr'[e].active
  BY <1>3, <1>7 DEF Table_!Deactivated, Entry
<1> QED  BY <1>6, <1>7, <1>8 DEF SwitchDone, Table_!Activated

\* Neither write of diskB touches the disk of an _a entry.
LEMMA OtherDiskKept ==
  ASSUME SlotsApart, PendingInv, pc \in {"hdr", "arr"}, op.name = "set_active", side = "B",
         op' = op, NEW p \in Group(cur), SwitchDone(p, 0),
         CommitHeader \/ CommitArray
  PROVE  SwitchDone(p, 0)'
<1>1. /\ \A e \in Present \ Written : arr'[e] = arr[e] /\ crc'[e] = crc[e]
  BY DEF CommitHeader, CommitArray, HeaderWritten, ArrayWritten, Overwrite
<1>2. <<p, 0>> \in Present
  BY PairTypes DEF Group, Slots
<1>3. \A e \in OnDisk(DiskOf[<<p, 0>>]) : e \in Present \ Written
  BY <1>2 DEF OnDisk, Written, SlotsApart, PendingInv, Pending, GroupHandle
<1>4. <<p, 0>> \in OnDisk(DiskOf[<<p, 0>>])
  BY <1>2 DEF OnDisk
<1> QED  BY <1>1, <1>3, <1>4 DEF SwitchDone, TableValid, OnDisk

LEMMA NextFirstDone ==
  ASSUME SlotsApart, PendingInv, Halfway, FirstDone, [Next]_vars, ~ShortWrites
  PROVE  FirstDone'
<1> SUFFICES ASSUME pc' \in {"hdr", "arr"}, op'.name = "set_active", side' = "B",
                    NEW p \in Group(cur)'
             PROVE  SwitchDone(p, 0)'
  BY DEF FirstDone
<1>1. CASE CommitHeader
  <2>1. pc = "hdr" /\ op' = op /\ side = "B" /\ cur' = cur /\ missed' = missed
    BY <1>1 DEF CommitHeader, call
  <2>2. p \in Group(cur)
    BY <2>1 DEF Group
  <2> QED  BY <1>1, <2>1, <2>2, OtherDiskKept DEF FirstDone
<1>2. CASE CommitArray
  <2>1. pc = "arr" /\ CommitReturnsZero /\ missed' = missed
    BY <1>2 DEF CommitArray
  <2>2. op.name = "set_active" /\ op' = op /\ cur' = cur /\ side = "A"
    BY <2>1 DEF CommitReturnsZero, NextPartition, NextGroup, Return, PendingInv, IInv, CallOK
  <2>3. p \in Group(cur)
    BY <2>1, <2>2 DEF Group
  <2> QED  BY <1>2, <2>2, <2>3, CommitSwitches DEF Slots
<1>3. CASE UNCHANGED vars
  BY <1>3 DEF vars, FirstDone, SwitchDone, Group, TableValid, OnDisk
<1>4. CASE Next /\ ~CommitHeader /\ ~CommitArray
  <2>1. pc' \notin {"hdr", "arr"} \/ side' # "B"
    BY <1>4 DEF PendingInv, IInv, CallOK, Control, Next, Calls, Steps, MarkBootSuccessful,
       GetCurrentSlot, SetActiveBootSlot, SetSlotAsUnbootable, IsSlotBootable,
       IsSlotMarkedSuccessful, GetSuffix, Start, Answer, Return, GroupEmpty, GroupAborts,
       GroupPrepared, NextGroup, NextPartition, SwitchXbl, SwitchXblFails, LoadSkips, Load,
       LoadFails, CommitHeaderFails, CommitArrayFails, CommitArrayShort, CommitReturnsError,
       AfterDoubleFree, ProcessAborts, Crash, Reboot
  <2> QED  BY <2>1
<1> QED  BY <1>1, <1>2, <1>3, <1>4

LEMMA ZeroStep ==
  ASSUME SlotsApart, PendingInv, Halfway, FirstDone, [Next]_vars, ~ShortWrites,
         op.name = "set_active", pc = "arr", side = "B", pc' \in {"group", "xbl"},
         NEW p \in Group(cur)
  PROVE  /\ arr'[<<p, op.slot>>] =
              [guid |-> "img", active |-> TRUE, succ |-> FALSE, unb |-> FALSE]
         /\ ~arr'[<<p, 1 - op.slot>>].active
         /\ \A s \in Slots : TableValid(DiskOf[<<p, s>>])'
<1>1. CommitArray
  BY DEF vars, Next, Calls, Steps, MarkBootSuccessful, GetCurrentSlot, SetActiveBootSlot,
     SetSlotAsUnbootable, IsSlotBootable, IsSlotMarkedSuccessful, GetSuffix,
     GroupEmpty, GroupAborts, GroupPrepared, SwitchXbl, SwitchXblFails, LoadSkips, Load,
     LoadFails, CommitHeader, CommitHeaderFails, CommitArrayFails, CommitArrayShort,
     CommitReturnsError, AfterDoubleFree, ProcessAborts, Crash, Reboot, Answer, Return
<1>2. op' = op
  BY <1>1 DEF CommitArray, CommitReturnsZero, NextGroup
<1>3. SwitchDone(p, 1)'
  BY <1>1, <1>2, CommitSwitches DEF Slots
<1>4. SwitchDone(p, 0)'
  BY <1>1, <1>2, OtherDiskKept DEF FirstDone
<1>5. op.slot \in Slots
  BY DEF PendingInv, IInv, CallOK, Control
<1>6. \A s \in Slots : SwitchDone(p, s)'
  BY <1>3, <1>4 DEF Slots
<1>7. 1 - op.slot \in Slots /\ 1 - op.slot # op.slot
  BY <1>5 DEF Slots
<1> QED  BY <1>2, <1>5, <1>6, <1>7 DEF SwitchDone

\* If write() does all it reports, a group of set_active_boot_slot that writes and
\* returns 0 has switched all its pairs but those whose lookup failed, in two valid
\* tables, from any state that cut switches and failed calls can have left.  (A group
\* that returns an error is passed over by the loop over the disks.)
THEOREM GroupZeroMeansSwitchedHolds ==
  ASSUME SlotsApart, ~ShortWrites
  PROVE  Spec => GroupZeroMeansSwitched
<1> DEFINE Step ==
      (op.name = "set_active" /\ pc = "arr" /\ side = "B" /\ pc' \in {"group", "xbl"}) =>
         \A p \in Group(cur) :
            /\ arr'[<<p, op.slot>>] =
                  [guid |-> "img", active |-> TRUE, succ |-> FALSE, unb |-> FALSE]
            /\ ~arr'[<<p, 1 - op.slot>>].active
            /\ \A s \in Slots : TableValid(DiskOf[<<p, s>>])'
<1>1. Init => Halfway /\ FirstDone
  BY DEF Init, Halfway, FirstDone
<1>2. PendingInv /\ Halfway /\ FirstDone /\ [Next]_vars => (Halfway /\ FirstDone)'
  BY NextHalfway, NextFirstDone DEF PendingInv
<1>3. PendingInv /\ Halfway /\ FirstDone /\ [Next]_vars => [Step]_vars
  BY ZeroStep
<1> QED  BY <1>1, <1>2, <1>3, PendingInvariant, PTL DEF Spec, GroupZeroMeansSwitched

-----------------------------------------------------------------------------
(* Switches that nothing disturbs. *)

\* Partitions that share a disk in one slot share one in the other.
GroupsWhole ==
    \A p, q \in Switchable : \A s \in Slots :
        DiskOf[<<p, s>>] = DiskOf[<<q, s>>] => DiskOf[<<p, 1 - s>>] = DiskOf[<<q, 1 - s>>]

Fresh == [guid |-> "img", active |-> TRUE, succ |-> FALSE, unb |-> FALSE]

\* What the running call makes of the bits b of its pairs, and which entries it
\* has brought there.
Final(b, s) ==
    IF op.name = "set_active"
    THEN IF s = op.slot THEN Fresh ELSE [b[s] EXCEPT !.guid = "alt", !.active = FALSE]
    ELSE [b[s] EXCEPT ![AttrBit] = TRUE]

Done(p, s) ==
    \/ /\ op.name = "set_active"
       /\ \/ DiskOf[<<p, op.slot>>] < cur
          \/ DiskOf[<<p, op.slot>>] = cur /\ side = "B" /\ s = 0
    \/ op.name \in Updates /\ p < cur /\ s = op.slot

Settled(b) ==
    /\ b \in [Slots -> Entry]
    /\ \E a \in Slots : /\ b[a].active /\ b[a].guid = "img"
                        /\ ~b[1 - a].active /\ b[1 - a].guid = "alt"

\* All pairs started the call with the bits b, and it treats them all alike.
Even(b) ==
    /\ Settled(b)
    /\ \A p \in Switchable : \A s \in Slots :
         arr[<<p, s>>] = IF Done(p, s) THEN Final(b, s) ELSE b[s]
    /\ pc \in {"hdr", "arr"} /\ op.name = "set_active" =>
         \A p \in Group(cur) :
             /\ h["B"].mem[<<p, 1>>] = Final(b, 1)
             /\ side = "A" => h["A"].mem[<<p, 0>>] = Final(b, 0)
    /\ ret.name = "set_active" /\ ret.rc = 0 =>
         /\ pc = "idle" /\ ret.slot \in Slots /\ b[ret.slot] = Fresh
         /\ IsUfs => bootLun = ret.slot

Orderly ==
    /\ pc # "double"
    /\ pc = "idle" => op.name = "none"
    /\ pc # "idle" => ret.name # "set_active"
    /\ pc = "xbl" => cur = NDisks + 1

Steady == faults = 0 => Orderly /\ \E b : Even(b)

\* Looking a pair up in vain is a fault.
Found == faults = 0 => missed = {}

SteadyInv == PendingInv /\ Steady /\ Found

LEMMA FinalType ==
  ASSUME NEW b \in [Slots -> Entry], NEW s \in Slots
  PROVE  Final(b, s) \in Entry
<1>1. b[s] \in Entry /\ AttrBit \in {"succ", "unb"}
  BY DEF AttrBit
<1> QED  BY <1>1 DEF Final, Fresh, Entry

\* A finished switch leaves the slot fresh and the other one inactive.
LEMMA SwitchedSettled ==
  ASSUME NEW b, Settled(b), op.name = "set_active", op.slot \in Slots
  PROVE  Settled([s \in Slots |-> Final(b, s)])
<1> DEFINE c == [s \in Slots |-> Final(b, s)]
<1>1. c \in [Slots -> Entry]
  BY FinalType DEF Settled
<1>2. 1 - op.slot \in Slots /\ 1 - op.slot # op.slot
  BY DEF Slots
<1>3. c[op.slot] = Fresh /\ c[1 - op.slot] = [b[1 - op.slot] EXCEPT !.guid = "alt", !.active = FALSE]
  BY <1>2 DEF Final
<1>4. b[1 - op.slot] \in Entry
  BY <1>2 DEF Settled
<1>5. ~c[1 - op.slot].active /\ c[1 - op.slot].guid = "alt"
  BY <1>3, <1>4 DEF Entry
<1>6. c[op.slot].active /\ c[op.slot].guid = "img"
  BY <1>3 DEF Fresh
<1> QED  BY <1>1, <1>5, <1>6 DEF Settled

LEMMA MarkedSettled ==
  ASSUME NEW b, Settled(b), op.name \in Updates, op.slot \in Slots
  PROVE  Settled([s \in Slots |-> IF s = op.slot THEN Final(b, s) ELSE b[s]])
<1> DEFINE c == [s \in Slots |-> IF s = op.slot THEN Final(b, s) ELSE b[s]]
<1>1. c \in [Slots -> Entry]
  BY FinalType DEF Settled
<1>2. ASSUME NEW s \in Slots PROVE c[s].active = b[s].active /\ c[s].guid = b[s].guid
  <2>1. b[s] \in Entry /\ AttrBit \in {"succ", "unb"}
    BY DEF Settled, AttrBit
  <2>2. Final(b, s) = [b[s] EXCEPT ![AttrBit] = TRUE]
    BY DEF Final, Updates
  <2> QED  BY <2>1, <2>2 DEF Entry
<1>3. \A a \in Slots : 1 - a \in Slots
  BY DEF Slots
<1> HIDE DEF c
<1> QED  BY <1>1, <1>2, <1>3 DEF Settled, c

-----------------------------------------------------------------------------
(* Calls begin and end. *)

\* Between calls nothing is done, and at the beginning of one neither.
LEMMA NothingDone ==
  ASSUME NEW p \in Switchable, NEW s \in Slots,
         \/ op.name = "none"
         \/ op.slot \in Slots /\ cur = 1 /\ side = "A"
  PROVE  ~Done(p, s)
<1>1. p \in Parts /\ (op.slot \in Slots => DiskOf[<<p, op.slot>>] \in Disks)
  BY PairTypes
<1> QED  BY <1>1 DEF Done, Updates, Parts, Disks

\* Nothing was done of the call, so its bits are on the disks as they were.
LEMMA EvenAtRest ==
  ASSUME NEW b, Even(b), pc = "idle", Orderly, NEW p \in Switchable, NEW s \in Slots
  PROVE  arr[<<p, s>>] = b[s]
<1>1. ~Done(p, s)
  BY NothingDone DEF Orderly
<1> QED  BY <1>1 DEF Even

\* What is left to show of a step into a state where nothing is done and no handle
\* waits.
LEMMA RestEven ==
  ASSUME NEW b, Settled(b),
         \A p \in Switchable : \A s \in Slots : arr'[<<p, s>>] = b[s] /\ ~Done(p, s)',
         pc' \notin {"hdr", "arr"},
         (ret'.name = "set_active" /\ ret'.rc = 0) =>
            /\ pc' = "idle" /\ ret'.slot \in Slots /\ b[ret'.slot] = Fresh
            /\ IsUfs => bootLun' = ret'.slot
  PROVE  \E c : Even(c)'
<1>1. Even(b)'
  BY DEF Even, Settled
<1> QED  BY <1>1

LEMMA StartSteady ==
  ASSUME SteadyInv, faults = 0, pc = "idle", arr' = arr,
         NEW name \in Updates \cup {"set_active"}, NEW slot \in Slots,
         NEW where \in {"group", "load"}, Start(name, slot, where)
  PROVE  Steady'
<1>1. PICK b : Even(b)
  BY DEF SteadyInv, Steady
<1>2. op'.name = name /\ op'.slot = slot /\ cur' = 1 /\ side' = "A" /\ pc' = where
      /\ ret'.name = "none"
  BY DEF Start, NoRet, SteadyInv, PendingInv, IInv, CallOK, Control
<1>3. \A p \in Switchable : \A s \in Slots : arr'[<<p, s>>] = b[s]
  BY <1>1, EvenAtRest DEF SteadyInv, Steady
<1>4. \A p \in Switchable : \A s \in Slots : ~Done(p, s)'
  <2> SUFFICES ASSUME NEW p \in Switchable, NEW s \in Slots PROVE ~Done(p, s)'
    OBVIOUS
  <2>1. p \in Parts /\ DiskOf[<<p, slot>>] \in Disks
    BY PairTypes
  <2> QED  BY <1>2, <2>1 DEF Done, Updates, Parts, Disks
<1>5. \E c : Even(c)'
  BY <1>1, <1>2, <1>3, <1>4, RestEven DEF Even
<1> QED  BY <1>2, <1>5 DEF Steady, Orderly

\* A query, a call that fails its sanity check, a reboot.
LEMMA QuickReturnSteady ==
  ASSUME SteadyInv, faults = 0, pc = "idle", arr' = arr,
         NEW name, NEW slot, NEW rc, Return(name, slot, rc), name # "set_active" \/ rc # 0
  PROVE  Steady'
<1>1. PICK b : Even(b)
  BY DEF SteadyInv, Steady
<1>2. op'.name = "none" /\ pc' = "idle" /\ ret'.name = name /\ ret'.rc = rc
  BY DEF Return, NoCall
<1>3. \A p \in Switchable : \A s \in Slots : arr'[<<p, s>>] = b[s]
  BY <1>1, EvenAtRest DEF SteadyInv, Steady
<1>4. \A p \in Switchable : \A s \in Slots : ~Done(p, s)'
  BY <1>2 DEF Done, Updates
<1>5. \E c : Even(c)'
  BY <1>1, <1>2, <1>3, <1>4, RestEven DEF Even
<1> QED  BY <1>2, <1>5 DEF Steady, Orderly

LEMMA SwitchReturnSteady ==
  ASSUME SteadyInv, faults = 0, pc = "xbl", arr' = arr, NEW rc,
         Return("set_active", op.slot, rc), rc = 0 /\ IsUfs => bootLun' = op.slot
  PROVE  Steady'
<1>1. PICK b : Even(b)
  BY DEF SteadyInv, Steady
<1>2. op.name = "set_active" /\ op.slot \in Slots /\ cur = NDisks + 1
  BY DEF SteadyInv, PendingInv, IInv, CallOK, Control, Steady, Orderly
<1> DEFINE c == [s \in Slots |-> Final(b, s)]
<1>3. Settled(c)
  BY <1>1, <1>2, SwitchedSettled DEF Even
<1>4. ASSUME NEW p \in Switchable, NEW s \in Slots PROVE arr'[<<p, s>>] = c[s]
  <2>1. DiskOf[<<p, op.slot>>] \in Disks
    BY <1>2, PairTypes
  <2>2. Done(p, s)
    BY <1>2, <2>1, LayoutAssumption DEF Done, Disks
  <2> QED  BY <1>1, <2>2 DEF Even
<1>5. op'.name = "none" /\ pc' = "idle" /\ ret'.slot = op.slot /\ ret'.rc = rc
  BY DEF Return, NoCall
<1>6. \A p \in Switchable : \A s \in Slots : ~Done(p, s)'
  BY <1>5 DEF Done, Updates
<1>7. c[op.slot] = Fresh
  BY <1>2 DEF Final
<1> HIDE DEF c
<1>8. \E d : Even(d)'
  BY <1>2, <1>3, <1>4, <1>5, <1>6, <1>7, RestEven
<1> QED  BY <1>5, <1>8 DEF Steady, Orderly

LEMMA NextPartitionSteady ==
  ASSUME SteadyInv, faults = 0, NEW b, Settled(b), op.name \in Updates, pc # "idle",
         NextPartition,
         \A p \in Switchable : \A s \in Slots :
            arr'[<<p, s>>] = IF p <= cur /\ s = op.slot THEN Final(b, s) ELSE b[s]
  PROVE  Steady'
<1>1. cur \in Parts /\ op.slot \in Slots /\ ret.name # "set_active"
  BY DEF SteadyInv, PendingInv, IInv, CallOK, Control, Updates, Steady, Orderly
<1>2. CASE cur = NParts
  <2> DEFINE c == [s \in Slots |-> IF s = op.slot THEN Final(b, s) ELSE b[s]]
  <2>1. Return(op.name, op.slot, 0)
    BY <1>2 DEF NextPartition
  <2>2. op'.name = "none" /\ pc' = "idle" /\ ret'.name \in Updates
    BY <2>1 DEF Return, NoCall
  <2>3. Settled(c)
    BY <1>1, MarkedSettled
  <2>4. \A p \in Switchable : p <= cur
    BY <1>2, LayoutAssumption DEF Parts, Switchable
  <2>5. \A p \in Switchable : \A s \in Slots : arr'[<<p, s>>] = c[s]
    BY <2>4
  <2>6. \A p \in Switchable : \A s \in Slots : ~Done(p, s)'
    BY <2>2 DEF Done, Updates
  <2> HIDE DEF c
  <2>7. \E d : Even(d)'
    BY <2>2, <2>3, <2>5, <2>6, RestEven DEF Updates
  <2> QED  BY <2>2, <2>7 DEF Steady, Orderly, Updates
<1>3. CASE cur # NParts
  <2>1. pc' = "load" /\ cur' = cur + 1 /\ op' = op /\ ret' = ret
    BY <1>3 DEF NextPartition
  <2>2. \A p \in Switchable : \A s \in Slots : Done(p, s)' <=> p <= cur /\ s = op.slot
    BY <1>1, <2>1, PairTypes DEF Done, Updates, Parts
  <2>3. \A s \in Slots : Final(b, s)' = Final(b, s)
    BY <2>1 DEF Final, AttrBit
  <2>4. Even(b)'
    BY <1>1, <2>1, <2>2, <2>3 DEF Even, Settled
  <2> QED  BY <1>1, <2>1, <2>4 DEF Steady, Orderly
<1> QED  BY <1>2, <1>3

LEMMA NextGroupSteady ==
  ASSUME SteadyInv, faults = 0, NEW b, Settled(b), op.name = "set_active",
         op.slot \in Slots, cur \in Disks, pc # "idle", NextGroup,
         \A p \in Switchable : \A s \in Slots :
            arr'[<<p, s>>] = IF DiskOf[<<p, op.slot>>] <= cur THEN Final(b, s) ELSE b[s]
  PROVE  Steady'
<1>1. op' = op /\ ret' = ret /\ cur' = cur + 1 /\ side' = "A"
      /\ pc' = IF cur = NDisks THEN "xbl" ELSE "group"
  BY DEF NextGroup
<1>2. ret.name # "set_active"
  BY DEF SteadyInv, Steady, Orderly
<1>3. ASSUME NEW p \in Switchable, NEW s \in Slots
      PROVE  Done(p, s)' <=> DiskOf[<<p, op.slot>>] <= cur
  <2>1. DiskOf[<<p, op.slot>>] \in Disks
    BY PairTypes
  <2> QED  BY <1>1, <2>1 DEF Done, Updates, Disks
<1>4. \A s \in Slots : Final(b, s)' = Final(b, s)
  BY <1>1 DEF Final, AttrBit
<1>5. Even(b)'
  BY <1>1, <1>2, <1>3, <1>4 DEF Even, Settled
<1> QED  BY <1>1, <1>2, <1>5 DEF Steady, Orderly

-----------------------------------------------------------------------------
(* The steps of a call that meets no failure. *)

LEMMA GroupCursor ==
  ASSUME SteadyInv, faults = 0, NEW p \in Switchable, op.name = "set_active"
  PROVE  /\ op.slot \in Slots => DiskOf[<<p, op.slot>>] \in Disks
         /\ p \in Group(cur) <=> DiskOf[<<p, op.slot>>] = cur
  BY PairTypes DEF Group, SteadyInv, Found

\* A set of numbers that is not empty has a least element.
LEMMA LeastIn ==
  ASSUME NEW S, S \subseteq Nat, S # {}
  PROVE  Min(S) \in S
<1> DEFINE R == OpToRel(<, Nat)
<1>1. PICK x \in S : \A y \in S : ~(<<y, x>> \in R)
  <2>1. IsWellFoundedOn(R, Nat)
    BY NatLessThanWellFounded
  <2> HIDE DEF R
  <2> QED  BY <2>1, WFMin
<1>2. ASSUME NEW y \in S PROVE x =< y
  <2>1. ~(<<y, x>> \in R)
    BY <1>1
  <2> QED  BY <2>1 DEF OpToRel
<1> QED  BY <1>2 DEF Min

\* The partitions of a group are on two disks.
LEMMA NoPentryMissing ==
  ASSUME GroupsWhole, op.slot \in Slots, NEW d, Group(d) # {}
  PROVE  ~PentryMissing(Group(d))
<1> DEFINE m == Min(Group(d))
<1>1. m \in Group(d)
  <2>1. Group(d) \subseteq Nat
    BY DEF Group, Switchable, Parts
  <2> QED  BY <2>1, LeastIn
<1>2. ASSUME NEW p \in Group(d), NEW s \in Slots PROVE DiskOf[<<p, s>>] = DiskOf[<<m, s>>]
  <2>1. p \in Switchable /\ m \in Switchable
        /\ DiskOf[<<p, op.slot>>] = DiskOf[<<m, op.slot>>]
    BY <1>1 DEF Group
  <2>2. DiskOf[<<p, 1 - op.slot>>] = DiskOf[<<m, 1 - op.slot>>]
    BY <2>1 DEF GroupsWhole
  <2>3. s = op.slot \/ s = 1 - op.slot
    BY DEF Slots
  <2> QED  BY <2>1, <2>2, <2>3
<1> QED  BY <1>2 DEF PentryMissing, DiskA, DiskB, Slots

\* When the loop comes to a group, its pairs are as they were: exactly one of each
\* is active.
LEMMA GroupAsItWas ==
  ASSUME SteadyInv, faults = 0, pc = "group", NEW b, Even(b), NEW p \in Group(cur)
  PROVE  /\ \A s \in Slots : arr[<<p, s>>] = b[s]
         /\ AActive(p, {}) <=> b[0].active
         /\ \/ b[0].active /\ b[0].guid = "img" /\ ~b[1].active /\ b[1].guid = "alt"
            \/ b[1].active /\ b[1].guid = "img" /\ ~b[0].active /\ b[0].guid = "alt"
<1>1. p \in Switchable /\ op.name = "set_active" /\ side = "A" /\ op.slot \in Slots
      /\ DiskOf[<<p, op.slot>>] = cur /\ cur \in Disks
  BY DEF Group, SteadyInv, PendingInv, IInv, CallOK, Control
<1>2. \A s \in Slots : ~Done(p, s)
  BY <1>1 DEF Done, Updates, Disks
<1>3. \A s \in Slots : arr[<<p, s>>] = b[s]
  BY <1>1, <1>2 DEF Even
<1>4. AActive(p, {}) <=> b[0].active
  BY <1>3 DEF AActive, Slots
<1>5. PICK a \in Slots : /\ b[a].active /\ b[a].guid = "img"
                         /\ ~b[1 - a].active /\ b[1 - a].guid = "alt"
  BY DEF Even, Settled
<1>6. a = 0 \/ a = 1
  BY DEF Slots
<1> QED  BY <1>3, <1>4, <1>5, <1>6

LEMMA GroupStepsSteady ==
  ASSUME GroupsWhole, SteadyInv, faults = 0, faults' = 0,
         GroupEmpty \/ GroupAborts \/ GroupPrepared
  PROVE  Steady'
<1>1. PICK b : Even(b)
  BY DEF SteadyInv, Steady
<1>2. pc = "group" /\ op.name = "set_active" /\ op.slot \in Slots /\ cur \in Disks
      /\ side = "A" /\ arr' = arr
  BY DEF GroupEmpty, GroupAborts, GroupPrepared, SteadyInv, PendingInv, IInv, CallOK, Control,
     disk
<1>3. CASE GroupEmpty
  <2>1. Group(cur) = {}
    <3>1. IsFiniteSet(Group(cur)) /\ (Cardinality(Group(cur)) = 0 => Group(cur) = {})
          /\ Cardinality(Group(cur)) \in Nat
      BY GroupFacts, PartsCount
    <3> QED  BY <1>3, <3>1 DEF GroupEmpty, Spend
  <2>2. \A p \in Switchable : DiskOf[<<p, op.slot>>] # cur
    BY <1>2, <2>1, GroupCursor
  <2>3. ASSUME NEW p \in Switchable, NEW s \in Slots
        PROVE  Done(p, s) <=> DiskOf[<<p, op.slot>>] <= cur
    BY <1>2, <2>2, PairTypes DEF Done, Updates, Disks
  <2>4. NextGroup
    BY <1>3 DEF GroupEmpty
  <2> QED  BY <1>1, <1>2, <2>3, <2>4, NextGroupSteady DEF Even
<1>4. ~GroupAborts
  <2> SUFFICES ASSUME GroupAborts PROVE FALSE
    OBVIOUS
  <2>1. Group(cur) # {} /\ (PentryMissing(Group(cur)) \/ BothInactive(Group(cur), {}))
    BY DEF GroupAborts, Fault, Spend
  <2>2. PICK p \in Group(cur) : ~AActive(p, {}) /\ ~arr[<<p, 1>>].active
    BY <1>2, <2>1, NoPentryMissing DEF BothInactive
  <2> QED  BY <1>1, <1>2, <2>2, GroupAsItWas DEF Slots
<1>5. CASE GroupPrepared
  <2> DEFINE G == Group(cur)
  <2>1. /\ missed' = missed
        /\ h' = [A |-> gpt_disk_get_disk_info(DiskA(G), Switched(G, 0, {})),
                 B |-> gpt_disk_get_disk_info(DiskB(G), Switched(G, 1, {}))]
    <3>1. PICK M \in SUBSET G, unread \in SUBSET G :
            /\ Spend(Cardinality(M) + Cardinality(unread))
            /\ missed' = missed \cup M
            /\ h' = [A |-> gpt_disk_get_disk_info(DiskA(G \ M), Switched(G \ M, 0, unread)),
                     B |-> gpt_disk_get_disk_info(DiskB(G \ M), Switched(G \ M, 1, unread))]
      BY <1>5 DEF GroupPrepared
    <3>2. /\ Cardinality(M) \in Nat /\ (Cardinality(M) = 0 => M = {})
          /\ Cardinality(unread) \in Nat /\ (Cardinality(unread) = 0 => unread = {})
      BY GroupFacts, PartsCount
    <3>3. Cardinality(M) + Cardinality(unread) = 0
      BY <3>1, <3>2 DEF Spend
    <3>4. M = {} /\ unread = {}
      BY <3>2, <3>3
    <3>5. G \ M = G /\ missed \cup M = missed
      BY <3>4
    <3> HIDE DEF G
    <3> QED  BY <3>1, <3>4, <3>5
  <2>2. h'["A"].mem = Switched(G, 0, {}) /\ h'["B"].mem = Switched(G, 1, {})
    BY <2>1 DEF gpt_disk_get_disk_info
  <2>3. ASSUME NEW p \in G, NEW s \in Slots
        PROVE  Switched(G, s, {})[<<p, s>>] = Final(b, s)
    <3>1. <<p, s>> \in Present /\ arr[<<p, s>>] = b[s]
      BY <1>1, <1>2, GroupFacts, GroupAsItWas
    <3>2. ActiveGuidOf(p, {}) = "img" /\ InactiveGuidOf(p, {}) = "alt"
      BY <1>1, <1>2, GroupAsItWas DEF ActiveGuidOf, InactiveGuidOf, Slots
    <3>3. CASE s = op.slot
      BY <1>2, <3>1, <3>2, <3>3 DEF Switched, UpdateSlot, Final, Fresh
    <3>4. CASE s # op.slot
      BY <1>2, <3>1, <3>2, <3>4 DEF Switched, UpdateSlot, Final
    <3> QED  BY <3>3, <3>4
  <2>4. op' = op /\ ret' = ret /\ cur' = cur /\ side' = "A" /\ pc' = "hdr"
    BY <1>5 DEF GroupPrepared
  <2>5. ret.name # "set_active"
    BY <1>2 DEF SteadyInv, Steady, Orderly
  <2>6. /\ \A p, s : Done(p, s)' <=> Done(p, s)
        /\ \A s : Final(b, s)' = Final(b, s)
        /\ Group(cur)' = G
    BY <1>2, <2>1, <2>4 DEF Done, Final, AttrBit, Group
  <2>7. Even(b)'
    BY <1>1, <1>2, <2>2, <2>3, <2>4, <2>5, <2>6 DEF Even, Settled, Slots
  <2> QED  BY <2>4, <2>5, <2>7 DEF Steady, Orderly
<1> QED  BY <1>3, <1>4, <1>5

\* Steps that leave the array and the cursor alone.
LEMMA SameEven ==
  ASSUME SteadyInv, faults = 0, arr' = arr, op' = op, cur' = cur, side' = side, ret' = ret,
         missed' = missed,
         pc' \in {"hdr", "arr"}, pc \notin {"idle", "xbl"},
         op.name = "set_active" => h' = h /\ pc \in {"hdr", "arr"}
  PROVE  Steady'
<1>1. PICK b : Even(b)
  BY DEF SteadyInv, Steady
<1>2. ret.name # "set_active"
  BY DEF SteadyInv, Steady, Orderly
<1>3. /\ \A p, s : Done(p, s)' <=> Done(p, s)
      /\ \A s : Final(b, s)' = Final(b, s)
      /\ Group(cur)' = Group(cur)
  BY DEF Done, Final, AttrBit, Group
<1>4. Even(b)'
  BY <1>1, <1>2, <1>3 DEF Even, Settled
<1> QED  BY <1>2, <1>4 DEF Steady, Orderly

LEMMA LoadStepsSteady ==
  ASSUME SteadyInv, faults = 0, faults' = 0, LoadSkips \/ Load
  PROVE  Steady'
<1>1. op.name \in Updates /\ cur \in Parts /\ op.slot \in Slots /\ pc = "load" /\ arr' = arr
  BY DEF LoadSkips, Load, SteadyInv, PendingInv, IInv, CallOK, Control, disk
<1>2. CASE Load
  BY <1>1, <1>2, SameEven DEF Load, Updates
<1>3. CASE LoadSkips
  <2>1. PICK b : Even(b)
    BY DEF SteadyInv, Steady
  <2>2. ASSUME NEW p \in Switchable, NEW s \in Slots
        PROVE  Done(p, s) <=> p <= cur /\ s = op.slot
    <3>1. p # cur /\ p \in Parts
      BY <1>3 DEF LoadSkips, Switchable, Fault, Spend
    <3> QED  BY <1>1, <3>1 DEF Done, Updates, Parts
  <2>3. NextPartition
    BY <1>3 DEF LoadSkips
  <2> QED  BY <1>1, <2>1, <2>2, <2>3, NextPartitionSteady DEF Even
<1> QED  BY <1>2, <1>3

LEMMA CommitArrayUpdate ==
  ASSUME SteadyInv, faults = 0, CommitArray, op.name # "set_active"
  PROVE  Steady'
<1>1. pc = "arr" /\ NextPartition /\ arr' = ArrayWritten(Written)
  BY DEF CommitArray, CommitReturnsZero
<1>2. op.name \in Updates /\ cur \in Parts /\ op.slot \in Slots /\ side = "A" /\ MarkHandle
  BY <1>1 DEF SteadyInv, PendingInv, Pending, IInv, CallOK, Control
<1>3. PICK b : Even(b)
  BY DEF SteadyInv, Steady
<1>4. ASSUME NEW p \in Switchable, NEW s \in Slots
      PROVE  arr'[<<p, s>>] = IF p <= cur /\ s = op.slot THEN Final(b, s) ELSE b[s]
  <2>1. <<p, s>> \in Present /\ p \in Parts
    BY PairTypes
  <2>2. CASE p = cur /\ s = op.slot
    <3>1. arr'[<<p, s>>] = [arr[<<p, s>>] EXCEPT ![AttrBit] = TRUE]
      BY <1>1, <1>2, <2>1, <2>2 DEF MarkHandle, ArrayWritten, Overwrite, Written
    <3>2. ~Done(p, s)
      BY <1>2, <2>1, <2>2 DEF Done, Updates, Parts
    <3>3. arr[<<p, s>>] = b[s]
      BY <1>3, <3>2 DEF Even
    <3> QED  BY <1>2, <2>1, <2>2, <3>1, <3>3 DEF Final, Updates, Parts
  <2>3. CASE ~(p = cur /\ s = op.slot)
    <3>1. arr'[<<p, s>>] = arr[<<p, s>>]
      BY <1>1, <1>2, <2>1, <2>3 DEF MarkHandle, ArrayWritten, Overwrite, Written
    <3>2. Done(p, s) <=> p <= cur /\ s = op.slot
      BY <1>2, <2>1, <2>3 DEF Done, Updates, Parts
    <3> QED  BY <1>3, <3>1, <3>2 DEF Even
  <2> QED  BY <2>2, <2>3
<1> QED  BY <1>1, <1>2, <1>3, <1>4, NextPartitionSteady DEF Even

\* The commit of one disk brings the entries of its group to their final bits.
LEMMA CommitGroup ==
  ASSUME SteadyInv, pc = "arr", op.name = "set_active", arr' = ArrayWritten(Written),
         NEW b, Even(b), NEW p \in Switchable, NEW s \in Slots
  PROVE  LET t == IF side = "A" THEN 0 ELSE 1
         IN  arr'[<<p, s>>] = IF p \in Group(cur) /\ s = t THEN Final(b, s) ELSE arr[<<p, s>>]
<1> DEFINE t == IF side = "A" THEN 0 ELSE 1
<1>1. side \in {"A", "B"} /\ GroupHandle(side, t)
  BY DEF SteadyInv, PendingInv, Pending, IInv, CallOK
<1>2. <<p, s>> \in Present
  BY PairTypes
<1>3. arr'[<<p, s>>] = IF <<p, s>> \in OnDisk(h[side].disk) THEN h[side].mem[<<p, s>>]
                       ELSE arr[<<p, s>>]
  BY <1>2 DEF ArrayWritten, Overwrite, Written
<1>4. CASE p \in Group(cur) /\ s = t
  <2>1. <<p, s>> \in OnDisk(h[side].disk)
    BY <1>1, <1>2, <1>4 DEF GroupHandle, OnDisk
  <2>2. h[side].mem[<<p, s>>] = Final(b, s)
    BY <1>1, <1>4 DEF Even
  <2> QED  BY <1>3, <1>4, <2>1, <2>2
<1>5. CASE ~(p \in Group(cur) /\ s = t)
  <2>1. <<p, s>> \in OnDisk(h[side].disk) => h[side].mem[<<p, s>>] = arr[<<p, s>>]
    BY <1>1, <1>5 DEF GroupHandle
  <2> QED  BY <1>3, <1>5, <2>1
<1> QED  BY <1>4, <1>5

LEMMA CommitArraySwitch ==
  ASSUME SteadyInv, faults = 0, CommitArray, op.name = "set_active"
  PROVE  Steady'
<1>1. pc = "arr" /\ CommitReturnsZero /\ arr' = ArrayWritten(Written)
  BY DEF CommitArray
<1>2. cur \in Disks /\ op.slot \in Slots /\ side \in {"A", "B"} /\ ret.name # "set_active"
  BY <1>1 DEF SteadyInv, PendingInv, IInv, CallOK, Control, Updates, Steady, Orderly
<1>3. PICK b : Even(b)
  BY DEF SteadyInv, Steady
<1>4. \A p \in Switchable : /\ DiskOf[<<p, op.slot>>] \in Disks
                            /\ p \in Group(cur) <=> DiskOf[<<p, op.slot>>] = cur
  BY <1>2, GroupCursor
<1>5. CASE side = "A"
  <2>1. /\ op' = op /\ ret' = ret /\ cur' = cur /\ side' = "B" /\ pc' = "hdr"
        /\ h' = [h EXCEPT !["A"] = gpt_disk_free(h["A"])]
    BY <1>1, <1>5 DEF CommitReturnsZero
  <2>2. h'["B"] = h["B"]
    BY <2>1 DEF SteadyInv, PendingInv, IInv, CallOK
  <2>3. \A s : Final(b, s)' = Final(b, s)
    BY <2>1 DEF Final, AttrBit
  <2>4. Group(cur)' = Group(cur)
    BY <2>1 DEF CommitArray, Group
  <2>5. ASSUME NEW p \in Switchable, NEW s \in Slots
        PROVE  arr'[<<p, s>>] = IF Done(p, s)' THEN Final(b, s) ELSE b[s]
    <3>1. arr'[<<p, s>>] = IF p \in Group(cur) /\ s = 0 THEN Final(b, s) ELSE arr[<<p, s>>]
      BY <1>1, <1>3, <1>5, CommitGroup
    <3>2. Done(p, s)' <=> Done(p, s) \/ (p \in Group(cur) /\ s = 0)
      BY <1>2, <1>4, <1>5, <2>1 DEF Done, Updates, Disks
    <3> QED  BY <1>3, <3>1, <3>2 DEF Even
  <2>6. \A p \in Group(cur) : h["B"].mem[<<p, 1>>] = Final(b, 1)
    BY <1>1, <1>3 DEF Even
  <2>7. Even(b)'
    BY <1>2, <1>3, <2>1, <2>2, <2>3, <2>4, <2>5, <2>6 DEF Even, Settled
  <2> QED  BY <1>2, <2>1, <2>7 DEF Steady, Orderly
<1>6. CASE side = "B"
  <2>1. NextGroup
    BY <1>1, <1>6 DEF CommitReturnsZero
  <2>2. ASSUME NEW p \in Switchable, NEW s \in Slots
        PROVE  arr'[<<p, s>>] = IF DiskOf[<<p, op.slot>>] <= cur THEN Final(b, s) ELSE b[s]
    <3>1. arr'[<<p, s>>] = IF p \in Group(cur) /\ s = 1 THEN Final(b, s) ELSE arr[<<p, s>>]
      BY <1>1, <1>3, <1>6, CommitGroup
    <3>2. (Done(p, s) \/ (p \in Group(cur) /\ s = 1)) <=> DiskOf[<<p, op.slot>>] <= cur
      BY <1>2, <1>4, <1>6 DEF Done, Updates, Disks, Slots
    <3> QED  BY <1>3, <3>1, <3>2 DEF Even
  <2> QED  BY <1>1, <1>2, <1>3, <2>1, <2>2, NextGroupSteady DEF Even
<1> QED  BY <1>2, <1>5, <1>6

LEMMA CallsSteady ==
  ASSUME SteadyInv, faults = 0, Calls
  PROVE  Steady'
<1>1. pc = "idle" /\ arr' = arr
  BY QuietCalls DEF disk
<1>2. CASE MarkBootSuccessful
  <2>1. PICK n : Start("mark_successful", get_current_slot(n), "load")
    BY <1>2 DEF MarkBootSuccessful
  <2>2. get_current_slot(n) \in Slots
    BY CurrentSlot DEF SteadyInv, PendingInv, IInv
  <2> QED  BY <1>1, <2>1, <2>2, StartSteady DEF Updates
<1>3. CASE GetCurrentSlot
  <2>1. PICK rc : Return("get_current", NoSlot, rc)
    BY <1>3 DEF GetCurrentSlot, Answer
  <2> QED  BY <1>1, <2>1, QuickReturnSteady
<1>4. ASSUME NEW slot \in Arguments, SetActiveBootSlot(slot) PROVE Steady'
  <2>1. \/ /\ boot_control_check_slot_sanity(slot, get_number_slots(FALSE))
           /\ Start("set_active", slot, "group")
        \/ Return("set_active", slot, -1)
    BY <1>4 DEF SetActiveBootSlot, Answer
  <2>2. CASE /\ boot_control_check_slot_sanity(slot, get_number_slots(FALSE))
             /\ Start("set_active", slot, "group")
    <3>1. slot \in Slots
      BY <2>2, SaneSlot
    <3> QED  BY <1>1, <2>2, <3>1, StartSteady
  <2>3. CASE Return("set_active", slot, -1)
    BY <1>1, <2>3, QuickReturnSteady
  <2> QED  BY <2>1, <2>2, <2>3
<1>5. ASSUME NEW slot \in Arguments, SetSlotAsUnbootable(slot) PROVE Steady'
  <2>1. PICK k \in BOOLEAN :
          IF boot_control_check_slot_sanity(slot, get_number_slots(k))
          THEN Start("set_unbootable", slot, "load") ELSE Return("set_unbootable", slot, -1)
    BY <1>5 DEF SetSlotAsUnbootable
  <2> QED  BY <1>1, <2>1, SaneSlot, StartSteady, QuickReturnSteady DEF Updates
<1>6. ASSUME NEW slot, IsSlotBootable(slot) \/ IsSlotMarkedSuccessful(slot) \/ GetSuffix(slot)
      PROVE  Steady'
  <2>1. \E rc : \E name \in {"is_bootable", "is_successful", "get_suffix"} :
          Return(name, slot, rc)
    BY <1>6 DEF IsSlotBootable, IsSlotMarkedSuccessful, GetSuffix, Answer
  <2> QED  BY <1>1, <2>1, QuickReturnSteady
<1> QED  BY <1>2, <1>3, <1>4, <1>5, <1>6 DEF Calls

LEMMA NextSteady ==
  ASSUME GroupsWhole, SteadyInv, [Next]_vars
  PROVE  Steady'
<1> SUFFICES ASSUME faults' = 0 PROVE Steady'
  BY DEF Steady
<1>1. faults = 0 /\ (Next => ~FaultyStep)
  BY ZeroFaults DEF SteadyInv, PendingInv
<1>2. Orderly
  BY <1>1 DEF SteadyInv, Steady
<1>3. CASE Calls
  BY <1>1, <1>3, CallsSteady
<1>4. CASE GroupEmpty \/ GroupAborts \/ GroupPrepared
  BY <1>1, <1>4, GroupStepsSteady
<1>5. CASE LoadSkips \/ Load
  BY <1>1, <1>5, LoadStepsSteady
<1>6. CASE CommitHeader
  BY <1>1, <1>6, SameEven DEF CommitHeader, call
<1>7. CASE CommitArray
  BY <1>1, <1>7, CommitArraySwitch, CommitArrayUpdate
<1>8. CASE SwitchXbl \/ SwitchXblFails
  <2>1. PICK rc : /\ pc = "xbl" /\ arr' = arr /\ Return("set_active", op.slot, rc)
                  /\ rc = 0 /\ IsUfs => bootLun' = op.slot
    BY <1>8 DEF SwitchXbl, SwitchXblFails
  <2> QED  BY <1>1, <2>1, SwitchReturnSteady
<1>9. CASE Reboot
  BY <1>1, <1>9, QuickReturnSteady DEF Reboot, Answer
<1>10. CASE AfterDoubleFree \/ ProcessAborts
  BY <1>2, <1>10 DEF AfterDoubleFree, ProcessAborts, Orderly
<1>11. CASE UNCHANGED vars
  <2>1. PICK b : Even(b)
    BY <1>1 DEF SteadyInv, Steady
  <2>2. UNCHANGED vars
    BY <1>11
  <2>3. /\ \A p, s : Done(p, s)' <=> Done(p, s)
        /\ \A s : Final(b, s)' = Final(b, s)
        /\ Group(cur)' = Group(cur)
    BY <2>2 DEF vars, Done, Final, AttrBit, Group
  <2>4. Even(b)'
    BY <2>1, <2>2, <2>3 DEF vars, Even, Settled
  <2> QED  BY <1>2, <2>2, <2>4 DEF vars, Steady, Orderly
<1> QED  BY <1>1, <1>3, <1>4, <1>5, <1>6, <1>7, <1>8, <1>9, <1>10, <1>11
         DEF Next, Steps, FaultyStep

LEMMA InitSteady ==
  ASSUME Init
  PROVE  Steady
<1>1. PICK a \in Slots : arr = Factory(a)
  BY DEF Init
<1> DEFINE b == [s \in Slots |-> [guid |-> IF s = a THEN "img" ELSE "alt", active |-> s = a,
                                  succ |-> FALSE, unb |-> FALSE]]
<1>2. Settled(b)
  <2>1. b \in [Slots -> Entry]
    BY DEF Entry
  <2>2. 1 - a \in Slots /\ 1 - a # a
    BY DEF Slots
  <2>3. b[a].active /\ b[a].guid = "img" /\ ~b[1 - a].active /\ b[1 - a].guid = "alt"
    BY <2>2
  <2> HIDE DEF b
  <2> QED  BY <2>1, <2>3 DEF Settled
<1>3. ASSUME NEW p \in Switchable, NEW s \in Slots PROVE arr[<<p, s>>] = b[s] /\ ~Done(p, s)
  <2>1. <<p, s>> \in Present
    BY PairTypes
  <2> QED  BY <1>1, <2>1, NothingDone DEF Init, NoCall, Factory
<1> HIDE DEF b
<1>4. Even(b)
  BY <1>2, <1>3 DEF Init, Even, NoRet
<1> QED  BY <1>4 DEF Init, Steady, Orderly, NoCall, NoRet

LEMMA SteadyInvariant ==
  ASSUME SlotsApart, GroupsWhole
  PROVE  Spec => []SteadyInv
<1>1. Init => Steady
  BY InitSteady
<1>2. PendingInv /\ Steady /\ Found /\ [Next]_vars => Steady'
  BY NextSteady DEF SteadyInv
<1>3. Init => Found
  BY DEF Init, Found
<1>4. PendingInv /\ Found /\ [Next]_vars => Found'
  BY ZeroFaults, FaultsGrow DEF PendingInv, Found
<1> QED  BY <1>1, <1>2, <1>3, <1>4, PendingInvariant, PTL DEF Spec, SteadyInv

\* Between two calls, and as long as nothing failed, boot speaks for its slot: all
\* pairs that a switch covers have the same A/B bits, after any sequence of calls.
THEOREM BootSpeaksForSlotHolds ==
  ASSUME SlotsApart, GroupsWhole
  PROVE  Spec => []BootSpeaksForSlot
<1>1. SteadyInv => BootSpeaksForSlot
  BY EvenAtRest DEF SteadyInv, Steady, BootSpeaksForSlot
<1> QED  BY <1>1, SteadyInvariant, PTL

\* A switch that met no failure and returned 0 has switched every pair of every
\* disk, left both tables of the pair valid and taken the boot LUN along.
THEOREM SwitchedAllHolds ==
  ASSUME SlotsApart, GroupsWhole
  PROVE  Spec => []SwitchedAll
<1>1. SteadyInv /\ InvalidOnlyInWindow => SwitchedAll
  <2> SUFFICES ASSUME SteadyInv, InvalidOnlyInWindow, ret.name = "set_active", ret.rc = 0,
                      faults = 0
               PROVE  /\ \A p \in Switchable :
                           /\ SwitchedTo(p, ret.slot)
                           /\ \A s \in Slots : TableValid(DiskOf[<<p, s>>])
                      /\ IsUfs => bootLun = ret.slot
    BY DEF SwitchedAll
  <2>1. PICK b : Even(b)
    BY DEF SteadyInv, Steady
  <2>2. pc = "idle" /\ ret.slot \in Slots /\ b[ret.slot] = Fresh /\ Orderly
        /\ (IsUfs => bootLun = ret.slot)
    BY <2>1 DEF Even, SteadyInv, Steady
  <2>3. ASSUME NEW p \in Switchable PROVE SwitchedTo(p, ret.slot)
    <3>1. \A s \in Slots : arr[<<p, s>>] = b[s]
      BY <2>1, <2>2, EvenAtRest
    <3>2. PICK a \in Slots : /\ b[a].active /\ b[a].guid = "img"
                             /\ ~b[1 - a].active /\ b[1 - a].guid = "alt"
      BY <2>1 DEF Even, Settled
    <3>3. a = ret.slot
      BY <2>2, <3>2 DEF Fresh, Slots
    <3>4. 1 - ret.slot \in Slots
      BY <2>2 DEF Slots
    <3> QED  BY <2>2, <3>1, <3>2, <3>3, <3>4 DEF SwitchedTo, Fresh
  <2>4. ASSUME NEW p \in Switchable, NEW s \in Slots PROVE TableValid(DiskOf[<<p, s>>])
    BY <2>2, PairTypes DEF InvalidOnlyInWindow
  <2> QED  BY <2>2, <2>3, <2>4
<1> QED  BY <1>1, SteadyInvariant, InvalidOnlyInWindowHolds, PTL

-----------------------------------------------------------------------------
(* What a call reported and what the next one reads. *)

\* Only the two queries return under their names.
LEMMA OnlyQueries ==
  ASSUME IInv, [Next]_vars, ret' # ret, ret'.name \in {"is_bootable", "is_successful"}
  PROVE  \E slot \in Arguments : IsSlotBootable(slot) \/ IsSlotMarkedSuccessful(slot)
<1>1. ASSUME NEW name, NEW slot, NEW rc, Return(name, slot, rc)
      PROVE  name \in {"is_bootable", "is_successful"}
  BY <1>1 DEF Return
<1>2. ASSUME NEW name, NEW slot, NEW where PROVE ~Start(name, slot, where)
  BY DEF Start, NoRet
<1>3. CASE Calls
  <2>1. ASSUME NEW slot, SetActiveBootSlot(slot) PROVE FALSE
    <3>1. \/ Start("set_active", slot, "group")
          \/ Return("set_active", slot, -1)
      BY <2>1 DEF SetActiveBootSlot, Answer
    <3> QED  BY <1>1, <1>2, <3>1
  <2> QED  BY <1>1, <1>2, <1>3, <2>1 DEF Calls, MarkBootSuccessful, GetCurrentSlot,
              SetSlotAsUnbootable, GetSuffix, Answer
<1>4. ~(Steps \/ Crash \/ Reboot)
  <2>1. ASSUME op.name \in Updates
        PROVE  ~NextPartition /\ \A rc : ~Return(op.name, op.slot, rc)
    BY <1>1, <2>1 DEF NextPartition, Updates
  <2>2. ~NextGroup
    BY DEF NextGroup
  <2>3. /\ pc \in {"hdr", "arr"} => ~CommitReturnsError /\ ~CommitReturnsZero
        /\ pc = "load" => op.name \in Updates
    BY <2>1, <2>2 DEF IInv, CallOK, Control, CommitReturnsError, CommitReturnsZero
  <2>4. ~Return("set_active", op.slot, 0) /\ ~Return("set_active", op.slot, -1)
        /\ ~Return("none", NoSlot, 0)
    BY <1>1
  <2> QED
    BY <2>1, <2>2, <2>3, <2>4 DEF Steps, GroupEmpty, GroupAborts, GroupPrepared, SwitchXbl,
       SwitchXblFails, LoadSkips, Load, LoadFails, CommitHeader, CommitHeaderFails,
       CommitArray, CommitArrayFails, CommitArrayShort, AfterDoubleFree, ProcessAborts,
       Crash, Reboot, Answer
<1> QED  BY <1>3, <1>4 DEF Next, vars

\* What the queries return is the bit of boot, or an error.
LEMMA QueryReads ==
  ASSUME IInv, NEW slot \in Arguments, <<BootPart, slot>> \in Present,
         IsSlotBootable(slot) \/ IsSlotMarkedSuccessful(slot)
  PROVE  /\ ret'.slot = slot
         /\ ret'.name = "is_bootable" => ret'.rc \in {-1, IF arr[<<BootPart, slot>>].unb THEN 0 ELSE 1}
         /\ ret'.name = "is_successful" =>
              ret'.rc \in {-1, IF arr[<<BootPart, slot>>].succ THEN 1 ELSE 0}
<1> DEFINE e == <<BootPart, slot>>
<1>1. CASE IsSlotBootable(slot)
  <2>1. PICK n \in BOOLEAN, u \in BOOLEAN :
          Return("is_bootable", slot,
                 IF \/ ~boot_control_check_slot_sanity(slot, get_number_slots(n))
                    \/ get_partition_attribute(e, "unb", u) < 0
                 THEN -1 ELSE 1 - get_partition_attribute(e, "unb", u))
    BY <1>1 DEF IsSlotBootable, Answer
  <2>2. get_partition_attribute(e, "unb", u) = -1
        \/ get_partition_attribute(e, "unb", u) = IF arr[e].unb THEN 1 ELSE 0
    BY DEF get_partition_attribute
  <2>3. (1 - 1 = 0) /\ (1 - 0 = 1) /\ (-1 < 0)
    OBVIOUS
  <2>4. ret'.slot = slot /\ ret'.name = "is_bootable"
        /\ ret'.rc = IF \/ ~boot_control_check_slot_sanity(slot, get_number_slots(n))
                        \/ get_partition_attribute(e, "unb", u) < 0
                     THEN -1 ELSE 1 - get_partition_attribute(e, "unb", u)
    BY <2>1 DEF Return
  <2> QED  BY <2>2, <2>3, <2>4
<1>2. CASE IsSlotMarkedSuccessful(slot)
  <2>1. PICK n \in BOOLEAN, u \in BOOLEAN :
          Return("is_successful", slot,
                 IF ~boot_control_check_slot_sanity(slot, get_number_slots(n))
                 THEN -1 ELSE get_partition_attribute(e, "succ", u))
    BY <1>2 DEF IsSlotMarkedSuccessful, Answer
  <2>2. get_partition_attribute(e, "succ", u) = -1
        \/ get_partition_attribute(e, "succ", u) = IF arr[e].succ THEN 1 ELSE 0
    BY DEF get_partition_attribute
  <2>3. ret'.slot = slot /\ ret'.name = "is_successful"
        /\ ret'.rc = IF ~boot_control_check_slot_sanity(slot, get_number_slots(n))
                     THEN -1 ELSE get_partition_attribute(e, "succ", u)
    BY <2>1 DEF Return
  <2> QED  BY <2>2, <2>3
<1> QED  BY <1>1, <1>2

LEMMA ReadStep ==
  ASSUME BootPart # XblPart, IInv, MarkDurable, SwitchedAll, [Next]_vars,
         ret.rc = 0, ret'.slot = ret.slot, Paired(BootPart), BootPart \notin missed
  PROVE  ReadsBack(ret.slot)
<1>1. CASE ret' = ret \/ ret'.name \notin {"is_bootable", "is_successful"}
  BY <1>1 DEF ReadsBack
<1>2. CASE ret' # ret /\ ret'.name \in {"is_bootable", "is_successful"}
  <2>1. PICK slot \in Arguments : IsSlotBootable(slot) \/ IsSlotMarkedSuccessful(slot)
    BY <1>2, OnlyQueries
  <2>2. ret'.slot = slot
    BY <2>1 DEF IsSlotBootable, IsSlotMarkedSuccessful, Answer, Return
  <2>3. slot = ret.slot /\ BootPart \in Parts
    BY <2>2, LayoutAssumption
  <2>4. CASE slot \notin Slots
    <3>1. slot = 2 /\ <<BootPart, slot>> \notin Present
      BY <2>4, LayoutAssumption DEF Arguments, Slots
    <3>2. ret'.rc = -1
      BY <2>1, <3>1 DEF IsSlotBootable, IsSlotMarkedSuccessful, get_partition_attribute,
         Answer, Return
    <3> QED  BY <3>2 DEF ReadsBack
  <2>5. CASE slot \in Slots
    <3> DEFINE e == <<BootPart, slot>>
    <3>1. e \in Present
      BY <2>5 DEF Paired, Slots
    <3>2. /\ ret'.name = "is_bootable" => ret'.rc \in {-1, IF arr[e].unb THEN 0 ELSE 1}
          /\ ret'.name = "is_successful" => ret'.rc \in {-1, IF arr[e].succ THEN 1 ELSE 0}
      BY <2>1, <3>1, QueryReads
    <3>3. ret.name = "mark_successful" => arr[e].succ
      BY <2>3 DEF MarkDurable
    <3>4. ret.name = "set_unbootable" => arr[e].unb
      BY <2>3 DEF MarkDurable
    <3>5. ASSUME ret.name = "set_active", faults' = 0 PROVE ~arr[e].unb /\ ~arr[e].succ
      <4>1. faults = 0 /\ BootPart \in Switchable
        BY <2>3, <3>5, ZeroFaults DEF Switchable
      <4>2. SwitchedTo(BootPart, ret.slot)
        BY <3>5, <4>1 DEF SwitchedAll
      <4>3. arr[e] = [guid |-> "img", active |-> TRUE, succ |-> FALSE, unb |-> FALSE]
        BY <2>3, <4>2 DEF SwitchedTo
      <4> QED  BY <4>3
    <3>6. -1 # 0 /\ -1 # 1
      OBVIOUS
    <3> QED  BY <3>2, <3>3, <3>4, <3>5, <3>6 DEF ReadsBack
  <2> QED  BY <2>4, <2>5
<1> QED  BY <1>1, <1>2

\* If write() does all it reports, what a marking call said is what the queries
\* read back, unless its lookup of boot failed and it passed boot over; and after a
\* switch that met no failure they report a slot that is bootable and not yet
\* successful.
THEOREM ReadBackHolds ==
  ASSUME SlotsApart, GroupsWhole, ~ShortWrites, BootPart # XblPart
  PROVE  Spec => ReadBack
<1> DEFINE Step == (/\ ret.rc = 0 /\ ret'.slot = ret.slot
                    /\ Paired(BootPart) /\ BootPart \notin missed) => ReadsBack(ret.slot)
<1>1. IInv /\ MarkDurable /\ SwitchedAll /\ [Next]_vars => [Step]_vars
  BY ReadStep
<1> QED  BY <1>1, InductiveInvariant, MarkDurableHolds, SwitchedAllHolds, PTL DEF Spec, ReadBack
=============================================================================
