------------------------ MODULE CameraMetadataSafety ------------------------
(***************************************************************************)
(* What the lock of CameraMetadata protects, which calls are undefined,    *)
(* what OK means, and where memory is lost, again for every value of the   *)
(* constants.  The first holds for callers without certain habits, and     *)
(* names the habits it excludes.                                           *)
(***************************************************************************)
EXTENDS CameraMetadataProofs

-----------------------------------------------------------------------------
(* A call leaves a locked object as it is. *)

\* Only the lock itself and the destructor touch an object that is locked.
LockedStays == hold' = hold /\ \A o \in Objs : obj[o].locked => obj'[o] = obj[o]

LEMMA SetBufferLeavesLocked ==
  ASSUME Inv, NEW o \in Objs, ~obj[o].locked, NEW b, NEW hp, NEW st, SetBuffer(o, b, hp, st)
  PROVE  LockedStays
  BY DEF SetBuffer, LockedStays, Inv, TypeOK

LEMMA DeclineLeavesLocked ==
  ASSUME NEW st, Decline(st)
  PROVE  LockedStays
  BY DEF Decline, LockedStays

LEMMA UndefinedLeavesLocked ==
  ASSUME NEW how, Undefined(how)
  PROVE  LockedStays
  BY DEF Undefined, LockedStays

LEMMA BeginLeavesLocked ==
  ASSUME Inv, NEW o \in Objs, NEW b, NEW hp, Begin(o, b, hp)
  PROVE  LockedStays
<1>1. ~obj[o].locked
  BY DEF Begin, Inv, DeadIsEmpty, Dead
<1> QED  BY <1>1 DEF Begin, LockedStays, Inv, TypeOK

LEMMA NextLeavesLocked ==
  ASSUME Inv, NEW o \in Objs, NextOf(o)
  PROVE  \/ LockedStays
         \/ Destroy(o)
         \/ \E c \in Holders : GetAndLock(c, o) \/ Unlock(c, o)
<1>1. ASSUME Construct(o) \/ \E b \in raw : ConstructFrom(o, b) PROVE LockedStays
  BY <1>1, BeginLeavesLocked DEF Construct, ConstructFrom
<1>2. ASSUME \/ \E caps \in Capacities : ConstructSized(o, caps)
             \/ \E p \in Objs : CopyConstruct(o, p)
      PROVE  LockedStays
  BY <1>2, BeginLeavesLocked DEF ConstructSized, CopyConstruct
<1>3. ASSUME NEW p \in Objs, AcquireFrom(o, p) PROVE LockedStays
  BY <1>3, DeclineLeavesLocked DEF AcquireFrom, LockedStays, Inv, TypeOK
<1>4. ASSUME NEW p \in Objs, Swap(o, p) PROVE LockedStays
  BY <1>4, DeclineLeavesLocked DEF Swap, Swaps, LockedStays, Inv, TypeOK
<1>5. ASSUME NEW b \in raw, AcquireRaw(o, b) PROVE LockedStays
  BY <1>5 DEF AcquireRaw, LockedStays, Inv, TypeOK
<1>6. ASSUME Release(o) PROVE LockedStays
  BY <1>6, DeclineLeavesLocked DEF Release, LockedStays, Inv, TypeOK
<1>7. ASSUME Clear(o) PROVE LockedStays
  BY <1>7, DeclineLeavesLocked, SetBufferLeavesLocked DEF Clear
<1>8. ASSUME NEW src \in Given, Assign(o, src) PROVE LockedStays
  BY <1>8, DeclineLeavesLocked, SetBufferLeavesLocked DEF Assign
<1>9. ASSUME NEW src \in Given, Append(o, src) PROVE LockedStays
  <2>1. CASE obj[o].locked \/ src = NULL
    BY <1>9, <2>1, DeclineLeavesLocked, UndefinedLeavesLocked DEF Append
  <2>2. CASE ~(obj[o].locked \/ src = NULL)
    <3>1. \/ Undefined("freed")
          \/ \E b, hp, st : SetBuffer(o, b, hp, st)
      BY <1>9, <2>2 DEF Append
    <3> QED  BY <2>2, <3>1, SetBufferLeavesLocked, UndefinedLeavesLocked
  <2> QED  BY <2>1, <2>2
<1>10. ASSUME NEW k \in Kinds, NEW src \in Given \cup {NULL}, NEW typed \in BOOLEAN,
              Update(o, k, src, typed)
       PROVE  LockedStays
  <2>1. CASE obj[o].locked \/ ~typed \/ SameBuffer(o, src)
    BY <1>10, <2>1, DeclineLeavesLocked DEF Update
  <2>2. CASE ~(obj[o].locked \/ ~typed \/ SameBuffer(o, src))
    <3>1. \/ Undefined("freed")
          \/ \E b, hp, st : SetBuffer(o, b, hp, st)
      BY <1>10, <2>2 DEF Update
    <3> QED  BY <2>2, <3>1, SetBufferLeavesLocked, UndefinedLeavesLocked
  <2> QED  BY <2>1, <2>2
<1>11. ASSUME NEW t \in Tags, Erase(o, t) PROVE LockedStays
  BY <1>11, DeclineLeavesLocked, SetBufferLeavesLocked DEF Erase
<1>12. ASSUME Sort(o) PROVE LockedStays
  BY <1>12, DeclineLeavesLocked DEF Sort
<1> QED
  BY <1>1, <1>2, <1>3, <1>4, <1>5, <1>6, <1>7, <1>8, <1>9, <1>10, <1>11, <1>12 DEF NextOf

-----------------------------------------------------------------------------
(* The pointer that was lent. *)

\* An object is lent to one holder at a time.
OneHolder == \A c, d \in Holders : c # d /\ hold[c].obj = hold[d].obj => hold[c].obj = NULL

\* What a holder was given is the buffer of an object that is still locked.
Lent ==
    \A c \in Holders : hold[c].ptr # NULL =>
        /\ hold[c].obj \in Objs
        /\ obj[hold[c].obj].buf = hold[c].ptr
        /\ obj[hold[c].obj].locked

LentInv == Inv /\ OneHolder /\ Lent

LEMMA LockedStaysKeepsLent ==
  ASSUME OneHolder, Lent, LockedStays
  PROVE  OneHolder' /\ Lent'
  BY DEF OneHolder, Lent, LockedStays

LEMMA GetAndLockKeepsLent ==
  ASSUME LentInv, NEW c \in Holders, NEW o \in Objs, GetAndLock(c, o),
         "second_lock" \notin Habits
  PROVE  OneHolder' /\ Lent'
<1>1. /\ hold' = [hold EXCEPT ![c] = [obj |-> o, ptr |-> obj[o].buf]]
      /\ obj' = [obj EXCEPT ![o].locked = TRUE]
      /\ \A d \in Holders : hold[d].obj # o
  BY DEF GetAndLock, HoldersOf
<1>2. hold'[c].obj = o /\ hold'[c].ptr = obj[o].buf
      /\ \A d \in Holders : d # c => hold'[d] = hold[d]
  BY <1>1 DEF LentInv, Inv, TypeOK
<1>3. obj'[o].locked /\ obj'[o].buf = obj[o].buf
      /\ \A p \in Objs : p # o => obj'[p] = obj[p]
  BY <1>1 DEF LentInv, Inv, TypeOK
<1>4. OneHolder'
  BY <1>1, <1>2 DEF LentInv, OneHolder
<1>5. Lent'
  BY <1>1, <1>2, <1>3 DEF LentInv, Lent
<1> QED  BY <1>4, <1>5

LEMMA UnlockKeepsLent ==
  ASSUME LentInv, NEW c \in Holders, NEW o \in Objs, Unlock(c, o)
  PROVE  OneHolder' /\ Lent'
<1>1. CASE ~Unlocks(c, o)
  BY <1>1, DeclineLeavesLocked, LockedStaysKeepsLent DEF Unlock, LentInv
<1>2. CASE Unlocks(c, o)
  <2>1. /\ obj' = [obj EXCEPT ![o].locked = FALSE]
        /\ hold' = [hold EXCEPT ![c] = NoHold]
        /\ hold[c].ptr = obj[o].buf
    BY <1>2 DEF Unlock, Unlocks
  <2>2. hold'[c] = NoHold /\ \A d \in Holders : d # c => hold'[d] = hold[d]
    BY <2>1 DEF LentInv, Inv, TypeOK
  <2>3. \A p \in Objs : p # o => obj'[p] = obj[p]
    BY <2>1 DEF LentInv, Inv, TypeOK
  <2>4. OneHolder'
    BY <2>2 DEF LentInv, OneHolder, NoHold
  <2>5. ASSUME NEW d \in Holders, d # c, hold[d].ptr # NULL PROVE hold[d].obj # o
    <3>1. SUFFICES ASSUME hold[d].obj = o PROVE FALSE
      OBVIOUS
    <3>2. hold[c].ptr # NULL /\ hold[c].ptr = obj[o].buf
      BY <2>1, <2>5, <3>1 DEF LentInv, Lent
    <3>3. hold[c].obj \in Objs /\ obj[hold[c].obj].buf = obj[o].buf
      BY <3>2 DEF LentInv, Lent
    <3>4. hold[c].obj = o
      BY <3>2, <3>3 DEF LentInv, Inv, OneOwner
    <3> QED  BY <2>5, <3>1, <3>4, MetadataAssumption DEF LentInv, OneHolder
  <2>6. Lent'
    BY <2>2, <2>3, <2>5 DEF LentInv, Lent, NoHold
  <2> QED  BY <2>4, <2>6
<1> QED  BY <1>1, <1>2

LEMMA DestroyKeepsLent ==
  ASSUME LentInv, NEW o \in Objs, Destroy(o), "destroy_locked" \notin Habits
  PROVE  OneHolder' /\ Lent'
<1>1. hold' = hold /\ \A c \in Holders : hold[c].obj # o
  BY DEF Destroy, HoldersOf
<1>2. \A p \in Objs : p # o => obj'[p] = obj[p]
  BY DEF Destroy, LentInv, Inv, TypeOK
<1> QED  BY <1>1, <1>2 DEF LentInv, OneHolder, Lent

\* For callers that lock an object once at a time and do not destroy one that
\* they lent, the pointer of getAndLock stays valid until it is given back,
\* whatever else is called on this object and on others.
THEOREM LentPointerHolds ==
  ASSUME "second_lock" \notin Habits, "destroy_locked" \notin Habits
  PROVE  Spec => []LentPointerValid
<1>1. Init => LentInv
  BY InvInit DEF Init, LentInv, OneHolder, Lent, NoHold
<1>2. LentInv /\ [Next]_vars => LentInv'
  <2> SUFFICES ASSUME LentInv, [Next]_vars PROVE OneHolder' /\ Lent'
    BY InvNext DEF LentInv
  <2>1. CASE UNCHANGED vars
    BY <2>1, LockedStaysKeepsLent DEF vars, LentInv, LockedStays
  <2>2. ASSUME NEW o \in Objs, NextOf(o) PROVE OneHolder' /\ Lent'
    BY <2>2, NextLeavesLocked, LockedStaysKeepsLent, GetAndLockKeepsLent, UnlockKeepsLent,
       DestroyKeepsLent DEF LentInv
  <2>3. ASSUME NEW b \in raw, FreeRaw(b) PROVE OneHolder' /\ Lent'
    BY <2>3, LockedStaysKeepsLent DEF FreeRaw, LockedStays, LentInv
  <2> QED  BY <2>1, <2>2, <2>3 DEF Next
<1>3. LentInv => LentPointerValid
  BY DEF LentInv, Inv, OneOwner, Lent, LentPointerValid
<1> QED  BY <1>1, <1>2, <1>3, PTL DEF Spec

-----------------------------------------------------------------------------
(* Contents of the outcomes. *)

LEMMA SumOfBags ==
  ASSUME NEW dst \in Buffer, NEW src \in Buffer,
         Room(dst, src.entryCount, src.dataCount)
  PROVE  /\ append_camera_metadata(dst, src).has = [k \in Kinds |-> dst.has[k] + src.has[k]]
         /\ append_camera_metadata(dst, src).entryCount = dst.entryCount + src.entryCount
         /\ append_camera_metadata(dst, src).dataCount = dst.dataCount + src.dataCount
         /\ append_camera_metadata(dst, src).entryCap = dst.entryCap
         /\ append_camera_metadata(dst, src).dataCap = dst.dataCap
<1> DEFINE sum == [k \in Kinds |-> dst.has[k] + src.has[k]]
           n == dst.entryCount + src.entryCount
           m == dst.dataCount + src.dataCount
<1>1. append_camera_metadata(dst, src) =
        [dst EXCEPT !.has = sum, !.entryCount = n, !.dataCount = m]
  BY DEF append_camera_metadata, Buffer
<1> HIDE DEF sum, n, m
<1>2. /\ append_camera_metadata(dst, src).has = sum
      /\ append_camera_metadata(dst, src).entryCount = n
      /\ append_camera_metadata(dst, src).dataCount = m
      /\ append_camera_metadata(dst, src).entryCap = dst.entryCap
      /\ append_camera_metadata(dst, src).dataCap = dst.dataCap
  BY <1>1 DEF Buffer
<1> QED  BY <1>2 DEF sum, n, m

\* A fresh buffer with room for them takes the entries of another as they are.
LEMMA CopyOfBuffer ==
  ASSUME NEW e \in Nat, NEW d \in Nat, NEW src \in Buffer,
         src.entryCount <= e, src.dataCount <= d
  PROVE  LET copy == append_camera_metadata(allocate_camera_metadata(e, d), src)
         IN  /\ copy.has = src.has
             /\ copy.entryCount = src.entryCount /\ copy.dataCount = src.dataCount
             /\ copy.entryCap = e /\ copy.dataCap = d
<1> DEFINE new == allocate_camera_metadata(e, d)
<1>1. new \in Buffer
  BY AllocateType
<1>2. /\ new.has = EmptyBag /\ new.entryCount = 0 /\ new.dataCount = 0
      /\ new.entryCap = e /\ new.dataCap = d
  BY DEF allocate_camera_metadata
<1>3. src.entryCount \in Nat /\ src.dataCount \in Nat /\ src.has \in [Kinds -> Nat]
  BY DEF Buffer, Bag
<1>4. Room(new, src.entryCount, src.dataCount)
  BY <1>2, <1>3 DEF Room
<1> HIDE DEF new
<1>5. [k \in Kinds |-> new.has[k] + src.has[k]] = src.has
  BY <1>2, <1>3 DEF EmptyBag
<1>6. 0 + src.entryCount = src.entryCount /\ 0 + src.dataCount = src.dataCount
  BY <1>3
<1> QED  BY <1>1, <1>2, <1>4, <1>5, <1>6, SumOfBags DEF new

\* A clone is missing only for want of memory, and holds what its source does.
LEMMA ClonedContents ==
  ASSUME TypeOK, NEW src \in Pointers, NEW c \in Cloned(src)
  PROVE  /\ c.buf = NULL => src = NULL \/ AllocFails
         /\ c.buf # NULL => c.heap[c.buf].has = Contents(src)
<1>1. CASE src = NULL
  BY <1>1 DEF Cloned
<1>2. CASE src # NULL
  <2> DEFINE copy == append_camera_metadata(
                 allocate_camera_metadata(heap[src].entryCount, heap[src].dataCount),
                 heap[src])
  <2>1. heap[src] \in Buffer /\ heap[src].entryCount \in Nat /\ heap[src].dataCount \in Nat
    BY <1>2 DEF TypeOK, Buffer, Pointers
  <2>2. copy.has = heap[src].has
    BY <2>1, CopyOfBuffer
  <2>3. PICK a \in Allocation :
          c = [buf |-> a, heap |-> IF a = NULL THEN heap ELSE [heap EXCEPT ![a] = copy]]
    BY <1>2 DEF Cloned
  <2> HIDE DEF copy
  <2>4. a # NULL => a \in Bufs
    BY DEF Allocation
  <2> QED  BY <1>2, <2>2, <2>3, <2>4, MetadataAssumption DEF Allocation, TypeOK, Contents
<1> QED  BY <1>1, <1>2

\* After resizeIfNeeded either there is no buffer, for want of memory, or there is
\* one with the old contents and the room that was asked for.
LEMMA ResizedContents ==
  ASSUME TypeOK, NEW b \in Pointers, b # NULL => heap[b].live,
         NEW e \in Nat, NEW d \in Nat, NEW r \in resizeIfNeeded(b, e, d)
  PROVE  /\ r.buf = NULL => AllocFails
         /\ r.buf # NULL => r.heap[r.buf].has = Contents(b) /\ Room(r.heap[r.buf], e, d)
<1> USE MetadataAssumption DEF Pointers
<1>1. CASE b = NULL
  <2> DEFINE new == allocate_camera_metadata(2 * e, 2 * d)
  <2>1. PICK a \in Allocation :
          r = [buf |-> a, heap |-> IF a = NULL THEN heap ELSE [heap EXCEPT ![a] = new]]
    BY <1>1 DEF resizeIfNeeded
  <2>2. new.has = EmptyBag /\ Room(new, e, d)
    BY DEF allocate_camera_metadata, Room
  <2> HIDE DEF new
  <2> QED  BY <1>1, <2>1, <2>2 DEF Allocation, TypeOK, Contents
<1>2. CASE b # NULL
  <2> DEFINE ee == Grown(heap[b].entryCount, e, heap[b].entryCap)
             dd == Grown(heap[b].dataCount, d, heap[b].dataCap)
             n == heap[b].entryCount
             m == heap[b].dataCount
  <2>1. heap[b] \in Buffer /\ n \in Nat /\ m \in Nat
        /\ heap[b].entryCap \in Nat /\ heap[b].dataCap \in Nat
    BY <1>2 DEF TypeOK, Buffer
  <2>2. ee \in Nat /\ dd \in Nat /\ n + e <= ee /\ m + d <= dd
    BY <2>1, GrownType
  <2>3. CASE ee <= heap[b].entryCap /\ dd <= heap[b].dataCap
    <3>1. r = [buf |-> b, heap |-> heap]
      BY <1>2, <2>3 DEF resizeIfNeeded
    <3> HIDE DEF ee, dd
    <3>2. n + e <= heap[b].entryCap /\ m + d <= heap[b].dataCap
      BY <2>1, <2>2, <2>3
    <3> QED  BY <1>2, <3>1, <3>2 DEF Contents, Room
  <2>4. CASE ~(ee <= heap[b].entryCap /\ dd <= heap[b].dataCap)
    <3>1. PICK a \in Allocation :
            r = [buf |-> a, heap |-> IF a = NULL THEN Leaked(heap, b) ELSE
                   Freed([heap EXCEPT ![a] = Regrown(b, ee, dd)], b)]
      BY <1>2, <2>4 DEF resizeIfNeeded
    <3> HIDE DEF ee, dd
    <3>2. n <= ee /\ m <= dd
      BY <2>1, <2>2
    <3>3. /\ Regrown(b, ee, dd).has = heap[b].has
          /\ Regrown(b, ee, dd).entryCount = n /\ Regrown(b, ee, dd).dataCount = m
          /\ Regrown(b, ee, dd).entryCap = ee /\ Regrown(b, ee, dd).dataCap = dd
      BY <2>1, <2>2, <3>2, CopyOfBuffer DEF Regrown
    <3>4. Room(Regrown(b, ee, dd), e, d)
      BY <2>2, <3>3 DEF Room
    <3>5. a # NULL => a \in Bufs /\ a # b /\ r.heap[a] = Regrown(b, ee, dd)
      BY <1>2, <3>1 DEF Allocation, Freed, TypeOK
    <3> QED  BY <1>2, <3>1, <3>3, <3>4, <3>5 DEF Allocation, Contents
  <2> QED  BY <2>3, <2>4
<1> QED  BY <1>1, <1>2

\* With room for the new entry, the old one is replaced or the new one added.
LEMMA WrittenContents ==
  ASSUME NEW nb \in Bufs, NEW hp \in Heaps, NEW k \in Kinds,
         Room(hp[nb], 1, k[2]), NEW w \in Written(nb, hp, k)
  PROVE  /\ w.status = "ok"
         /\ \/ /\ Found(hp[nb], k[1]) = {}
               /\ w.heap[nb].has = [hp[nb].has EXCEPT ![k] = @ + 1]
            \/ \E old \in Found(hp[nb], k[1]) :
                 w.heap[nb].has = [[hp[nb].has EXCEPT ![old] = @ - 1] EXCEPT ![k] = @ + 1]
<1>1. hp[nb] \in Buffer /\ k[2] \in Nat
  BY MetadataAssumption DEF Heaps, Kinds
<1>2. ASSUME NEW rest \in Buffer, Room(rest, 1, k[2]), w = Stored(nb, hp, rest, k)
      PROVE  w.status = "ok" /\ w.heap[nb].has = [rest.has EXCEPT ![k] = @ + 1]
  <2>1. w = [status |-> "ok", heap |-> [hp EXCEPT ![nb] = Insert(rest, k)]]
    BY <1>2 DEF Stored
  <2>2. Insert(rest, k).has = [rest.has EXCEPT ![k] = @ + 1]
    <3> DEFINE more == [rest.has EXCEPT ![k] = @ + 1]
               n == rest.entryCount + 1
               m == rest.dataCount + k[2]
    <3>1. Insert(rest, k) = [rest EXCEPT !.has = more, !.entryCount = n, !.dataCount = m]
      BY DEF Insert, Buffer
    <3> HIDE DEF more, n, m
    <3>2. Insert(rest, k).has = more
      BY <3>1 DEF Buffer
    <3> QED  BY <3>2 DEF more
  <2>3. w.heap[nb] = Insert(rest, k) /\ w.status = "ok"
    BY <2>1 DEF Heaps
  <2> QED  BY <2>2, <2>3
<1>3. CASE Found(hp[nb], k[1]) = {}
  BY <1>1, <1>2, <1>3 DEF Written
<1>4. CASE Found(hp[nb], k[1]) # {}
  <2>1. PICK old \in Found(hp[nb], k[1]) : w = Stored(nb, hp, Delete(hp[nb], old), k)
    BY <1>4 DEF Written
  <2>2. old \in Kinds /\ Delete(hp[nb], old) \in Buffer
    BY <1>1, EntryType DEF Found
  <2> DEFINE rest == Delete(hp[nb], old)
             less == [hp[nb].has EXCEPT ![old] = @ - 1]
             n == Less(hp[nb].entryCount, 1)
             m == Less(hp[nb].dataCount, old[2])
  <2>3. rest = [hp[nb] EXCEPT !.has = less, !.entryCount = n, !.dataCount = m]
    BY <1>1 DEF Delete, Buffer
  <2>4. n <= hp[nb].entryCount /\ m <= hp[nb].dataCount /\ n \in Nat /\ m \in Nat
    <3>1. hp[nb].entryCount \in Nat /\ hp[nb].dataCount \in Nat /\ old[2] \in Nat
      BY <1>1, <2>2, MetadataAssumption DEF Kinds, Buffer
    <3> QED  BY <3>1 DEF Less
  <2> HIDE DEF less, n, m
  <2>5. /\ rest.has = less /\ rest.entryCount = n /\ rest.dataCount = m
        /\ rest.entryCap = hp[nb].entryCap /\ rest.dataCap = hp[nb].dataCap
    BY <1>1, <2>3 DEF Buffer
  <2>6. Room(rest, 1, k[2])
    <3>1. /\ hp[nb].entryCount + 1 <= hp[nb].entryCap
          /\ hp[nb].dataCount + k[2] <= hp[nb].dataCap
      BY DEF Room
    <3>2. /\ hp[nb].entryCount \in Nat /\ hp[nb].dataCount \in Nat
          /\ hp[nb].entryCap \in Nat /\ hp[nb].dataCap \in Nat
      BY <1>1 DEF Buffer
    <3>3. n + 1 <= hp[nb].entryCap /\ m + k[2] <= hp[nb].dataCap
      BY <1>1, <2>4, <3>1, <3>2
    <3> QED  BY <2>5, <3>3 DEF Room
  <2>7. w.status = "ok" /\ w.heap[nb].has = [less EXCEPT ![k] = @ + 1]
    BY <1>2, <2>1, <2>2, <2>5, <2>6
  <2> QED  BY <2>7 DEF less
<1> QED  BY <1>3, <1>4

-----------------------------------------------------------------------------
(* What an append and an update come to. *)

\* Resizing leaves every other live buffer alone.
LEMMA ResizedLeavesOthers ==
  ASSUME Inv, NEW o \in Objs, NEW b, NEW hp, Replaces(obj[o].buf, b, hp),
         NEW src \in Given, src # NULL, src # obj[o].buf
  PROVE  src \in Bufs /\ heap[src].live /\ hp[src] = heap[src]
<1>1. src \in Bufs /\ heap[src].live
  BY DEF Given, Alive, Inv, TypeOK, OneOwner
<1>2. src # b
  BY <1>1, MetadataAssumption DEF Replaces
<1> QED  BY <1>1, <1>2 DEF Replaces

LEMMA ResizedInPlace ==
  ASSUME TypeOK, NEW b \in Pointers, b # NULL, heap[b].live,
         NEW e \in Nat, NEW d \in Nat, NEW r \in resizeIfNeeded(b, e, d), r.buf = b
  PROVE  r.heap = heap
<1> DEFINE ee == Grown(heap[b].entryCount, e, heap[b].entryCap)
           dd == Grown(heap[b].dataCount, d, heap[b].dataCap)
<1>1. \/ r = [buf |-> b, heap |-> heap]
      \/ \E a \in Allocation :
           r = [buf |-> a, heap |-> IF a = NULL THEN Leaked(heap, b) ELSE
                  Freed([heap EXCEPT ![a] = Regrown(b, ee, dd)], b)]
  BY DEF resizeIfNeeded
<1> HIDE DEF ee, dd
<1>2. b \notin Allocation
  BY DEF Allocation
<1>3. ASSUME NEW a \in Allocation,
             r = [buf |-> a, heap |-> IF a = NULL THEN Leaked(heap, b) ELSE
                    Freed([heap EXCEPT ![a] = Regrown(b, ee, dd)], b)]
      PROVE  FALSE
  <2>1. r.buf = a
    BY <1>3
  <2> QED  BY <1>2, <2>1
<1>4. r = [buf |-> b, heap |-> heap]
  BY <1>1, <1>3, Zenon
<1> QED  BY <1>4

LEMMA WrittenElsewhere ==
  ASSUME NEW nb \in Bufs, NEW hp \in Heaps, NEW k \in Kinds, NEW w \in Written(nb, hp, k),
         NEW x \in Bufs, x # nb
  PROVE  w.heap[x] = hp[x]
<1>1. PICK rest : w = Stored(nb, hp, rest, k)
  BY DEF Written
<1>2. w.heap \in {hp, [hp EXCEPT ![nb] = Insert(rest, k)]}
  BY <1>1 DEF Stored
<1> QED  BY <1>2 DEF Heaps

\* Nothing was written: for want of memory the object has no buffer any more.
OutOfMemory(o) ==
    \E hp : /\ AllocFails
           /\ Replaces(obj[o].buf, NULL, hp)
           /\ SetBuffer(o, NULL, hp, "failed")

\* The object has contents has in a buffer, its old one or one that replaced it.
WrittenTo(o, b, hp) ==
    /\ b \in Bufs
    /\ Replaces(obj[o].buf, b, hp)
    /\ obj[o].buf # NULL /\ b # obj[o].buf => ~hp[obj[o].buf].live
    /\ SetBuffer(o, b, hp, "ok")

LEMMA AppendOutcome ==
  ASSUME Inv, NEW o \in Objs, NEW src \in Given, Append(o, src), ~obj[o].locked, src # NULL
  PROVE  \/ src = obj[o].buf /\ Undefined("freed")
         \/ OutOfMemory(o)
         \/ \E b, hp : /\ WrittenTo(o, b, hp)
                       /\ hp[b].has = [k \in Kinds |->
                             Contents(obj[o].buf)[k] + heap[src].has[k]]
<1> DEFINE n == heap[src].entryCount
           m == heap[src].dataCount
<1>1. src \in Bufs /\ n \in Nat /\ m \in Nat /\ heap[src].live /\ heap[src] \in Buffer
  BY DEF Given, Alive, Inv, TypeOK, Buffer, OneOwner
<1>2. PICK r \in resizeIfNeeded(obj[o].buf, n, m) :
        IF ~r.heap[src].live
        THEN Undefined("freed")
        ELSE IF r.buf = NULL \/ ~Room(r.heap[r.buf], n, m)
        THEN SetBuffer(o, r.buf, r.heap, "failed")
        ELSE SetBuffer(o, r.buf, [r.heap EXCEPT ![r.buf] =
                 append_camera_metadata(@, r.heap[src])], "ok")
  BY DEF Append
<1> HIDE DEF n, m
<1>3. obj[o].buf \in Pointers /\ (obj[o].buf # NULL => heap[obj[o].buf].live)
  BY DEF Inv, TypeOK, OneOwner, Pointers
<1>4. /\ Replaces(obj[o].buf, r.buf, r.heap)
      /\ obj[o].buf # NULL /\ r.buf # obj[o].buf /\ r.heap[obj[o].buf].live =>
           r.buf = NULL /\ AllocFails
      /\ r.buf = NULL => AllocFails
      /\ r.buf # NULL => /\ r.heap[r.buf].has = Contents(obj[o].buf)
                         /\ Room(r.heap[r.buf], n, m)
  BY <1>1, <1>3, ResizedReplaces, ResizedContents DEF Inv
<1>5. CASE ~r.heap[src].live
  <2>1. src = obj[o].buf
    BY <1>1, <1>4, <1>5, ResizedLeavesOthers
  <2> QED  BY <1>2, <1>5, <2>1
<1>6. CASE r.heap[src].live /\ r.buf = NULL
  BY <1>2, <1>4, <1>6 DEF OutOfMemory
<1>7. CASE r.heap[src].live /\ r.buf # NULL
  <2>1. r.heap[src] = heap[src]
    <3>1. CASE src = obj[o].buf
      <4>1. r.buf = obj[o].buf
        BY <1>4, <1>7, <3>1
      <4> QED  BY <1>1, <1>3, <3>1, <4>1, ResizedInPlace DEF Inv
    <3>2. CASE src # obj[o].buf
      BY <1>4, <3>2, ResizedLeavesOthers
    <3> QED  BY <3>1, <3>2
  <2> DEFINE new == append_camera_metadata(r.heap[r.buf], heap[src])
             hp == [r.heap EXCEPT ![r.buf] = new]
  <2>2. r.buf \in Bufs /\ r.heap \in Heaps /\ r.heap[r.buf] \in Buffer /\ r.heap[r.buf].live
    BY <1>4, <1>7 DEF Replaces, Heaps, Pointers
  <2>3. new \in Buffer /\ new.live
    BY <1>1, <2>2, AppendType
  <2>4. new.has = [k \in Kinds |-> r.heap[r.buf].has[k] + heap[src].has[k]]
    BY <1>1, <1>4, <1>7, <2>2, SumOfBags DEF n, m
  <2>5. SetBuffer(o, r.buf, hp, "ok")
    BY <1>2, <1>4, <1>7, <2>1
  <2> HIDE DEF new
  <2>6. Replaces(obj[o].buf, r.buf, hp)
    BY <1>3, <1>4, <2>2, <2>3, WriteReplaces
  <2>7. obj[o].buf # NULL /\ r.buf # obj[o].buf => ~hp[obj[o].buf].live
    BY <1>3, <1>4, <1>7, <2>2 DEF Heaps
  <2>8. hp[r.buf].has = [k \in Kinds |-> Contents(obj[o].buf)[k] + heap[src].has[k]]
    BY <1>4, <1>7, <2>2, <2>4 DEF Heaps
  <2> QED  BY <2>2, <2>5, <2>6, <2>7, <2>8 DEF WrittenTo
<1> QED  BY <1>5, <1>6, <1>7

\* Contents has are contents was with an entry k, new or in place of another.
PutInto(was, k, has) ==
    \/ /\ \A f \in Kinds : f[1] = k[1] => was[f] = 0
       /\ has = [was EXCEPT ![k] = @ + 1]
    \/ \E old \in Kinds :
        /\ old[1] = k[1] /\ was[old] > 0
        /\ has = [[was EXCEPT ![old] = @ - 1] EXCEPT ![k] = @ + 1]

LEMMA UpdateOutcome ==
  ASSUME Inv, NEW o \in Objs, NEW k \in Kinds, NEW src \in Given \cup {NULL},
         Update(o, k, src, TRUE), ~obj[o].locked, ~SameBuffer(o, src)
  PROVE  \/ OutOfMemory(o)
         \/ \E b, hp : WrittenTo(o, b, hp) /\ PutInto(Contents(obj[o].buf), k, hp[b].has)
<1>1. obj[o].buf \in Pointers /\ (obj[o].buf # NULL => heap[obj[o].buf].live)
      /\ 1 \in Nat /\ k[2] \in Nat
  BY MetadataAssumption DEF Inv, TypeOK, OneOwner, Pointers, Kinds
<1>2. PICK r \in resizeIfNeeded(obj[o].buf, 1, k[2]) :
        IF r.buf = NULL
        THEN SetBuffer(o, NULL, r.heap, "failed")
        ELSE IF src # NULL /\ ~r.heap[src].live
        THEN Undefined("freed")
        ELSE \E w \in Written(r.buf, r.heap, k) :
                 SetBuffer(o, r.buf, w.heap, w.status)
  BY DEF Update
<1>3. /\ Replaces(obj[o].buf, r.buf, r.heap)
      /\ obj[o].buf # NULL /\ r.buf # obj[o].buf /\ r.heap[obj[o].buf].live =>
           r.buf = NULL /\ AllocFails
      /\ r.buf = NULL => AllocFails
      /\ r.buf # NULL => /\ r.heap[r.buf].has = Contents(obj[o].buf)
                         /\ Room(r.heap[r.buf], 1, k[2])
  <2>1. TypeOK
    BY DEF Inv
  <2>2. /\ Replaces(obj[o].buf, r.buf, r.heap)
        /\ obj[o].buf # NULL /\ r.buf # obj[o].buf /\ r.heap[obj[o].buf].live =>
             r.buf = NULL /\ AllocFails
    BY <1>1, <2>1, ResizedReplaces
  <2>3. /\ r.buf = NULL => AllocFails
        /\ r.buf # NULL => /\ r.heap[r.buf].has = Contents(obj[o].buf)
                           /\ Room(r.heap[r.buf], 1, k[2])
    BY <1>1, <2>1, ResizedContents
  <2> QED  BY <2>2, <2>3
<1>4. src # NULL => r.heap[src].live
  BY <1>3, ResizedLeavesOthers DEF SameBuffer
<1>5. CASE r.buf = NULL
  BY <1>2, <1>3, <1>5 DEF OutOfMemory
<1>6. CASE r.buf # NULL
  <2>1. PICK w \in Written(r.buf, r.heap, k) : SetBuffer(o, r.buf, w.heap, w.status)
    BY <1>2, <1>4, <1>6
  <2>2. r.buf \in Bufs /\ r.heap \in Heaps /\ r.heap[r.buf].has \in [Kinds -> Nat]
    BY <1>3, <1>6 DEF Replaces, Heaps, Pointers, Buffer, Bag
  <2>3. Replaces(obj[o].buf, r.buf, w.heap)
    BY <1>1, <1>3, <2>2, WrittenReplaces
  <2>4. obj[o].buf # NULL /\ r.buf # obj[o].buf => ~w.heap[obj[o].buf].live
    BY <1>1, <1>3, <1>6, <2>2, WrittenElsewhere DEF Pointers
  <2> DEFINE was == r.heap[r.buf].has
  <2>5. /\ w.status = "ok"
        /\ \/ /\ Found(r.heap[r.buf], k[1]) = {}
              /\ w.heap[r.buf].has = [was EXCEPT ![k] = @ + 1]
           \/ \E old \in Found(r.heap[r.buf], k[1]) :
                w.heap[r.buf].has = [[was EXCEPT ![old] = @ - 1] EXCEPT ![k] = @ + 1]
    BY <1>3, <1>6, <2>2, WrittenContents
  <2>6. WrittenTo(o, r.buf, w.heap)
    BY <2>1, <2>2, <2>3, <2>4, <2>5 DEF WrittenTo
  <2>7. PutInto(was, k, w.heap[r.buf].has)
    <3>1. CASE /\ Found(r.heap[r.buf], k[1]) = {}
               /\ w.heap[r.buf].has = [was EXCEPT ![k] = @ + 1]
      <4>1. \A f \in Kinds : f[1] = k[1] => was[f] = 0
        BY <2>2, <3>1 DEF Found
      <4> HIDE DEF was
      <4> QED  BY <3>1, <4>1 DEF PutInto
    <3>2. ASSUME NEW old \in Found(r.heap[r.buf], k[1]),
                 w.heap[r.buf].has = [[was EXCEPT ![old] = @ - 1] EXCEPT ![k] = @ + 1]
          PROVE  PutInto(was, k, w.heap[r.buf].has)
      <4>1. old \in Kinds /\ old[1] = k[1] /\ was[old] > 0
        BY DEF Found
      <4> HIDE DEF was
      <4> QED  BY <3>2, <4>1 DEF PutInto
    <3> HIDE DEF was
    <3> QED  BY <2>5, <3>1, <3>2
  <2>8. was = Contents(obj[o].buf)
    BY <1>3, <1>6
  <2> HIDE DEF was
  <2> QED  BY <2>6, <2>7, <2>8
<1> QED  BY <1>5, <1>6

-----------------------------------------------------------------------------
(* Which calls touch memory that is not there. *)

\* A buffer with room for what is asked is not reallocated, one without is not kept.
LEMMA ResizedOrNot ==
  ASSUME TypeOK, NEW b \in Pointers, b # NULL, heap[b].live,
         NEW e \in Nat, NEW d \in Nat, NEW r \in resizeIfNeeded(b, e, d)
  PROVE  /\ Room(heap[b], e, d) => r.buf = b /\ r.heap = heap
         /\ ~Room(heap[b], e, d) => r.buf # b /\ (r.buf # NULL => ~r.heap[b].live)
<1> DEFINE ee == Grown(heap[b].entryCount, e, heap[b].entryCap)
           dd == Grown(heap[b].dataCount, d, heap[b].dataCap)
           fits == ee <= heap[b].entryCap /\ dd <= heap[b].dataCap
<1>1. Room(heap[b], e, d) <=> fits
  <2>1. /\ heap[b].entryCount \in Nat /\ heap[b].dataCount \in Nat
        /\ heap[b].entryCap \in Nat /\ heap[b].dataCap \in Nat
    BY DEF TypeOK, Buffer, Pointers
  <2>2. ee <= heap[b].entryCap <=> heap[b].entryCount + e <= heap[b].entryCap
    BY <2>1 DEF Grown
  <2>3. dd <= heap[b].dataCap <=> heap[b].dataCount + d <= heap[b].dataCap
    BY <2>1 DEF Grown
  <2> QED  BY <2>2, <2>3 DEF Room
<1>2. CASE fits
  <2>1. r = [buf |-> b, heap |-> heap]
    BY <1>2 DEF resizeIfNeeded
  <2> HIDE DEF fits
  <2> QED  BY <1>1, <1>2, <2>1
<1>3. CASE ~fits
  <2>1. PICK a \in Allocation :
          r = [buf |-> a, heap |-> IF a = NULL THEN Leaked(heap, b) ELSE
                 Freed([heap EXCEPT ![a] = Regrown(b, ee, dd)], b)]
    BY <1>3 DEF resizeIfNeeded
  <2> HIDE DEF ee, dd, fits
  <2>2. r.buf = a /\ a # b
    BY <2>1, MetadataAssumption DEF Allocation
  <2>3. a # NULL => ~r.heap[b].live
    BY <2>1, AllocateType DEF Freed, TypeOK, Pointers
  <2> QED  BY <1>1, <1>3, <2>2, <2>3
<1> QED  BY <1>2, <1>3

\* An append does what UndefinedOnlyThere says of it.
LEMMA AppendUndefined ==
  ASSUME Inv, wrong = "no", NEW o \in Objs, NEW src \in Given, Append(o, src)
  PROVE  /\ wrong' = "null" <=> ReadsNull(o, src)
         /\ wrong' = "freed" <=> ReadsFreed(o, src) /\ obj'[o].buf # NULL
<1> USE DEF ReadsNull, ReadsFreed
<1>1. CASE obj[o].locked
  BY <1>1 DEF Append, Decline
<1>2. CASE ~obj[o].locked /\ src = NULL
  BY <1>2 DEF Append, Undefined
<1>3. CASE ~obj[o].locked /\ src # NULL /\ src # obj[o].buf
  <2>1. wrong' = wrong
    BY <1>3, AppendOutcome DEF OutOfMemory, WrittenTo, SetBuffer
  <2> QED  BY <1>3, <2>1
<1>4. CASE ~obj[o].locked /\ src # NULL /\ src = obj[o].buf
  <2> DEFINE n == heap[src].entryCount
             m == heap[src].dataCount
  <2>1. src \in Bufs /\ n \in Nat /\ m \in Nat /\ heap[src].live /\ src \in Pointers
    BY <1>4 DEF Inv, TypeOK, OneOwner, Buffer, Pointers
  <2>2. PICK r \in resizeIfNeeded(src, n, m) :
          IF ~r.heap[src].live
          THEN Undefined("freed")
          ELSE IF r.buf = NULL \/ ~Room(r.heap[r.buf], n, m)
          THEN SetBuffer(o, r.buf, r.heap, "failed")
          ELSE SetBuffer(o, r.buf, [r.heap EXCEPT ![r.buf] =
                   append_camera_metadata(@, r.heap[src])], "ok")
    BY <1>4 DEF Append
  <2> HIDE DEF n, m
  <2>3. \A b, hp, st : SetBuffer(o, b, hp, st) => wrong' = wrong /\ obj'[o].buf = b
    BY DEF SetBuffer, Inv, TypeOK
  <2>4. CASE Room(heap[src], n, m)
    <3>1. r.buf = src /\ r.heap = heap
      BY <1>4, <2>1, <2>4, ResizedOrNot DEF Inv
    <3>2. wrong' = wrong
      BY <2>1, <2>2, <2>3, <3>1
    <3> QED  BY <1>4, <2>4, <3>2 DEF n, m
  <2>5. CASE ~Room(heap[src], n, m)
    <3>1. r.buf # src /\ (r.buf # NULL => ~r.heap[src].live)
      BY <1>4, <2>1, <2>5, ResizedOrNot DEF Inv
    <3>2. CASE ~r.heap[src].live
      <4>1. wrong' = "freed" /\ obj' = obj
        BY <2>2, <3>2 DEF Undefined
      <4> QED  BY <1>4, <2>5, <4>1 DEF n, m
    <3>3. CASE r.heap[src].live
      <4>1. wrong' = wrong /\ obj'[o].buf = NULL
        BY <2>2, <2>3, <3>1, <3>3
      <4> QED  BY <1>4, <4>1
    <3> QED  BY <3>2, <3>3
  <2> QED  BY <2>4, <2>5
<1> QED  BY <1>1, <1>2, <1>3, <1>4

\* What an update does when it is neither locked out nor of the wrong type.
LEMMA UpdateGoesOn ==
  ASSUME NEW o \in Objs, NEW k \in Kinds, NEW src \in Given \cup {NULL},
         NEW typed \in BOOLEAN, Update(o, k, src, typed)
  PROVE  \/ Decline("refused")
         \/ Update(o, k, src, TRUE) /\ ~obj[o].locked /\ ~SameBuffer(o, src)
  BY DEF Update

LEMMA UpdateIsDefined ==
  ASSUME Inv, NEW o \in Objs, NEW k \in Kinds, NEW src \in Given \cup {NULL},
         NEW typed \in BOOLEAN, Update(o, k, src, typed)
  PROVE  UNCHANGED wrong
  BY UpdateGoesOn, UpdateOutcome DEF Decline, OutOfMemory, WrittenTo, SetBuffer

\* The rest has nothing to go wrong with.
LEMMA NextIsDefined ==
  ASSUME Inv, NEW o \in Objs, NextOf(o)
  PROVE  UNCHANGED wrong \/ \E src \in Given : Append(o, src)
<1>1. ASSUME NEW src \in Given, Assign(o, src) PROVE UNCHANGED wrong
  BY <1>1 DEF Assign, Decline, SetBuffer
<1>2. ASSUME NEW k \in Kinds, NEW src \in Given \cup {NULL}, NEW typed \in BOOLEAN,
             Update(o, k, src, typed)
      PROVE  UNCHANGED wrong
  BY <1>2, UpdateIsDefined
<1>3. ASSUME Sort(o) \/ \E t \in Tags : Erase(o, t) PROVE UNCHANGED wrong
  BY <1>3 DEF Sort, Erase, Decline, SetBuffer
<1>4. ASSUME NEW p \in Objs, CopyConstruct(o, p) \/ AcquireFrom(o, p) \/ Swap(o, p)
      PROVE  UNCHANGED wrong
  BY <1>4 DEF CopyConstruct, Begin, AcquireFrom, Swap, Decline
<1>5. ASSUME NEW b \in raw, ConstructFrom(o, b) \/ AcquireRaw(o, b) PROVE UNCHANGED wrong
  BY <1>5 DEF ConstructFrom, Begin, AcquireRaw
<1>6. ASSUME \/ Construct(o)
             \/ \E caps \in Capacities : ConstructSized(o, caps)
             \/ Destroy(o) \/ Release(o) \/ Clear(o)
      PROVE  UNCHANGED wrong
  BY <1>6 DEF Construct, ConstructSized, Begin, Destroy, Release, Clear, Decline, SetBuffer
<1>7. ASSUME NEW c \in Holders, GetAndLock(c, o) \/ Unlock(c, o) PROVE UNCHANGED wrong
  BY <1>7 DEF GetAndLock, Unlock, Decline
<1> QED  BY <1>1, <1>2, <1>3, <1>4, <1>5, <1>6, <1>7 DEF NextOf

\* Whatever callers append to what: a call reads through NULL exactly when the
\* other object has no buffer, and through a buffer it has freed exactly when an
\* object is appended to itself and had to be reallocated for it.  No other call
\* does either: the check for data of the same buffer is all that update needs.
THEOREM UndefinedOnlyThereHolds == Spec => UndefinedOnlyThere
<1> DEFINE
    Only == wrong' # wrong => \E o \in Objs, src \in Given : Append(o, src)
    Appends == \A o \in Objs, src \in Given : Append(o, src) =>
        /\ wrong' = "null" <=> ReadsNull(o, src)
        /\ wrong' = "freed" <=> ReadsFreed(o, src) /\ obj'[o].buf # NULL
    Updates == wrong' # "no" =>
        \A o \in Objs, k \in Kinds, src \in Given \cup {NULL}, typed \in BOOLEAN :
            ~Update(o, k, src, typed)
    Step == Only /\ Appends /\ Updates
<1>1. Inv /\ Next => Step
  <2> SUFFICES ASSUME Inv, Next PROVE Step
    OBVIOUS
  <2>1. wrong = "no"
    BY DEF Next
  <2>2. Only
    <3>1. ASSUME NEW b \in raw, FreeRaw(b) PROVE UNCHANGED wrong
      BY <3>1 DEF FreeRaw
    <3> QED  BY <3>1, NextIsDefined DEF Next
  <2>3. Appends
    BY <2>1, AppendUndefined
  <2>4. Updates
    BY <2>1, UpdateIsDefined
  <2> QED  BY <2>2, <2>3, <2>4
<1>2. Inv /\ [Next]_vars => [Step]_vars
  BY <1>1
<1>3. []Inv /\ [][Next]_vars => UndefinedOnlyThere
  BY <1>2, PTL DEF UndefinedOnlyThere
<1> QED  BY <1>3, InvHolds, PTL DEF Spec

-----------------------------------------------------------------------------
(* OK means done. *)

LEMMA WrittenContentsOf ==
  ASSUME Inv, NEW o \in Objs, NEW b, NEW hp, WrittenTo(o, b, hp)
  PROVE  Contents(obj[o].buf)' = hp[b].has
<1>1. obj'[o].buf = b /\ heap' = hp /\ b # NULL
  BY MetadataAssumption DEF WrittenTo, SetBuffer, Inv, TypeOK
<1> QED  BY <1>1 DEF Contents

LEMMA AppendIsDone ==
  ASSUME Inv, NEW o \in Objs, NEW src \in Given, Append(o, src), ret' = "ok", wrong' = "no",
         NEW k \in Kinds
  PROVE  Contents(obj[o].buf)'[k] = Contents(obj[o].buf)[k] + heap[src].has[k]
<1>1. ~obj[o].locked /\ src # NULL
  BY DEF Append, Decline, Undefined
<1>2. PICK b, hp : /\ WrittenTo(o, b, hp)
                   /\ hp[b].has = [f \in Kinds |->
                         Contents(obj[o].buf)[f] + heap[src].has[f]]
  BY <1>1, AppendOutcome DEF Undefined, OutOfMemory, SetBuffer
<1> QED  BY <1>2, WrittenContentsOf

LEMMA PutIntoMoves ==
  ASSUME NEW was \in [Kinds -> Nat], NEW k \in Kinds, NEW has, PutInto(was, k, has)
  PROVE  has[k] > 0 /\ \A f \in Kinds : f[1] # k[1] => has[f] = was[f]
<1>1. CASE has = [was EXCEPT ![k] = @ + 1]
  BY <1>1
<1>2. ASSUME NEW old \in Kinds, old[1] = k[1], was[old] > 0,
             has = [[was EXCEPT ![old] = @ - 1] EXCEPT ![k] = @ + 1]
      PROVE  has[k] > 0 /\ \A f \in Kinds : f[1] # k[1] => has[f] = was[f]
  <2> DEFINE less == [was EXCEPT ![old] = @ - 1]
  <2>1. less \in [Kinds -> Nat]
    BY <1>2
  <2>2. \A f \in Kinds : f[1] # k[1] => less[f] = was[f]
    BY <1>2
  <2> HIDE DEF less
  <2>3. has = [less EXCEPT ![k] = less[k] + 1]
    BY <1>2 DEF less
  <2> QED  BY <2>1, <2>2, <2>3
<1> QED  BY <1>1, <1>2 DEF PutInto

LEMMA UpdateIsDone ==
  ASSUME Inv, NEW o \in Objs, NEW k \in Kinds, NEW src \in Given \cup {NULL},
         Update(o, k, src, TRUE), ret' = "ok"
  PROVE  /\ Contents(obj[o].buf)'[k] > 0
         /\ \A f \in Kinds : f[1] # k[1] =>
              Contents(obj[o].buf)'[f] = Contents(obj[o].buf)[f]
<1> DEFINE was == Contents(obj[o].buf)
<1>1. ~obj[o].locked /\ ~SameBuffer(o, src)
  BY DEF Update, Decline
<1>2. was \in [Kinds -> Nat]
  BY DEF Contents, EmptyBag, Inv, TypeOK, Buffer, Bag
<1>3. ~OutOfMemory(o)
  BY DEF OutOfMemory, SetBuffer
<1> HIDE DEF was
<1>4. PICK b, hp : WrittenTo(o, b, hp) /\ PutInto(was, k, hp[b].has)
  BY <1>1, <1>3, UpdateOutcome DEF was
<1>5. hp[b].has[k] > 0 /\ \A f \in Kinds : f[1] # k[1] => hp[b].has[f] = was[f]
  BY <1>2, <1>4, PutIntoMoves
<1>6. Contents(obj[o].buf)' = hp[b].has
  BY <1>4, WrittenContentsOf
<1> QED  BY <1>5, <1>6 DEF was

\* A status of OK from a call that is defined means that the entries are there, all
\* of them after an append, and that no entry of another tag was touched, whether
\* the buffer was large enough, had to be reallocated, or was not there at all.
THEOREM OkMeansDoneHolds == Spec => OkMeansDone
<1> DEFINE Step == ret' = "ok" /\ wrong' = "no" => \A o \in Objs :
    /\ \A src \in Given : Append(o, src) =>
        \A k \in Kinds : Contents(obj[o].buf)'[k] = Contents(obj[o].buf)[k] + heap[src].has[k]
    /\ \A k \in Kinds, src \in Given \cup {NULL} : Update(o, k, src, TRUE) =>
        /\ Contents(obj[o].buf)'[k] > 0
        /\ \A f \in Kinds : f[1] # k[1] =>
            Contents(obj[o].buf)'[f] = Contents(obj[o].buf)[f]
<1>1. Inv => Step
  BY AppendIsDone, UpdateIsDone
<1>2. []Inv => OkMeansDone
  BY <1>1, PTL DEF OkMeansDone
<1> QED  BY <1>2, InvHolds, PTL

-----------------------------------------------------------------------------
(* Where memory is lost. *)

\* The two places, as a fact about a step that loses b.
FailedToGrow(b) ==
    AllocFails /\ ret' = "failed" /\ \E o \in Objs : obj[o].buf = b /\ obj'[o].buf = NULL
TakesNothing(b) == b \in raw /\ \E o \in Objs : obj[o].locked
Leaks == \A b \in Bufs : ~Lost(b) /\ Lost(b)' => FailedToGrow(b) \/ TakesNothing(b)

LEMMA NoOwnerNoHeapChange ==
  ASSUME UNCHANGED heap, raw \subseteq raw',
         \A b \in Bufs, p \in Objs : obj[p].buf = b =>
            b \in raw' \/ \E q \in Objs : obj'[q].buf = b
  PROVE  Leaks
  BY DEF Leaks, Lost

LEMMA SetBufferLeaks ==
  ASSUME Inv, NEW o \in Objs, NEW b, NEW hp, NEW st,
         Replaces(obj[o].buf, b, hp), SetBuffer(o, b, hp, st),
         obj[o].buf # NULL /\ b # obj[o].buf /\ hp[obj[o].buf].live =>
            b = NULL /\ AllocFails /\ st = "failed"
  PROVE  Leaks
<1>1. /\ heap' = hp /\ raw' = raw /\ ret' = st /\ obj'[o].buf = b
      /\ \A p \in Objs : p # o => obj'[p] = obj[p]
  BY DEF SetBuffer, Inv, TypeOK
<1>2. SUFFICES ASSUME NEW x \in Bufs, ~Lost(x), Lost(x)' PROVE FailedToGrow(x)
  BY DEF Leaks
<1>3. x # NULL /\ heap'[x].live /\ x \notin raw /\ x # b
      /\ \A p \in Objs : p # o => obj[p].buf # x
  BY <1>1, <1>2, MetadataAssumption DEF Lost
<1>4. x = obj[o].buf
  BY <1>1, <1>2, <1>3 DEF Lost, Replaces
<1> QED  BY <1>1, <1>3, <1>4 DEF FailedToGrow

LEMMA BeginLeaks ==
  ASSUME Inv, NEW o \in Objs, NEW b, NEW hp, Begin(o, b, hp), raw' = raw,
         \A x \in Bufs : x # b => hp[x] = heap[x]
  PROVE  Leaks
<1>1. /\ heap' = hp /\ obj'[o].buf = b /\ obj[o].buf = NULL
      /\ \A p \in Objs : p # o => obj'[p] = obj[p]
  BY DEF Begin, Fresh, Inv, TypeOK, DeadIsEmpty, Dead
<1>2. ASSUME NEW x \in Bufs, ~Lost(x), Lost(x)' PROVE FALSE
  <2>1. x # NULL /\ x # b /\ heap[x].live /\ x \notin raw
    BY <1>1, <1>2, MetadataAssumption DEF Lost
  <2> QED  BY <1>1, <1>2, <2>1 DEF Lost
<1> QED  BY <1>2 DEF Leaks

LEMMA DeclineLeaks ==
  ASSUME NEW st, Decline(st) \/ Undefined(st)
  PROVE  Leaks
  BY DEF Decline, Undefined, Leaks, Lost

\* A step that frees what it takes from an owner, and hands the rest on.
LEMMA FreedLeaks ==
  ASSUME Inv, NEW b \in Pointers, heap' = Freed(heap, b),
         \A x \in Bufs : x # b /\ x \in raw =>
            x \in raw' \/ \E q \in Objs : obj'[q].buf = x,
         \A x \in Bufs, p \in Objs : x # b /\ obj[p].buf = x =>
            x \in raw' \/ \E q \in Objs : obj'[q].buf = x
  PROVE  Leaks
<1>1. ASSUME NEW x \in Bufs, ~Lost(x), Lost(x)' PROVE FALSE
  <2>1. x # b
    <3>1. SUFFICES ASSUME x = b PROVE FALSE
      OBVIOUS
    <3>2. b # NULL /\ heap'[b] = Unallocated
      BY <3>1, MetadataAssumption DEF Freed, Inv, TypeOK
    <3> QED  BY <1>1, <3>1, <3>2, AllocateType DEF Lost
  <2>2. heap'[x] = heap[x]
    BY <2>1 DEF Freed, Inv, TypeOK
  <2> QED  BY <1>1, <2>1, <2>2 DEF Lost
<1> QED  BY <1>1 DEF Leaks

LEMMA OwnersLeak ==
  ASSUME Inv, NEW o \in Objs,
         Destroy(o) \/ Release(o) \/ Clear(o)
  PROVE  Leaks
<1>1. obj[o].buf \in Pointers /\ \A p \in Objs : obj[p].buf \in Pointers
  BY DEF Inv, TypeOK, Pointers
<1>2. CASE Destroy(o)
  <2>1. heap' = Freed(heap, obj[o].buf) /\ raw' = raw
        /\ \A p \in Objs : p # o => obj'[p] = obj[p]
    BY <1>2 DEF Destroy, Inv, TypeOK
  <2> QED  BY <1>1, <2>1, FreedLeaks
<1>3. CASE Release(o)
  <2>1. CASE obj[o].locked
    BY <1>3, <2>1, DeclineLeaks DEF Release
  <2>2. CASE ~obj[o].locked
    <3>1. UNCHANGED heap /\ raw' = raw \cup Released(o)
          /\ \A p \in Objs : p # o => obj'[p] = obj[p]
      BY <1>3, <2>2 DEF Release, Inv, TypeOK
    <3>2. \A b \in Bufs : obj[o].buf = b => b \in raw'
      BY <3>1, MetadataAssumption DEF Released
    <3> QED  BY <3>1, <3>2, NoOwnerNoHeapChange
  <2> QED  BY <2>1, <2>2
<1>4. CASE Clear(o)
  <2>1. CASE obj[o].locked
    BY <1>4, <2>1, DeclineLeaks DEF Clear
  <2>2. CASE ~obj[o].locked
    <3>1. heap' = Freed(heap, obj[o].buf) /\ raw' = raw
          /\ \A p \in Objs : p # o => obj'[p] = obj[p]
      BY <1>4, <2>2 DEF Clear, Cleared, SetBuffer, Inv, TypeOK
    <3> QED  BY <1>1, <3>1, FreedLeaks
  <2> QED  BY <2>1, <2>2
<1> QED  BY <1>2, <1>3, <1>4

LEMMA AcquireRawLeaks ==
  ASSUME Inv, NEW o \in Objs, NEW b \in raw, AcquireRaw(o, b)
  PROVE  Leaks
<1>1. CASE obj[o].locked
  <2>1. heap' = Leaked(heap, b) /\ raw' = raw \ {b} /\ UNCHANGED obj
        /\ \A x \in Bufs : x # b => heap'[x] = heap[x]
    BY <1>1 DEF AcquireRaw, Leaked, Inv, TypeOK
  <2>2. ASSUME NEW x \in Bufs, ~Lost(x), Lost(x)' PROVE x = b
    BY <2>1, <2>2 DEF Lost
  <2> QED  BY <1>1, <2>2 DEF Leaks, TakesNothing
<1>2. CASE ~obj[o].locked
  <2>1. heap' = Freed(heap, obj[o].buf) /\ raw' = raw \ {b} /\ obj'[o].buf = b
        /\ obj[o].buf \in Pointers
        /\ \A p \in Objs : p # o => obj'[p] = obj[p]
    BY <1>2 DEF AcquireRaw, Cleared, Inv, TypeOK, Pointers
  <2> QED  BY <2>1, FreedLeaks
<1> QED  BY <1>1, <1>2

LEMMA AcquireFromLeaks ==
  ASSUME Inv, NEW o \in Objs, NEW p \in Objs, AcquireFrom(o, p)
  PROVE  Leaks
<1>1. CASE obj[o].locked
  BY <1>1, DeclineLeaks DEF AcquireFrom
<1>2. CASE ~obj[o].locked /\ obj[p].locked
  <2>1. heap' = Freed(heap, obj[o].buf) /\ raw' = raw /\ obj[o].buf \in Pointers
        /\ \A q \in Objs : q # o => obj'[q] = obj[q]
    BY <1>2 DEF AcquireFrom, Inv, TypeOK, Pointers
  <2> QED  BY <2>1, FreedLeaks
<1>3. CASE ~obj[o].locked /\ ~obj[p].locked
  <2>1. CASE o = p
    <3>1. heap' = Freed(heap, NULL) /\ raw' = raw /\ NULL \in Pointers
          /\ \A q \in Objs : obj'[q].buf = obj[q].buf
      BY <1>3, <2>1 DEF AcquireFrom, Inv, TypeOK, Pointers
    <3> QED  BY <3>1, FreedLeaks
  <2>2. CASE o # p
    <3>1. heap' = Freed(heap, obj[o].buf) /\ raw' = raw /\ obj[o].buf \in Pointers
          /\ obj'[o].buf = obj[p].buf
          /\ \A q \in Objs : q # o /\ q # p => obj'[q] = obj[q]
      BY <1>3, <2>2 DEF AcquireFrom, Inv, TypeOK, Pointers
    <3> QED  BY <3>1, FreedLeaks
  <2> QED  BY <2>1, <2>2
<1> QED  BY <1>1, <1>2, <1>3

LEMMA SwapLeaks ==
  ASSUME Inv, NEW o \in Objs, NEW p \in Objs, Swap(o, p)
  PROVE  Leaks
<1>1. CASE ~Swaps(o, p)
  BY <1>1, DeclineLeaks DEF Swap
<1>2. CASE Swaps(o, p)
  <2>1. /\ UNCHANGED <<heap, raw>>
        /\ obj'[o].buf = obj[p].buf /\ obj'[p].buf = obj[o].buf
        /\ \A q \in Objs : q # o /\ q # p => obj'[q] = obj[q]
    BY <1>2 DEF Swap, Inv, TypeOK
  <2> QED  BY <2>1, NoOwnerNoHeapChange
<1> QED  BY <1>1, <1>2

LEMMA AssignLeaks ==
  ASSUME Inv, NEW o \in Objs, NEW src \in Given, Assign(o, src)
  PROVE  Leaks
<1>1. CASE obj[o].locked \/ src = obj[o].buf
  BY <1>1, DeclineLeaks DEF Assign
<1>2. CASE ~(obj[o].locked \/ src = obj[o].buf)
  <2>1. PICK c \in Cloned(src) : SetBuffer(o, c.buf, Freed(c.heap, obj[o].buf), "void")
    BY <1>2 DEF Assign
  <2>2. src \in Pointers /\ obj[o].buf \in Pointers
        /\ (obj[o].buf # NULL => heap[obj[o].buf].live)
    BY DEF Given, Alive, Inv, TypeOK, OneOwner, Pointers
  <2>3. /\ Replaces(obj[o].buf, c.buf, c.heap) /\ c.heap \in Heaps
        /\ c.buf # NULL => c.buf # obj[o].buf
    BY <2>2, ClonedReplaces DEF Inv
  <2> DEFINE hp == Freed(c.heap, obj[o].buf)
  <2>4. Replaces(obj[o].buf, c.buf, hp)
    <3>1. hp \in Heaps
      BY <2>2, <2>3, FreedType
    <3>2. \A x \in Bufs : x # obj[o].buf => hp[x] = c.heap[x]
      BY <2>2, <2>3 DEF Freed, Heaps
    <3> QED  BY <2>3, <3>1, <3>2, MetadataAssumption DEF Replaces, Pointers
  <2>5. obj[o].buf # NULL => ~hp[obj[o].buf].live
    BY <2>2, <2>3, AllocateType DEF Freed, Heaps, Pointers
  <2> QED  BY <2>1, <2>4, <2>5, SetBufferLeaks
<1> QED  BY <1>1, <1>2

\* An outcome of either kind loses nothing but what could not be reallocated.
LEMMA OutcomesLeak ==
  ASSUME Inv, NEW o \in Objs, OutOfMemory(o) \/ \E b, hp : WrittenTo(o, b, hp)
  PROVE  Leaks
  BY SetBufferLeaks DEF OutOfMemory, WrittenTo

LEMMA AppendLeaks ==
  ASSUME Inv, NEW o \in Objs, NEW src \in Given, Append(o, src)
  PROVE  Leaks
<1>1. CASE obj[o].locked \/ src = NULL
  BY <1>1, DeclineLeaks DEF Append
<1>2. CASE ~(obj[o].locked \/ src = NULL)
  BY <1>2, AppendOutcome, OutcomesLeak, DeclineLeaks
<1> QED  BY <1>1, <1>2

LEMMA UpdateLeaks ==
  ASSUME Inv, NEW o \in Objs, NEW k \in Kinds, NEW src \in Given \cup {NULL},
         NEW typed \in BOOLEAN, Update(o, k, src, typed)
  PROVE  Leaks
<1>1. CASE Decline("refused")
  BY <1>1, DeclineLeaks
<1>2. CASE Update(o, k, src, TRUE) /\ ~obj[o].locked /\ ~SameBuffer(o, src)
  <2>1. OutOfMemory(o) \/ \E b, hp : WrittenTo(o, b, hp)
    BY <1>2, UpdateOutcome
  <2> QED  BY <2>1, OutcomesLeak
<1> QED  BY <1>1, <1>2, UpdateGoesOn

LEMMA EraseLeaks ==
  ASSUME Inv, NEW o \in Objs, NEW t \in Tags, Erase(o, t)
  PROVE  Leaks
<1> DEFINE b == obj[o].buf
<1>1. CASE obj[o].locked \/ b = NULL \/ Found(heap[b], t) = {}
  BY <1>1, DeclineLeaks DEF Erase
<1>2. CASE ~(obj[o].locked \/ b = NULL \/ Found(heap[b], t) = {})
  <2>1. PICK old \in Found(heap[b], t) :
          SetBuffer(o, b, [heap EXCEPT ![b] = Delete(heap[b], old)], "ok")
    BY <1>2 DEF Erase
  <2>2. /\ b \in Bufs /\ raw' = raw
        /\ \A x \in Bufs : x # b => heap'[x] = heap[x]
        /\ \A p \in Objs : obj'[p].buf = obj[p].buf
    BY <1>2, <2>1 DEF SetBuffer, Inv, TypeOK
  <2> QED  BY <2>2 DEF Leaks, Lost
<1> QED  BY <1>1, <1>2

\* Memory is lost in two places and no other: a reallocation that fails leaves the
\* old buffer to nobody, and a locked object takes nothing of what it is given.
THEOREM LeaksOnlyThereHolds == Spec => LeaksOnlyThere
<1> DEFINE Step == \A b \in Bufs : ~Lost(b) /\ Lost(b)' =>
    \/ AllocFails /\ ret' = "failed" /\ \E o \in Objs : obj[o].buf = b /\ obj'[o].buf = NULL
    \/ b \in raw /\ \E o \in Objs : obj[o].locked
<1>1. Inv /\ Next => Leaks
  <2> SUFFICES ASSUME Inv, Next PROVE Leaks
    OBVIOUS
  <2>1. ASSUME NEW b \in raw, FreeRaw(b) PROVE Leaks
    <3>1. heap' = Freed(heap, b) /\ raw' = raw \ {b} /\ UNCHANGED obj /\ b \in Pointers
      BY <2>1 DEF FreeRaw, Inv, TypeOK, Pointers
    <3> QED  BY <3>1, FreedLeaks
  <2>2. ASSUME NEW o \in Objs, NextOf(o) PROVE Leaks
    <3>1. ASSUME Construct(o) PROVE Leaks
      BY <3>1, BeginLeaks DEF Construct
    <3>2. ASSUME NEW caps \in Capacities, ConstructSized(o, caps) PROVE Leaks
      <4> DEFINE new == allocate_camera_metadata(caps[1], caps[2])
                 hp(a) == IF a = NULL THEN heap ELSE [heap EXCEPT ![a] = new]
      <4>1. PICK a \in Allocation : Begin(o, a, hp(a)) /\ raw' = raw
        BY <3>2 DEF ConstructSized
      <4>2. \A x \in Bufs : x # a => hp(a)[x] = heap[x]
        BY <4>1 DEF Inv, TypeOK
      <4> QED  BY <4>1, <4>2, BeginLeaks
    <3>3. ASSUME NEW p \in Objs, CopyConstruct(o, p) PROVE Leaks
      <4>1. PICK c \in Cloned(obj[p].buf) : Begin(o, c.buf, c.heap) /\ raw' = raw
        BY <3>3 DEF CopyConstruct
      <4>2. \A x \in Bufs : x # c.buf => c.heap[x] = heap[x]
        <5>1. obj[p].buf \in Pointers /\ NULL \in Pointers
          BY DEF Inv, TypeOK, Pointers
        <5> QED  BY <5>1, ClonedReplaces DEF Inv
      <4> QED  BY <4>1, <4>2, BeginLeaks
    <3>4. ASSUME NEW b \in raw, ConstructFrom(o, b) PROVE Leaks
      <4>1. heap' = heap /\ raw' = raw \ {b} /\ obj'[o].buf = b /\ obj[o].buf = NULL
            /\ \A p \in Objs : p # o => obj'[p] = obj[p]
        BY <3>4 DEF ConstructFrom, Begin, Fresh, Inv, TypeOK, DeadIsEmpty, Dead
      <4> QED  BY <4>1, MetadataAssumption DEF Leaks, Lost
    <3>5. ASSUME NEW c \in Holders, GetAndLock(c, o) \/ Unlock(c, o) PROVE Leaks
      <4>1. heap' = heap /\ raw' = raw /\ \A p \in Objs : obj'[p].buf = obj[p].buf
        BY <3>5 DEF GetAndLock, Unlock, Decline, Inv, TypeOK
      <4> QED  BY <4>1, NoOwnerNoHeapChange
    <3>6. ASSUME Sort(o) PROVE Leaks
      BY <3>6, DeclineLeaks DEF Sort
    <3> QED
      BY <2>2, <3>1, <3>2, <3>3, <3>4, <3>5, <3>6, OwnersLeak, AcquireRawLeaks, AcquireFromLeaks,
         SwapLeaks, AssignLeaks, AppendLeaks, UpdateLeaks, EraseLeaks
      DEF NextOf
  <2> QED  BY <2>1, <2>2 DEF Next
<1>2. Inv /\ [Next]_vars => [Step]_vars
  BY <1>1 DEF Leaks, FailedToGrow, TakesNothing
<1>3. []Inv /\ [][Next]_vars => LeaksOnlyThere
  BY <1>2, PTL DEF LeaksOnlyThere
<1> QED  BY <1>3, InvHolds, PTL DEF Spec
=============================================================================
