------------------------ MODULE CameraMetadataProofs ------------------------
(***************************************************************************)
(* Proofs about CameraMetadata, for any number of objects, buffers and     *)
(* holders, any tags and sizes, with an allocator that may always fail.    *)
(***************************************************************************)
EXTENDS CameraMetadata, TLAPS

-----------------------------------------------------------------------------
(* The inductive invariant. *)

Heaps == [Bufs -> Buffer]
Pointers == Bufs \cup {NULL}
Statuses == {"ok", "void", "refused", "failed"}

\* What is not alive owns nothing and is not locked.
DeadIsEmpty == \A o \in Objs : ~obj[o].alive => obj[o] = Dead

Inv == TypeOK /\ OneOwner /\ DeadIsEmpty

\* Over heap hp, nb can take the place of b: what is newly used was free before,
\* and nothing else changes.
Replaces(b, nb, hp) ==
    /\ nb \in Pointers
    /\ hp \in Heaps
    /\ \A x \in Bufs : x # b /\ x # nb => hp[x] = heap[x]
    /\ nb # NULL => hp[nb].live
    /\ nb # NULL /\ nb # b => ~heap[nb].live

-----------------------------------------------------------------------------
(* Buffers and the library calls on them. *)

LEMMA AllocateType ==
  ASSUME NEW e \in Nat, NEW d \in Nat
  PROVE  /\ allocate_camera_metadata(e, d) \in Buffer
         /\ allocate_camera_metadata(e, d).live
         /\ Unallocated \in Buffer
         /\ ~Unallocated.live
  BY DEF allocate_camera_metadata, Unallocated, Buffer, Bag, EmptyBag

LEMMA AppendType ==
  ASSUME NEW dst \in Buffer, NEW src \in Buffer
  PROVE  /\ append_camera_metadata(dst, src) \in Buffer
         /\ append_camera_metadata(dst, src).live = dst.live
<1> DEFINE sum == [k \in Kinds |-> dst.has[k] + src.has[k]]
<1>1. sum \in Bag
  BY DEF Buffer, Bag
<1>2. append_camera_metadata(dst, src) =
        IF ~Room(dst, src.entryCount, src.dataCount) THEN dst ELSE
        [dst EXCEPT !.has = sum, !.entryCount = @ + src.entryCount,
                    !.dataCount = @ + src.dataCount]
  BY DEF append_camera_metadata
<1> HIDE DEF sum
<1>3. CASE Room(dst, src.entryCount, src.dataCount)
  <2> DEFINE n == dst.entryCount + src.entryCount
             m == dst.dataCount + src.dataCount
  <2>1. n \in Nat /\ m \in Nat
    BY DEF Buffer
  <2> HIDE DEF n, m
  <2>2. append_camera_metadata(dst, src) =
          [dst EXCEPT !.has = sum, !.entryCount = n, !.dataCount = m]
    BY <1>2, <1>3 DEF n, m
  <2> QED  BY <1>1, <2>1, <2>2 DEF Buffer
<1>4. CASE ~Room(dst, src.entryCount, src.dataCount)
  BY <1>2, <1>4
<1> QED  BY <1>3, <1>4

LEMMA EntryType ==
  ASSUME NEW buffer \in Buffer, NEW k \in Kinds
  PROVE  /\ Insert(buffer, k) \in Buffer
         /\ Insert(buffer, k).live = buffer.live
         /\ buffer.has[k] > 0 => Delete(buffer, k) \in Buffer
         /\ Delete(buffer, k).live = buffer.live
<1>1. k[2] \in Nat
  BY MetadataAssumption DEF Kinds
<1>2. [buffer.has EXCEPT ![k] = @ + 1] \in Bag
  BY DEF Buffer, Bag
<1>3. buffer.has[k] > 0 => [buffer.has EXCEPT ![k] = @ - 1] \in Bag
  BY DEF Buffer, Bag
<1> DEFINE more == [buffer.has EXCEPT ![k] = @ + 1]
           less == [buffer.has EXCEPT ![k] = @ - 1]
           n == buffer.entryCount
           m == buffer.dataCount
<1>5. /\ n + 1 \in Nat /\ m + k[2] \in Nat
      /\ Less(n, 1) \in Nat /\ Less(m, k[2]) \in Nat
  <2>1. n \in Nat /\ m \in Nat /\ 1 \in Nat
    BY DEF Buffer
  <2> HIDE DEF n, m
  <2>2. Less(n, 1) \in Nat /\ Less(m, k[2]) \in Nat
    BY <1>1, <2>1 DEF Less
  <2> QED  BY <1>1, <2>1, <2>2
<1>6. Insert(buffer, k) =
        [buffer EXCEPT !.has = more, !.entryCount = n + 1, !.dataCount = m + k[2]]
  BY DEF Insert, Buffer
<1>7. Delete(buffer, k) =
        [buffer EXCEPT !.has = less, !.entryCount = Less(n, 1), !.dataCount = Less(m, k[2])]
  BY DEF Delete, Buffer
<1>8. more \in Bag /\ (buffer.has[k] > 0 => less \in Bag)
  BY <1>2, <1>3
<1> HIDE DEF more, less
<1>9. Insert(buffer, k) \in Buffer /\ Insert(buffer, k).live = buffer.live
  BY <1>5, <1>6, <1>8 DEF Buffer
<1>10. /\ buffer.has[k] > 0 => Delete(buffer, k) \in Buffer
       /\ Delete(buffer, k).live = buffer.live
  BY <1>5, <1>7, <1>8 DEF Buffer
<1> QED  BY <1>9, <1>10

LEMMA AllocationType == Allocation \subseteq Pointers
  BY DEF Allocation, Pointers

LEMMA FreedType ==
  ASSUME NEW hp \in Heaps, NEW b \in Pointers
  PROVE  Freed(hp, b) \in Heaps
  BY AllocateType DEF Freed, Heaps, Pointers

LEMMA GrownType ==
  ASSUME NEW n \in Nat, NEW m \in Nat, NEW cap \in Nat
  PROVE  Grown(n, m, cap) \in Nat /\ Grown(n, m, cap) >= cap /\ n + m <= Grown(n, m, cap)
  BY DEF Grown

-----------------------------------------------------------------------------
(* The outcomes of cloning and resizing. *)

LEMMA ClonedReplaces ==
  ASSUME TypeOK, NEW src \in Pointers, NEW c \in Cloned(src), NEW b \in Pointers,
         b # NULL => heap[b].live
  PROVE  /\ Replaces(b, c.buf, c.heap) /\ c.heap \in Heaps
         /\ c.buf # NULL => c.buf # b
         /\ \A x \in Bufs : x # c.buf => c.heap[x] = heap[x]
<1> USE MetadataAssumption DEF Replaces, Pointers, Heaps
<1>1. CASE src = NULL
  BY <1>1 DEF Cloned, TypeOK
<1>2. CASE src # NULL
  <2> DEFINE copy == append_camera_metadata(
                 allocate_camera_metadata(heap[src].entryCount, heap[src].dataCount),
                 heap[src])
  <2>1. copy \in Buffer /\ copy.live
    <3>1. heap[src] \in Buffer /\ heap[src].entryCount \in Nat /\ heap[src].dataCount \in Nat
      BY <1>2 DEF TypeOK, Buffer
    <3> QED  BY <3>1, AllocateType, AppendType
  <2>2. PICK a \in Allocation :
          c = [buf |-> a, heap |-> IF a = NULL THEN heap ELSE [heap EXCEPT ![a] = copy]]
    BY <1>2 DEF Cloned
  <2> HIDE DEF copy
  <2> QED  BY <2>1, <2>2 DEF Allocation, TypeOK
<1> QED  BY <1>1, <1>2

LEMMA ResizedReplaces ==
  ASSUME TypeOK, NEW b \in Pointers, b # NULL => heap[b].live,
         NEW e \in Nat, NEW d \in Nat, NEW r \in resizeIfNeeded(b, e, d)
  PROVE  /\ Replaces(b, r.buf, r.heap)
         /\ b # NULL /\ r.buf # b /\ r.heap[b].live => r.buf = NULL /\ AllocFails
<1> USE MetadataAssumption DEF Replaces, Pointers, Heaps
<1>1. CASE b = NULL
  <2>1. PICK a \in Allocation :
          r = [buf |-> a, heap |-> IF a = NULL THEN heap ELSE
                 [heap EXCEPT ![a] = allocate_camera_metadata(2 * e, 2 * d)]]
    BY <1>1 DEF resizeIfNeeded
  <2>2. allocate_camera_metadata(2 * e, 2 * d) \in Buffer
        /\ allocate_camera_metadata(2 * e, 2 * d).live
    BY AllocateType
  <2> QED  BY <1>1, <2>1, <2>2 DEF Allocation, TypeOK
<1>2. CASE b # NULL
  <2> DEFINE ee == Grown(heap[b].entryCount, e, heap[b].entryCap)
             dd == Grown(heap[b].dataCount, d, heap[b].dataCap)
  <2>1. heap[b] \in Buffer /\ ee \in Nat /\ dd \in Nat
    BY <1>2, GrownType DEF TypeOK, Buffer
  <2>2. Regrown(b, ee, dd) \in Buffer /\ Regrown(b, ee, dd).live
    BY <2>1, AllocateType, AppendType DEF Regrown
  <2>3. \/ r = [buf |-> b, heap |-> heap]
        \/ \E a \in Allocation :
             r = [buf |-> a, heap |-> IF a = NULL THEN Leaked(heap, b) ELSE
                    Freed([heap EXCEPT ![a] = Regrown(b, ee, dd)], b)]
    BY <1>2 DEF resizeIfNeeded
  <2> HIDE DEF ee, dd
  <2>4. CASE r = [buf |-> b, heap |-> heap]
    BY <1>2, <2>4 DEF TypeOK
  <2>5. ASSUME NEW a \in Allocation,
               r = [buf |-> a, heap |-> IF a = NULL THEN Leaked(heap, b) ELSE
                      Freed([heap EXCEPT ![a] = Regrown(b, ee, dd)], b)]
        PROVE  /\ Replaces(b, r.buf, r.heap)
               /\ r.buf # b /\ r.heap[b].live => r.buf = NULL /\ AllocFails
    <3>1. CASE a = NULL
      <4>1. Leaked(heap, b) \in Heaps /\ AllocFails
        BY <1>2, <3>1, AllocateType DEF Leaked, Allocation, TypeOK
      <4> QED  BY <1>2, <2>5, <3>1, <4>1 DEF Leaked, TypeOK
    <3>2. CASE a # NULL
      <4>1. a \in Bufs /\ ~heap[a].live /\ a # b
        BY <1>2, <3>2 DEF Allocation
      <4> DEFINE hp == [heap EXCEPT ![a] = Regrown(b, ee, dd)]
      <4>2. hp \in Heaps /\ hp[a].live
        BY <2>2, <4>1 DEF TypeOK
      <4>3. r.buf = a /\ r.heap = [hp EXCEPT ![b] = Unallocated]
        BY <1>2, <2>5, <3>2 DEF Freed
      <4>4. \A x \in Bufs : x # a => hp[x] = heap[x]
        BY DEF TypeOK
      <4> HIDE DEF hp
      <4> QED  BY <1>2, <4>1, <4>2, <4>3, <4>4, AllocateType
    <3> QED  BY <3>1, <3>2
  <2> QED  BY <2>3, <2>4, <2>5
<1> QED  BY <1>1, <1>2

-----------------------------------------------------------------------------
(* What the shared pieces of the actions leave behind. *)

LEMMA SetBufferKeeps ==
  ASSUME Inv, NEW o \in Objs, obj[o].alive, NEW b, NEW hp, NEW st \in Statuses,
         Replaces(obj[o].buf, b, hp), SetBuffer(o, b, hp, st)
  PROVE  Inv'
<1> USE MetadataAssumption DEF Pointers, Heaps, Statuses
<1>1. /\ heap' = hp /\ hp \in [Bufs -> Buffer]
      /\ obj' = [obj EXCEPT ![o].buf = b]
      /\ ret' = st /\ UNCHANGED <<raw, hold, wrong>>
  BY DEF SetBuffer, Replaces
<1>2. obj'[o] = [obj[o] EXCEPT !.buf = b] /\ \A p \in Objs : p # o => obj'[p] = obj[p]
  BY <1>1 DEF Inv, TypeOK
<1>3. TypeOK'
  <2>1. b \in Bufs \cup {NULL}
    BY DEF Replaces
  <2>2. obj' \in [Objs -> [alive : BOOLEAN, buf : Bufs \cup {NULL}, locked : BOOLEAN]]
    BY <1>1, <2>1 DEF Inv, TypeOK
  <2> QED  BY <1>1, <2>2 DEF Inv, TypeOK
<1>4. OneOwner'
  <2>1. obj'[o].buf = b /\ \A p \in Objs : p # o => obj'[p].buf = obj[p].buf
    BY <1>2 DEF Inv, TypeOK
  <2>2. b # NULL => /\ b \in Bufs /\ heap'[b].live /\ b \notin raw
                    /\ \A p \in Objs : p # o => obj[p].buf # b
    BY <1>1 DEF Inv, TypeOK, OneOwner, Replaces
  <2>3. \A x \in raw : heap'[x].live
    BY <1>1, <2>2 DEF Inv, TypeOK, OneOwner, Replaces
  <2>4. ASSUME NEW p \in Objs, p # o, obj[p].buf # NULL
        PROVE  heap'[obj[p].buf].live /\ obj[p].buf \notin raw
    <3>1. obj[p].buf \in Bufs /\ obj[p].buf # obj[o].buf /\ heap[obj[p].buf].live
      BY <2>4 DEF Inv, TypeOK, OneOwner
    <3>2. heap'[obj[p].buf] = heap[obj[p].buf]
      BY <1>1, <2>2, <2>4, <3>1 DEF Replaces
    <3> QED  BY <2>4, <3>1, <3>2 DEF Inv, OneOwner
  <2>5. ASSUME NEW p \in Objs, NEW q \in Objs, p # q, obj'[p].buf = obj'[q].buf
        PROVE  obj'[p].buf = NULL
    BY <2>1, <2>2, <2>5 DEF Inv, OneOwner
  <2> QED  BY <1>1, <2>1, <2>2, <2>3, <2>4, <2>5 DEF OneOwner
<1>5. DeadIsEmpty'
  BY <1>2 DEF Inv, TypeOK, DeadIsEmpty
<1> QED  BY <1>3, <1>4, <1>5 DEF Inv

LEMMA BeginKeeps ==
  ASSUME Inv, NEW o \in Objs, NEW b \in Pointers, NEW hp \in Heaps, Begin(o, b, hp),
         raw' \subseteq raw, b # NULL => hp[b].live /\ b \notin raw',
         \A p \in Objs : obj[p].buf # NULL => obj[p].buf # b,
         \A x \in Bufs : x # b => hp[x] = heap[x]
  PROVE  Inv'
<1> USE MetadataAssumption DEF Pointers, Heaps, Statuses
<1>1. /\ heap' = hp /\ obj' = [obj EXCEPT ![o] = Fresh(b)]
      /\ ret' = "void" /\ UNCHANGED <<hold, wrong>>
  BY DEF Begin
<1>2. obj'[o] = Fresh(b) /\ \A p \in Objs : p # o => obj'[p] = obj[p]
  BY <1>1 DEF Inv, TypeOK
<1>3. TypeOK'
  BY <1>1 DEF Inv, TypeOK, Fresh
<1>4. OneOwner'
  <2>1. obj'[o].buf = b /\ \A p \in Objs : p # o => obj'[p].buf = obj[p].buf
    BY <1>2 DEF Fresh
  <2>2. \A x \in raw' : x \in raw /\ heap'[x].live
    BY <1>1 DEF Inv, TypeOK, OneOwner
  <2>3. ASSUME NEW p \in Objs, p # o, obj[p].buf # NULL
        PROVE  heap'[obj[p].buf].live /\ obj[p].buf \notin raw'
    BY <1>1, <2>3 DEF Inv, TypeOK, OneOwner
  <2>4. ASSUME NEW p \in Objs, NEW q \in Objs, p # q, obj'[p].buf = obj'[q].buf
        PROVE  obj'[p].buf = NULL
    BY <2>1, <2>4 DEF Inv, OneOwner
  <2> QED  BY <1>1, <2>1, <2>2, <2>3, <2>4 DEF OneOwner
<1>5. DeadIsEmpty'
  BY <1>2 DEF Inv, DeadIsEmpty, Fresh
<1> QED  BY <1>3, <1>4, <1>5 DEF Inv

\* What the outcome of an allocation comes with.
LEMMA NewIsNobodys ==
  ASSUME Inv, NEW b, NEW hp, Replaces(NULL, b, hp)
  PROVE  /\ b \in Pointers /\ hp \in Heaps
         /\ b # NULL => hp[b].live /\ b \notin raw
         /\ \A p \in Objs : obj[p].buf # NULL => obj[p].buf # b
         /\ \A x \in Bufs : x # b => hp[x] = heap[x]
  BY MetadataAssumption DEF Replaces, Inv, TypeOK, OneOwner, Pointers

LEMMA DeclineKeeps ==
  ASSUME Inv, NEW st \in Statuses, Decline(st)
  PROVE  Inv'
  BY DEF Decline, Inv, TypeOK, OneOwner, DeadIsEmpty, Statuses

LEMMA UndefinedKeeps ==
  ASSUME Inv, NEW how \in {"null", "freed"}, Undefined(how)
  PROVE  Inv'
  BY DEF Undefined, Inv, TypeOK, OneOwner, DeadIsEmpty

\* Giving the own buffer back, for another one or for none.
LEMMA FreedReplaces ==
  ASSUME TypeOK, NEW b \in Pointers
  PROVE  Replaces(b, NULL, Freed(heap, b))
<1>1. Freed(heap, b) \in Heaps
  BY FreedType DEF TypeOK, Heaps
<1> QED  BY <1>1, MetadataAssumption DEF Replaces, Freed, Pointers, TypeOK

-----------------------------------------------------------------------------
(* One lemma per action. *)

LEMMA ConstructKeeps ==
  ASSUME Inv, NEW o \in Objs, Construct(o)
  PROVE  Inv'
<1>1. Replaces(NULL, NULL, heap)
  BY DEF Replaces, Pointers, Heaps, Inv, TypeOK
<1> QED  BY <1>1, BeginKeeps, NewIsNobodys DEF Construct, Begin

LEMMA ConstructSizedKeeps ==
  ASSUME Inv, NEW o \in Objs, NEW caps \in Capacities, ConstructSized(o, caps)
  PROVE  Inv'
<1> DEFINE new == allocate_camera_metadata(caps[1], caps[2])
<1>1. PICK a \in Allocation :
        Begin(o, a, IF a = NULL THEN heap ELSE [heap EXCEPT ![a] = new])
  BY DEF ConstructSized
<1>2. new \in Buffer /\ new.live
  <2>1. caps[1] \in Nat /\ caps[2] \in Nat
    BY MetadataAssumption
  <2> QED  BY <2>1, AllocateType
<1> HIDE DEF new
<1>3. Replaces(NULL, a, IF a = NULL THEN heap ELSE [heap EXCEPT ![a] = new])
  BY <1>2, MetadataAssumption DEF Replaces, Pointers, Heaps, Allocation, Inv, TypeOK
<1> QED  BY <1>1, <1>3, BeginKeeps, NewIsNobodys DEF ConstructSized

LEMMA CopyConstructKeeps ==
  ASSUME Inv, NEW o \in Objs, NEW p \in Objs, CopyConstruct(o, p)
  PROVE  Inv'
<1>1. PICK c \in Cloned(obj[p].buf) : Begin(o, c.buf, c.heap)
  BY DEF CopyConstruct
<1>2. obj[p].buf \in Pointers /\ NULL \in Pointers
  BY DEF Inv, TypeOK, Pointers
<1>3. Replaces(NULL, c.buf, c.heap)
  BY <1>2, ClonedReplaces DEF Inv
<1> QED  BY <1>1, <1>3, BeginKeeps, NewIsNobodys DEF CopyConstruct

LEMMA ConstructFromKeeps ==
  ASSUME Inv, NEW o \in Objs, NEW b \in raw, ConstructFrom(o, b)
  PROVE  Inv'
<1>1. b \in Pointers /\ heap \in Heaps /\ b \notin raw' /\ raw' \subseteq raw
      /\ heap[b].live /\ \A p \in Objs : obj[p].buf # NULL => obj[p].buf # b
  BY DEF ConstructFrom, Inv, TypeOK, OneOwner, Pointers, Heaps
<1> QED  BY <1>1, BeginKeeps DEF ConstructFrom

\* Acts on o alone: what it does to heap and to o is all there is.
LEMMA OwnerLeaves ==
  ASSUME Inv, NEW o \in Objs, heap' = Freed(heap, obj[o].buf),
         obj' = [obj EXCEPT ![o] = Dead], ret' = "void", UNCHANGED <<raw, hold, wrong>>
  PROVE  Inv'
<1>1. obj[o].buf \in Pointers
  BY DEF Inv, TypeOK, Pointers
<1>2. heap' \in [Bufs -> Buffer] /\ \A x \in Bufs : x # obj[o].buf => heap'[x] = heap[x]
  BY <1>1, FreedReplaces, MetadataAssumption DEF Inv, Replaces, Heaps, Pointers
<1>3. obj'[o] = Dead /\ \A p \in Objs : p # o => obj'[p] = obj[p]
  BY DEF Inv, TypeOK
<1>4. TypeOK'
  BY <1>2 DEF Inv, TypeOK, Dead
<1>5. OneOwner'
  <2>1. obj'[o].buf = NULL
    BY <1>3 DEF Dead
  <2>2. ASSUME NEW p \in Objs, p # o, obj[p].buf # NULL
        PROVE  heap'[obj[p].buf].live /\ obj[p].buf \notin raw'
    BY <1>2, <2>2 DEF Inv, TypeOK, OneOwner
  <2>3. \A x \in raw : heap'[x].live
    BY <1>2, MetadataAssumption DEF Inv, TypeOK, OneOwner
  <2>4. ASSUME NEW p \in Objs, NEW q \in Objs, p # q, obj'[p].buf = obj'[q].buf
        PROVE  obj'[p].buf = NULL
    BY <1>3, <2>1, <2>4 DEF Inv, OneOwner
  <2> QED  BY <1>3, <2>1, <2>2, <2>3, <2>4 DEF OneOwner
<1>6. DeadIsEmpty'
  BY <1>3 DEF Inv, DeadIsEmpty
<1> QED  BY <1>4, <1>5, <1>6 DEF Inv

LEMMA DestroyKeeps ==
  ASSUME Inv, NEW o \in Objs, Destroy(o)
  PROVE  Inv'
  BY OwnerLeaves DEF Destroy

LEMMA GetAndLockKeeps ==
  ASSUME Inv, NEW c \in Holders, NEW o \in Objs, GetAndLock(c, o)
  PROVE  Inv'
<1>1. obj' = [obj EXCEPT ![o].locked = TRUE]
  BY DEF GetAndLock
<1>2. TypeOK'
  BY DEF GetAndLock, Inv, TypeOK
<1>3. \A p \in Objs : obj'[p].buf = obj[p].buf /\ obj'[p].alive = obj[p].alive
  BY <1>1 DEF Inv, TypeOK
<1>4. OneOwner'
  BY <1>3 DEF GetAndLock, Inv, OneOwner
<1>5. DeadIsEmpty'
  BY <1>1 DEF GetAndLock, Inv, TypeOK, DeadIsEmpty
<1> QED  BY <1>2, <1>4, <1>5 DEF Inv

LEMMA UnlockKeeps ==
  ASSUME Inv, NEW c \in Holders, NEW o \in Objs, Unlock(c, o)
  PROVE  Inv'
<1>1. CASE ~Unlocks(c, o)
  BY <1>1, DeclineKeeps DEF Unlock, Statuses
<1>2. CASE Unlocks(c, o)
  <2>1. /\ obj' = [obj EXCEPT ![o].locked = FALSE] /\ obj[o].alive
        /\ hold' = [hold EXCEPT ![c] = NoHold]
        /\ ret' = "ok" /\ UNCHANGED <<heap, raw, wrong>>
    BY <1>2 DEF Unlock
  <2>2. TypeOK'
    BY <2>1 DEF Inv, TypeOK, NoHold
  <2>3. \A p \in Objs : obj'[p].buf = obj[p].buf /\ obj'[p].alive = obj[p].alive
    BY <2>1 DEF Inv, TypeOK
  <2>4. OneOwner'
    BY <2>1, <2>3 DEF Inv, OneOwner
  <2>5. DeadIsEmpty'
    BY <2>1 DEF Inv, TypeOK, DeadIsEmpty
  <2> QED  BY <2>2, <2>4, <2>5 DEF Inv
<1> QED  BY <1>1, <1>2

LEMMA ReleaseKeeps ==
  ASSUME Inv, NEW o \in Objs, Release(o)
  PROVE  Inv'
<1>1. CASE obj[o].locked
  BY <1>1, DeclineKeeps DEF Release, Statuses
<1>2. CASE ~obj[o].locked
  <2>1. /\ obj' = [obj EXCEPT ![o].buf = NULL] /\ obj[o].alive
        /\ raw' = raw \cup Released(o) /\ ret' = "void" /\ UNCHANGED <<heap, hold, wrong>>
    BY <1>2 DEF Release
  <2>2. obj'[o].buf = NULL /\ \A p \in Objs : p # o => obj'[p] = obj[p]
    BY <2>1 DEF Inv, TypeOK
  <2>3. Released(o) \subseteq Bufs /\ \A x \in Released(o) : x = obj[o].buf
    BY DEF Released, Inv, TypeOK
  <2>4. TypeOK'
    BY <2>1, <2>3 DEF Inv, TypeOK
  <2>5. OneOwner'
    <3>1. \A x \in raw' : heap'[x].live
      BY <2>1, <2>3, MetadataAssumption DEF Inv, TypeOK, OneOwner
    <3>2. ASSUME NEW p \in Objs, p # o, obj[p].buf # NULL
          PROVE  heap'[obj[p].buf].live /\ obj[p].buf \notin raw'
      BY <2>1, <2>3, <3>2 DEF Inv, TypeOK, OneOwner
    <3>3. ASSUME NEW p \in Objs, NEW q \in Objs, p # q, obj'[p].buf = obj'[q].buf
          PROVE  obj'[p].buf = NULL
      BY <2>2, <3>3 DEF Inv, OneOwner
    <3> QED  BY <2>2, <3>1, <3>2, <3>3 DEF OneOwner
  <2>6. DeadIsEmpty'
    BY <2>1, <2>2 DEF Inv, TypeOK, DeadIsEmpty
  <2> QED  BY <2>4, <2>5, <2>6 DEF Inv
<1> QED  BY <1>1, <1>2

LEMMA ClearKeeps ==
  ASSUME Inv, NEW o \in Objs, Clear(o)
  PROVE  Inv'
<1>1. CASE obj[o].locked
  BY <1>1, DeclineKeeps DEF Clear, Statuses
<1>2. CASE ~obj[o].locked
  <2>1. Replaces(obj[o].buf, NULL, Cleared(o))
    BY FreedReplaces DEF Cleared, Inv, TypeOK, Pointers
  <2> QED  BY <1>2, <2>1, SetBufferKeeps DEF Clear, Statuses
<1> QED  BY <1>1, <1>2

\* A caller's buffer b is used up and the heap changes at most at b and at the
\* address of an object that gives its own buffer away for nb.
LEMMA HandedOver ==
  ASSUME Inv, NEW o \in Objs, obj[o].alive, NEW b \in raw, NEW nb \in {obj[o].buf, b},
         NEW hp \in Heaps, heap' = hp, raw' = raw \ {b},
         obj' = [obj EXCEPT ![o].buf = nb], ret' = "void", UNCHANGED <<hold, wrong>>,
         \A x \in Bufs : x # b /\ (x # obj[o].buf \/ nb = obj[o].buf) => hp[x] = heap[x],
         nb = b => hp[b] = heap[b]
  PROVE  Inv'
<1>1. b \in Bufs /\ heap[b].live /\ b # NULL
      /\ \A p \in Objs : obj[p].buf # NULL => obj[p].buf # b
  BY MetadataAssumption DEF Inv, TypeOK, OneOwner
<1>2. obj'[o].buf = nb /\ \A p \in Objs : p # o => obj'[p] = obj[p]
  BY DEF Inv, TypeOK
<1>3. TypeOK'
  <2>1. obj' \in [Objs -> [alive : BOOLEAN, buf : Bufs \cup {NULL}, locked : BOOLEAN]]
    BY <1>1 DEF Inv, TypeOK
  <2> QED  BY <2>1 DEF Inv, TypeOK, Heaps
<1>4. OneOwner'
  <2>1. \A x \in raw' : heap'[x].live
    BY <1>1, MetadataAssumption DEF Inv, TypeOK, OneOwner
  <2>2. ASSUME NEW p \in Objs, p # o, obj[p].buf # NULL
        PROVE  heap'[obj[p].buf].live /\ obj[p].buf \notin raw'
    BY <1>1, <2>2 DEF Inv, TypeOK, OneOwner
  <2>3. nb # NULL => heap'[nb].live /\ nb \notin raw'
    BY <1>1 DEF Inv, TypeOK, OneOwner
  <2>4. ASSUME NEW p \in Objs, NEW q \in Objs, p # q, obj'[p].buf = obj'[q].buf
        PROVE  obj'[p].buf = NULL
    BY <1>1, <1>2, <2>4 DEF Inv, OneOwner
  <2> QED  BY <1>2, <2>1, <2>2, <2>3, <2>4 DEF OneOwner
<1>5. DeadIsEmpty'
  BY <1>2 DEF Inv, TypeOK, DeadIsEmpty
<1> QED  BY <1>3, <1>4, <1>5 DEF Inv

LEMMA AcquireRawKeeps ==
  ASSUME Inv, NEW o \in Objs, NEW b \in raw, AcquireRaw(o, b)
  PROVE  Inv'
<1>1. b \in Bufs /\ b # NULL /\ obj[o].buf # b
  BY MetadataAssumption DEF Inv, TypeOK, OneOwner
<1>2. CASE obj[o].locked
  <2>1. obj' = obj /\ obj = [obj EXCEPT ![o].buf = obj[o].buf]
    BY <1>2 DEF AcquireRaw, Inv, TypeOK
  <2>2. heap' = Leaked(heap, b) /\ heap' \in Heaps
        /\ \A x \in Bufs : x # b => heap'[x] = heap[x]
    <3>1. allocate_camera_metadata(0, 0) \in Buffer
      BY AllocateType
    <3>2. heap' = [heap EXCEPT ![b] = allocate_camera_metadata(0, 0)]
      BY <1>2 DEF AcquireRaw, Leaked
    <3> QED  BY <1>1, <3>1, <3>2 DEF Leaked, Heaps, Inv, TypeOK
  <2> QED  BY <1>1, <2>1, <2>2, HandedOver DEF AcquireRaw
<1>3. CASE ~obj[o].locked
  <2>1. heap' \in Heaps /\ \A x \in Bufs : x # obj[o].buf => heap'[x] = heap[x]
    BY <1>3, FreedReplaces, MetadataAssumption
    DEF AcquireRaw, Cleared, Replaces, Inv, TypeOK, Pointers
  <2> QED  BY <1>1, <1>3, <2>1, HandedOver DEF AcquireRaw
<1> QED  BY <1>2, <1>3

LEMMA SwapKeeps ==
  ASSUME Inv, NEW o \in Objs, NEW p \in Objs, Swap(o, p)
  PROVE  Inv'
<1>1. CASE ~Swaps(o, p)
  BY <1>1, DeclineKeeps DEF Swap, Statuses
<1>2. CASE Swaps(o, p)
  <2>1. /\ obj' = [obj EXCEPT ![o].buf = obj[p].buf, ![p].buf = obj[o].buf]
        /\ obj[o].alive /\ obj[p].alive
        /\ ret' = "void" /\ UNCHANGED <<heap, raw, hold, wrong>>
    BY <1>2 DEF Swap
  <2>2. /\ obj'[o].buf = obj[p].buf /\ obj'[p].buf = obj[o].buf
        /\ \A q \in Objs : q # o /\ q # p => obj'[q] = obj[q]
        /\ \A q \in Objs : obj'[q].alive = obj[q].alive
    BY <2>1 DEF Inv, TypeOK
  <2>3. TypeOK'
    BY <2>1 DEF Inv, TypeOK
  <2>4. OneOwner'
    <3>1. \A q \in Objs : obj'[q].buf # NULL =>
            heap'[obj'[q].buf].live /\ obj'[q].buf \notin raw'
      <4>1. \A q \in Objs : \E r \in Objs : obj'[q].buf = obj[r].buf
        BY <2>2
      <4>2. \A r \in Objs : obj[r].buf # NULL => heap[obj[r].buf].live /\ obj[r].buf \notin raw
        BY DEF Inv, OneOwner
      <4>3. heap' = heap /\ raw' = raw
        BY <2>1
      <4>4. ASSUME NEW q \in Objs, obj'[q].buf # NULL
            PROVE  heap[obj'[q].buf].live /\ obj'[q].buf \notin raw
        <5>1. PICK r \in Objs : obj'[q].buf = obj[r].buf
          BY <4>1
        <5> QED  BY <4>2, <4>4, <5>1
      <4> QED  BY <4>3, <4>4
    <3>2. ASSUME NEW q \in Objs, NEW r \in Objs, q # r, obj'[q].buf = obj'[r].buf
          PROVE  obj'[q].buf = NULL
      BY <2>2, <3>2 DEF Inv, OneOwner
    <3>3. \A b \in raw' : heap'[b].live
      BY <2>1 DEF Inv, OneOwner
    <3> QED  BY <3>1, <3>2, <3>3 DEF OneOwner
  <2>5. DeadIsEmpty'
    BY <2>1, <2>2 DEF Inv, TypeOK, DeadIsEmpty
  <2> QED  BY <2>3, <2>4, <2>5 DEF Inv
<1> QED  BY <1>1, <1>2

LEMMA AcquireFromKeeps ==
  ASSUME Inv, NEW o \in Objs, NEW p \in Objs, AcquireFrom(o, p)
  PROVE  Inv'
<1> DEFINE got == IF obj[p].locked THEN NULL ELSE obj[p].buf
           left == IF obj[p].locked THEN obj ELSE [obj EXCEPT ![p].buf = NULL]
<1>1. CASE obj[o].locked
  BY <1>1, DeclineKeeps DEF AcquireFrom, Statuses
<1>2. CASE ~obj[o].locked
  <2>1. /\ obj[o].alive /\ obj[p].alive
        /\ heap' = Freed(heap, left[o].buf) /\ obj' = [left EXCEPT ![o].buf = got]
        /\ ret' = "void" /\ UNCHANGED <<raw, hold, wrong>>
    BY <1>2 DEF AcquireFrom
  <2>2. /\ left \in [Objs -> [alive : BOOLEAN, buf : Bufs \cup {NULL}, locked : BOOLEAN]]
        /\ got \in Pointers
        /\ \A q \in Objs : left[q].alive = obj[q].alive
        /\ \A q \in Objs : q # p => left[q] = obj[q]
        /\ left[p].buf = IF obj[p].locked THEN obj[p].buf ELSE NULL
    BY DEF Inv, TypeOK, Pointers
  <2> HIDE DEF left
  <2>3. /\ heap' \in Heaps /\ left[o].buf \in Pointers
        /\ \A x \in Bufs : x # left[o].buf => heap'[x] = heap[x]
    BY <2>1, <2>2, FreedReplaces, MetadataAssumption DEF Replaces, Inv, TypeOK, Pointers
  <2>4. /\ obj'[o].buf = got
        /\ \A q \in Objs : q # o => obj'[q] = left[q]
        /\ \A q \in Objs : obj'[q].alive = obj[q].alive
    BY <2>1, <2>2
  <2>5. TypeOK'
    BY <2>1, <2>2, <2>3 DEF Inv, TypeOK, Heaps, Pointers
  <2>6. OneOwner'
    <3>1. got # NULL => /\ heap'[got].live /\ got \notin raw
                        /\ \A q \in Objs : q # o => left[q].buf # got
      BY <2>1, <2>2, <2>3 DEF Inv, TypeOK, OneOwner, Pointers
    <3>2. ASSUME NEW q \in Objs, q # o, left[q].buf # NULL
          PROVE  heap'[left[q].buf].live /\ left[q].buf \notin raw
      BY <2>2, <2>3, <3>2 DEF Inv, TypeOK, OneOwner, Pointers
    <3>3. \A x \in raw : heap'[x].live
      BY <2>2, <2>3, MetadataAssumption DEF Inv, TypeOK, OneOwner, Pointers
    <3>4. ASSUME NEW q \in Objs, NEW r \in Objs, q # r, obj'[q].buf = obj'[r].buf
          PROVE  obj'[q].buf = NULL
      BY <2>2, <2>4, <3>1, <3>4 DEF Inv, OneOwner
    <3> HIDE DEF got
    <3> QED  BY <2>1, <2>4, <3>1, <3>2, <3>3, <3>4 DEF OneOwner
  <2>7. DeadIsEmpty'
    BY <2>1, <2>2, <2>4 DEF Inv, TypeOK, DeadIsEmpty
  <2> QED  BY <2>5, <2>6, <2>7 DEF Inv
<1> QED  BY <1>1, <1>2

LEMMA AssignKeeps ==
  ASSUME Inv, NEW o \in Objs, NEW src \in Given, Assign(o, src)
  PROVE  Inv'
<1>1. CASE obj[o].locked \/ src = obj[o].buf
  BY <1>1, DeclineKeeps DEF Assign, Statuses
<1>2. CASE ~(obj[o].locked \/ src = obj[o].buf)
  <2>1. PICK c \in Cloned(src) :
          SetBuffer(o, c.buf, Freed(c.heap, obj[o].buf), "void") /\ obj[o].alive
    BY <1>2 DEF Assign
  <2>2. src \in Pointers /\ obj[o].buf \in Pointers
    BY DEF Given, Alive, Inv, TypeOK, Pointers
  <2>3. obj[o].buf # NULL => heap[obj[o].buf].live
    BY DEF Inv, OneOwner
  <2>4. /\ Replaces(obj[o].buf, c.buf, c.heap) /\ c.heap \in Heaps
        /\ c.buf # NULL => c.buf # obj[o].buf
    BY <2>2, <2>3, ClonedReplaces DEF Inv
  <2>5. Replaces(obj[o].buf, c.buf, Freed(c.heap, obj[o].buf))
    <3>1. Freed(c.heap, obj[o].buf) \in Heaps
      BY <2>2, <2>4, FreedType
    <3>2. \A x \in Bufs : x # obj[o].buf => Freed(c.heap, obj[o].buf)[x] = c.heap[x]
      BY <2>2, <2>4 DEF Freed, Heaps
    <3> QED  BY <2>4, <3>1, <3>2, MetadataAssumption DEF Replaces, Pointers
  <2> QED  BY <2>1, <2>5, SetBufferKeeps DEF Statuses
<1> QED  BY <1>1, <1>2

LEMMA FreeRawKeeps ==
  ASSUME Inv, NEW b \in raw, FreeRaw(b)
  PROVE  Inv'
<1>1. b \in Bufs /\ b # NULL
  BY MetadataAssumption DEF Inv, TypeOK
<1>2. /\ heap' \in Heaps /\ \A x \in Bufs : x # b => heap'[x] = heap[x]
      /\ raw' = raw \ {b} /\ ret' = "void" /\ UNCHANGED <<obj, hold, wrong>>
  BY <1>1, FreedReplaces, MetadataAssumption DEF FreeRaw, Replaces, Inv, Pointers
<1>3. TypeOK'
  BY <1>2 DEF Inv, TypeOK, Heaps
<1>4. OneOwner'
  BY <1>2 DEF Inv, TypeOK, OneOwner
<1>5. DeadIsEmpty'
  BY <1>2 DEF Inv, DeadIsEmpty
<1> QED  BY <1>3, <1>4, <1>5 DEF Inv

\* An object whose buffer is there may write into it.
LEMMA WriteReplaces ==
  ASSUME NEW b \in Pointers, NEW nb \in Bufs, NEW hp, Replaces(b, nb, hp),
         NEW new \in Buffer, new.live
  PROVE  Replaces(b, nb, [hp EXCEPT ![nb] = new])
  BY MetadataAssumption DEF Replaces, Heaps, Pointers

LEMMA AppendKeeps ==
  ASSUME Inv, NEW o \in Objs, NEW src \in Given, Append(o, src)
  PROVE  Inv'
<1>1. CASE obj[o].locked
  BY <1>1, DeclineKeeps DEF Append, Statuses
<1>2. CASE ~obj[o].locked /\ src = NULL
  BY <1>2, UndefinedKeeps DEF Append
<1>3. CASE ~obj[o].locked /\ src # NULL
  <2> DEFINE n == heap[src].entryCount
             m == heap[src].dataCount
  <2>1. src \in Bufs /\ n \in Nat /\ m \in Nat
    BY <1>3 DEF Given, Alive, Inv, TypeOK, Buffer
  <2>2. obj[o].buf \in Pointers /\ (obj[o].buf # NULL => heap[obj[o].buf].live)
    BY DEF Inv, TypeOK, OneOwner, Pointers
  <2>3. PICK r \in resizeIfNeeded(obj[o].buf, n, m) :
          IF ~r.heap[src].live
          THEN Undefined("freed")
          ELSE IF r.buf = NULL \/ ~Room(r.heap[r.buf], n, m)
          THEN SetBuffer(o, r.buf, r.heap, "failed")
          ELSE SetBuffer(o, r.buf, [r.heap EXCEPT ![r.buf] =
                   append_camera_metadata(@, r.heap[src])], "ok")
    BY <1>3 DEF Append
  <2>4. obj[o].alive
    BY DEF Append
  <2> HIDE DEF n, m
  <2>5. Replaces(obj[o].buf, r.buf, r.heap)
    BY <2>1, <2>2, ResizedReplaces DEF Inv
  <2>6. CASE ~r.heap[src].live
    BY <2>3, <2>6, UndefinedKeeps
  <2>7. CASE r.heap[src].live /\ (r.buf = NULL \/ ~Room(r.heap[r.buf], n, m))
    BY <2>3, <2>4, <2>5, <2>7, SetBufferKeeps DEF Statuses
  <2>8. CASE r.heap[src].live /\ ~(r.buf = NULL \/ ~Room(r.heap[r.buf], n, m))
    <3> DEFINE new == append_camera_metadata(r.heap[r.buf], r.heap[src])
    <3>1. r.buf \in Bufs /\ r.heap[r.buf] \in Buffer /\ r.heap[src] \in Buffer
          /\ r.heap[r.buf].live
      BY <2>1, <2>5, <2>8 DEF Replaces, Heaps, Pointers
    <3>2. new \in Buffer /\ new.live
      BY <3>1, AppendType
    <3>3. SetBuffer(o, r.buf, [r.heap EXCEPT ![r.buf] = new], "ok")
      BY <2>3, <2>8
    <3> HIDE DEF new
    <3>4. Replaces(obj[o].buf, r.buf, [r.heap EXCEPT ![r.buf] = new])
      BY <2>2, <2>5, <3>1, <3>2, WriteReplaces
    <3> QED  BY <2>4, <3>3, <3>4, SetBufferKeeps DEF Statuses
  <2> QED  BY <2>6, <2>7, <2>8
<1> QED  BY <1>1, <1>2, <1>3

\* The second half of updateImpl leaves the buffer in its place.
LEMMA WrittenReplaces ==
  ASSUME NEW b \in Pointers, NEW nb \in Bufs, NEW hp, Replaces(b, nb, hp),
         NEW k \in Kinds, NEW w \in Written(nb, hp, k)
  PROVE  Replaces(b, nb, w.heap) /\ w.status \in {"ok", "failed"}
<1>1. hp[nb] \in Buffer /\ hp[nb].live
  BY MetadataAssumption DEF Replaces, Heaps
<1>2. PICK rest \in Buffer : rest.live /\ w = Stored(nb, hp, rest, k)
  <2>1. CASE Found(hp[nb], k[1]) = {}
    BY <1>1, <2>1 DEF Written
  <2>2. CASE Found(hp[nb], k[1]) # {}
    <3>1. PICK old \in Found(hp[nb], k[1]) : w = Stored(nb, hp, Delete(hp[nb], old), k)
      BY <2>2 DEF Written
    <3>2. Delete(hp[nb], old) \in Buffer /\ Delete(hp[nb], old).live
      BY <1>1, EntryType DEF Found
    <3> QED  BY <3>1, <3>2
  <2> QED  BY <2>1, <2>2
<1>3. Insert(rest, k) \in Buffer /\ Insert(rest, k).live
  BY <1>2, EntryType
<1>4. Replaces(b, nb, [hp EXCEPT ![nb] = Insert(rest, k)])
  BY <1>3, WriteReplaces
<1> QED  BY <1>2, <1>4 DEF Stored

LEMMA UpdateKeeps ==
  ASSUME Inv, NEW o \in Objs, NEW k \in Kinds, NEW src \in Given \cup {NULL},
         NEW typed \in BOOLEAN, Update(o, k, src, typed)
  PROVE  Inv'
<1>1. CASE obj[o].locked \/ ~typed \/ SameBuffer(o, src)
  BY <1>1, DeclineKeeps DEF Update, Statuses
<1>2. CASE ~(obj[o].locked \/ ~typed \/ SameBuffer(o, src))
  <2>1. PICK r \in resizeIfNeeded(obj[o].buf, 1, k[2]) :
          IF r.buf = NULL
          THEN SetBuffer(o, NULL, r.heap, "failed")
          ELSE IF src # NULL /\ ~r.heap[src].live
          THEN Undefined("freed")
          ELSE \E w \in Written(r.buf, r.heap, k) :
                   SetBuffer(o, r.buf, w.heap, w.status)
    BY <1>2 DEF Update
  <2>2. obj[o].buf \in Pointers /\ (obj[o].buf # NULL => heap[obj[o].buf].live)
        /\ obj[o].alive
    BY DEF Inv, TypeOK, OneOwner, Pointers, Update
  <2>3. 1 \in Nat /\ k[2] \in Nat
    BY MetadataAssumption DEF Kinds
  <2>4. Replaces(obj[o].buf, r.buf, r.heap)
    BY <2>2, <2>3, ResizedReplaces DEF Inv
  <2>5. CASE r.buf = NULL
    BY <2>1, <2>2, <2>4, <2>5, SetBufferKeeps DEF Statuses
  <2>6. CASE r.buf # NULL /\ src # NULL /\ ~r.heap[src].live
    BY <2>1, <2>6, UndefinedKeeps
  <2>7. CASE r.buf # NULL /\ ~(src # NULL /\ ~r.heap[src].live)
    <3>1. PICK w \in Written(r.buf, r.heap, k) : SetBuffer(o, r.buf, w.heap, w.status)
      BY <2>1, <2>7
    <3>2. r.buf \in Bufs
      BY <2>4, <2>7 DEF Replaces, Pointers
    <3>3. Replaces(obj[o].buf, r.buf, w.heap) /\ w.status \in Statuses
      BY <2>2, <2>4, <3>2, WrittenReplaces DEF Statuses
    <3> QED  BY <2>2, <3>1, <3>3, SetBufferKeeps
  <2> QED  BY <2>5, <2>6, <2>7
<1> QED  BY <1>1, <1>2

LEMMA EraseKeeps ==
  ASSUME Inv, NEW o \in Objs, NEW t \in Tags, Erase(o, t)
  PROVE  Inv'
<1> DEFINE b == obj[o].buf
<1>1. CASE obj[o].locked \/ b = NULL
  BY <1>1, DeclineKeeps DEF Erase, Statuses
<1>2. CASE ~(obj[o].locked \/ b = NULL) /\ Found(heap[b], t) = {}
  BY <1>2, DeclineKeeps DEF Erase, Statuses
<1>3. CASE ~(obj[o].locked \/ b = NULL) /\ Found(heap[b], t) # {}
  <2>1. PICK old \in Found(heap[b], t) :
          SetBuffer(o, b, [heap EXCEPT ![b] = Delete(heap[b], old)], "ok")
    BY <1>3 DEF Erase
  <2>2. b \in Bufs /\ heap[b] \in Buffer /\ heap[b].live /\ obj[o].alive
        /\ heap \in Heaps /\ b \in Pointers
    BY <1>3 DEF Inv, TypeOK, OneOwner, Erase, Heaps, Pointers
  <2>3. Delete(heap[b], old) \in Buffer /\ Delete(heap[b], old).live
    BY <2>2, EntryType DEF Found
  <2> HIDE DEF b
  <2>4. Replaces(b, b, [heap EXCEPT ![b] = Delete(heap[b], old)])
    <3>1. Replaces(b, b, heap)
      BY <2>2 DEF Replaces
    <3> QED  BY <2>2, <2>3, <3>1, WriteReplaces
  <2> QED  BY <2>1, <2>2, <2>4, SetBufferKeeps DEF b, Statuses
<1> QED  BY <1>1, <1>2, <1>3

LEMMA SortKeeps ==
  ASSUME Inv, NEW o \in Objs, Sort(o)
  PROVE  Inv'
  BY DeclineKeeps DEF Sort, Statuses

LEMMA InvInit == Init => Inv
  BY MetadataAssumption, AllocateType
  DEF Init, Inv, TypeOK, OneOwner, DeadIsEmpty, Dead, NoHold

LEMMA InvNext == Inv /\ [Next]_vars => Inv'
<1> SUFFICES ASSUME Inv, [Next]_vars PROVE Inv'
  OBVIOUS
<1>1. CASE UNCHANGED vars
  BY <1>1 DEF vars, Inv, TypeOK, OneOwner, DeadIsEmpty
<1>2. ASSUME NEW o \in Objs, NextOf(o) PROVE Inv'
  BY <1>2, ConstructKeeps, ConstructSizedKeeps, CopyConstructKeeps, ConstructFromKeeps,
     DestroyKeeps, GetAndLockKeeps, UnlockKeeps, ReleaseKeeps, ClearKeeps, AcquireRawKeeps,
     AcquireFromKeeps, SwapKeeps, AssignKeeps, AppendKeeps, UpdateKeeps, EraseKeeps,
     SortKeeps
  DEF NextOf
<1>3. ASSUME NEW b \in raw, FreeRaw(b) PROVE Inv'
  BY <1>3, FreeRawKeeps
<1> QED  BY <1>1, <1>2, <1>3 DEF Next

LEMMA InvHolds == Spec => []Inv
<1> QED  BY InvInit, InvNext, PTL DEF Spec

\* Every variable keeps its type; heap, counts and capacities are natural numbers.
THEOREM MetadataTypeCorrect == Spec => []TypeOK
<1>1. Inv => TypeOK
  BY DEF Inv
<1> QED  BY <1>1, InvHolds, PTL

\* Whatever the callers do, with every habit and an allocator that may fail at any
\* call, a buffer has one owner at most and no owner points to freed memory: no
\* sequence of assignments, hand-overs, swaps and reallocations frees twice.
THEOREM OneOwnerHolds == Spec => []OneOwner
<1>1. Inv => OneOwner
  BY DEF Inv
<1> QED  BY <1>1, InvHolds, PTL
=============================================================================
