---------------------- MODULE CameraMetadataRefinement ----------------------
(***************************************************************************)
(* CameraMetadata implements MetadataValues: with the buffers out of sight *)
(* its objects are values, for every number of them, any callers and an    *)
(* allocator that may fail at any call.  First what the shared pieces of   *)
(* the actions do to the values, then one lemma per action.                *)
(***************************************************************************)
EXTENDS CameraMetadataSafety

-----------------------------------------------------------------------------
(* The mapping, by name. *)

Val == [o \in Objs |-> Contents(obj[o].buf)]
Loose == [b \in raw |-> heap[b].has]
Frozen == {o \in Objs : obj[o].locked}

\* What an implementing step comes to.
Implements == Values!Next \/ UNCHANGED <<Val, Loose, Frozen, ret>>

LEMMA ValuesOfGiven ==
  ASSUME Inv, NEW src \in Given
  PROVE  /\ Contents(src) \in Values!Values \cup {EmptyBag}
         /\ src # NULL => Contents(src) \in Values!Values
<1>1. ASSUME NEW p \in Objs PROVE Contents(obj[p].buf) \in Values!Values
  BY DEF Values!Values
<1>2. ASSUME NEW b \in raw PROVE Contents(b) \in Values!Values
  BY MetadataAssumption DEF Values!Values, Contents, Inv, TypeOK
<1> QED  BY <1>1, <1>2 DEF Given, Alive

\* Values that are given by the same formulas in both modules.
LEMMA SameBags ==
  Kinds = Values!Kinds /\ EmptyBag = Values!EmptyBag
  BY DEF Kinds, EmptyBag, Values!Kinds, Values!EmptyBag

LEMMA ValType ==
  ASSUME Inv
  PROVE  Val \in [Objs -> [Kinds -> Nat]]
  BY DEF Val, Contents, EmptyBag, Inv, TypeOK, Buffer, Bag

-----------------------------------------------------------------------------
(* What the shared pieces do to the values. *)

LEMMA SetBufferValue ==
  ASSUME Inv, NEW o \in Objs, NEW b, NEW hp, NEW st,
         Replaces(obj[o].buf, b, hp), SetBuffer(o, b, hp, st)
  PROVE  /\ Val' = [Val EXCEPT ![o] = IF b = NULL THEN EmptyBag ELSE hp[b].has]
         /\ Loose' = Loose /\ Frozen' = Frozen /\ ret' = st
<1>1. /\ heap' = hp /\ raw' = raw /\ ret' = st
      /\ obj'[o] = [obj[o] EXCEPT !.buf = b]
      /\ \A p \in Objs : p # o => obj'[p] = obj[p]
  BY DEF SetBuffer, Inv, TypeOK
<1>2. obj'[o].buf = b /\ obj'[o].locked = obj[o].locked
  BY <1>1 DEF Inv, TypeOK
<1>3. Frozen' = Frozen
  BY <1>1, <1>2 DEF Frozen
<1>4. \A x \in Bufs : heap[x].live /\ x # obj[o].buf => hp[x] = heap[x]
  BY MetadataAssumption DEF Replaces
<1>5. Loose' = Loose
  <2>1. \A x \in raw : x \in Bufs /\ heap[x].live /\ x # obj[o].buf
    BY MetadataAssumption DEF Inv, TypeOK, OneOwner
  <2> QED  BY <1>1, <1>4, <2>1 DEF Loose
<1>6. ASSUME NEW p \in Objs, p # o PROVE Contents(obj[p].buf)' = Contents(obj[p].buf)
  <2>1. obj'[p].buf = obj[p].buf
    BY <1>1, <1>6
  <2>2. obj[p].buf # NULL => obj[p].buf \in Bufs /\ heap[obj[p].buf].live
                             /\ obj[p].buf # obj[o].buf
    BY <1>6 DEF Inv, TypeOK, OneOwner
  <2> QED  BY <1>1, <1>4, <2>1, <2>2 DEF Contents
<1>7. Contents(obj[o].buf)' = IF b = NULL THEN EmptyBag ELSE hp[b].has
  BY <1>1, <1>2 DEF Contents
<1>8. Val' = [Val EXCEPT ![o] = IF b = NULL THEN EmptyBag ELSE hp[b].has]
  BY <1>6, <1>7 DEF Val
<1> QED  BY <1>1, <1>3, <1>5, <1>8

LEMMA DeclineImplements ==
  ASSUME NEW st \in {"refused", "void"}, Decline(st)
  PROVE  Implements
  BY DEF Decline, Implements, Val, Loose, Frozen, Contents, Values!Next, Values!Decline

LEMMA UndefinedImplements ==
  ASSUME NEW how, Undefined(how)
  PROVE  Implements
  BY DEF Undefined, Implements, Val, Loose, Frozen, Contents

\* A value that is copied into an object that is not locked.
LEMMA CopyImplements ==
  ASSUME NEW o \in Objs, o \notin Frozen, NEW v \in Values!Values \cup {EmptyBag},
         Val' = [Val EXCEPT ![o] = v], Loose' = Loose, Frozen' = Frozen, ret' = "void"
  PROVE  Implements
<1>1. Values!Copy(o, v)
  BY DEF Values!Copy, Values!Change, Val, Loose, Frozen
<1> QED  BY <1>1, SameBags DEF Implements, Values!Next

LEMMA LoseImplements ==
  ASSUME Inv, NEW o \in Objs, ~obj[o].locked, OutOfMemory(o)
  PROVE  Implements
<1>1. PICK hp : /\ AllocFails
                /\ Replaces(obj[o].buf, NULL, hp)
                /\ SetBuffer(o, NULL, hp, "failed")
  BY DEF OutOfMemory
<1>2. /\ Val' = [Val EXCEPT ![o] = EmptyBag]
      /\ Loose' = Loose /\ Frozen' = Frozen /\ ret' = "failed"
  BY <1>1, SetBufferValue
<1>3. Values!Lose(o)
  BY <1>1, <1>2, SameBags DEF Values!Lose, Values!Change, Val, Loose, Frozen
<1> QED  BY <1>3 DEF Implements, Values!Next

-----------------------------------------------------------------------------
(* Construction and destruction. *)

LEMMA BeginValue ==
  ASSUME Inv, NEW o \in Objs, NEW b \in Pointers, NEW hp, Begin(o, b, hp),
         \A p \in Objs : obj[p].buf # NULL => obj[p].buf # b,
         \A x \in Bufs : x # b => hp[x] = heap[x]
  PROVE  /\ o \notin Frozen /\ Frozen' = Frozen /\ ret' = "void"
         /\ Val' = [Val EXCEPT ![o] = IF b = NULL THEN EmptyBag ELSE hp[b].has]
<1>1. /\ heap' = hp /\ ret' = "void" /\ obj'[o] = Fresh(b) /\ ~obj[o].locked
      /\ \A p \in Objs : p # o => obj'[p] = obj[p]
  BY DEF Begin, Inv, TypeOK, DeadIsEmpty, Dead
<1>2. obj'[o].buf = b /\ ~obj'[o].locked
  BY <1>1 DEF Fresh
<1>3. o \notin Frozen /\ Frozen' = Frozen
  BY <1>1, <1>2 DEF Frozen
<1>4. ASSUME NEW p \in Objs, p # o PROVE Contents(obj[p].buf)' = Contents(obj[p].buf)
  BY <1>1, <1>4 DEF Contents, Inv, TypeOK
<1>5. Contents(obj[o].buf)' = IF b = NULL THEN EmptyBag ELSE hp[b].has
  BY <1>1, <1>2 DEF Contents
<1> QED  BY <1>1, <1>3, <1>4, <1>5 DEF Val

\* A constructor that allocates, or does not: the new object is a copy of v.
LEMMA NewImplements ==
  ASSUME Inv, NEW o \in Objs, NEW b, NEW hp, Replaces(NULL, b, hp), Begin(o, b, hp), raw' = raw,
         NEW v \in Values!Values \cup {EmptyBag}, (IF b = NULL THEN EmptyBag ELSE hp[b].has) = v
  PROVE  Implements
<1>1. /\ b \in Pointers /\ \A x \in Bufs : x # b => hp[x] = heap[x]
      /\ \A p \in Objs : obj[p].buf # NULL => obj[p].buf # b
      /\ b # NULL => b \notin raw
  BY NewIsNobodys
<1>2. /\ o \notin Frozen /\ Frozen' = Frozen /\ ret' = "void"
      /\ Val' = [Val EXCEPT ![o] = v]
  BY <1>1, BeginValue
<1>3. Loose' = Loose
  <2>1. heap' = hp /\ \A x \in raw : x \in Bufs /\ x # b
    BY <1>1, MetadataAssumption DEF Begin, Inv, TypeOK
  <2> QED  BY <1>1, <2>1 DEF Loose
<1> QED  BY <1>2, <1>3, CopyImplements

LEMMA ConstructImplements ==
  ASSUME Inv, NEW o \in Objs,
         \/ Construct(o)
         \/ \E caps \in Capacities : ConstructSized(o, caps)
         \/ \E p \in Objs : CopyConstruct(o, p)
  PROVE  Implements
<1>1. CASE Construct(o)
  <2>1. Replaces(NULL, NULL, heap)
    BY DEF Replaces, Pointers, Heaps, Inv, TypeOK
  <2> QED  BY <1>1, <2>1, NewImplements DEF Construct
<1>2. ASSUME NEW caps \in Capacities, ConstructSized(o, caps) PROVE Implements
  <2> DEFINE new == allocate_camera_metadata(caps[1], caps[2])
             hp(a) == IF a = NULL THEN heap ELSE [heap EXCEPT ![a] = new]
  <2>1. PICK a \in Allocation : Begin(o, a, hp(a)) /\ raw' = raw
    BY <1>2 DEF ConstructSized
  <2>2. new \in Buffer /\ new.live /\ new.has = EmptyBag
    <3>1. caps[1] \in Nat /\ caps[2] \in Nat
      BY MetadataAssumption
    <3> QED  BY <3>1, AllocateType DEF allocate_camera_metadata
  <2> HIDE DEF new
  <2>3. Replaces(NULL, a, hp(a))
    BY <2>2, MetadataAssumption DEF Replaces, Pointers, Heaps, Allocation, Inv, TypeOK
  <2>4. (IF a = NULL THEN EmptyBag ELSE hp(a)[a].has) = EmptyBag
    BY <2>2 DEF Allocation, Inv, TypeOK
  <2> HIDE DEF hp
  <2> QED  BY <2>1, <2>3, <2>4, NewImplements
<1>3. ASSUME NEW p \in Objs, CopyConstruct(o, p) PROVE Implements
  <2>1. PICK c \in Cloned(obj[p].buf) : Begin(o, c.buf, c.heap) /\ raw' = raw
    BY <1>3 DEF CopyConstruct
  <2>2. obj[p].buf \in Pointers /\ NULL \in Pointers /\ obj[p].buf \in Given
    BY <1>3 DEF CopyConstruct, Given, Alive, Inv, TypeOK, Pointers
  <2>3. /\ Replaces(NULL, c.buf, c.heap)
        /\ c.buf # NULL => c.heap[c.buf].has = Contents(obj[p].buf)
    BY <2>2, ClonedReplaces, ClonedContents DEF Inv
  <2> QED  BY <2>1, <2>2, <2>3, NewImplements, ValuesOfGiven
<1> QED  BY <1>1, <1>2, <1>3

LEMMA GivenUp ==
  ASSUME Inv, NEW b \in raw, raw' = raw \ {b}, \A x \in raw : x # b => heap'[x] = heap[x]
  PROVE  Loose' = [m \in DOMAIN Loose \ {b} |-> Loose[m]] /\ b \in DOMAIN Loose
  BY DEF Loose

LEMMA TakeImplements ==
  ASSUME Inv, NEW o \in Objs, o \notin Frozen, NEW b \in raw, raw' = raw \ {b},
         \A x \in raw : x # b => heap'[x] = heap[x],
         Val' = [Val EXCEPT ![o] = heap[b].has], Frozen' = Frozen, ret' = "void"
  PROVE  Implements
<1>1. /\ Loose' = [m \in DOMAIN Loose \ {b} |-> Loose[m]] /\ b \in DOMAIN Loose
      /\ Loose[b] = heap[b].has
  BY GivenUp DEF Loose
<1>2. Values!Take(o, b)
  BY <1>1 DEF Values!Take, Values!Change, Values!GiveUp, Val, Loose, Frozen
<1> QED  BY <1>1, <1>2 DEF Implements, Values!Next, Loose

LEMMA DropImplements ==
  ASSUME Inv, NEW b \in raw, raw' = raw \ {b}, \A x \in raw : x # b => heap'[x] = heap[x],
         Val' = Val, Frozen' = Frozen, ret' = "void"
  PROVE  Implements
<1>1. Loose' = [m \in DOMAIN Loose \ {b} |-> Loose[m]] /\ b \in DOMAIN Loose
  BY GivenUp
<1>2. Values!Drop(b)
  BY <1>1 DEF Values!Drop, Values!GiveUp, Val, Loose, Frozen
<1> QED  BY <1>1, <1>2 DEF Implements, Values!Next, Loose

LEMMA ConstructFromImplements ==
  ASSUME Inv, NEW o \in Objs, NEW b \in raw, ConstructFrom(o, b)
  PROVE  Implements
<1>1. Begin(o, b, heap) /\ raw' = raw \ {b} /\ heap' = heap
  BY DEF ConstructFrom, Begin
<1>2. b \in Pointers /\ b # NULL /\ \A p \in Objs : obj[p].buf # NULL => obj[p].buf # b
  BY MetadataAssumption DEF Inv, TypeOK, OneOwner, Pointers
<1>3. /\ o \notin Frozen /\ Frozen' = Frozen /\ ret' = "void"
      /\ Val' = [Val EXCEPT ![o] = heap[b].has]
  BY <1>1, <1>2, BeginValue
<1> QED  BY <1>1, <1>3, TakeImplements

LEMMA DestroyImplements ==
  ASSUME Inv, NEW o \in Objs, Destroy(o)
  PROVE  Implements
<1>1. /\ heap' = Freed(heap, obj[o].buf) /\ raw' = raw /\ ret' = "void"
      /\ obj'[o] = Dead /\ \A p \in Objs : p # o => obj'[p] = obj[p]
  BY DEF Destroy, Inv, TypeOK
<1>2. \A x \in Bufs : x # obj[o].buf => heap'[x] = heap[x]
  BY <1>1 DEF Freed, Inv, TypeOK
<1>3. Contents(obj[o].buf)' = EmptyBag /\ ~obj'[o].locked
  BY <1>1 DEF Dead, Contents
<1>4. ASSUME NEW p \in Objs, p # o PROVE Contents(obj[p].buf)' = Contents(obj[p].buf)
  BY <1>1, <1>2, <1>4 DEF Contents, Inv, TypeOK, OneOwner
<1>5. Val' = [Val EXCEPT ![o] = EmptyBag]
  BY <1>3, <1>4 DEF Val
<1>6. Loose' = Loose
  BY <1>1, <1>2, MetadataAssumption DEF Loose, Inv, TypeOK, OneOwner
<1>7. Frozen' = Frozen \ {o}
  BY <1>1, <1>3 DEF Frozen
<1>8. Values!End(o)
  BY <1>1, <1>5, <1>6, <1>7, SameBags DEF Values!End, Val, Loose, Frozen
<1> QED  BY <1>8 DEF Implements, Values!Next

-----------------------------------------------------------------------------
(* The lock. *)

LEMMA SameContents ==
  ASSUME heap' = heap, raw' = raw, \A p \in Objs : obj'[p].buf = obj[p].buf
  PROVE  Val' = Val /\ Loose' = Loose
  BY DEF Val, Loose, Contents

LEMMA GetAndLockImplements ==
  ASSUME Inv, NEW c \in Holders, NEW o \in Objs, GetAndLock(c, o)
  PROVE  Implements
<1>1. /\ heap' = heap /\ raw' = raw /\ ret' = "void"
      /\ \A p \in Objs : obj'[p].buf = obj[p].buf
      /\ obj'[o].locked /\ \A p \in Objs : p # o => obj'[p] = obj[p]
  BY DEF GetAndLock, Inv, TypeOK
<1>2. Val' = Val /\ Loose' = Loose /\ Frozen' = Frozen \cup {o}
  BY <1>1, SameContents DEF Frozen
<1>3. Values!Freeze(o)
  BY <1>1, <1>2 DEF Values!Freeze, Val, Loose, Frozen
<1> QED  BY <1>3 DEF Implements, Values!Next

LEMMA UnlockImplements ==
  ASSUME Inv, NEW c \in Holders, NEW o \in Objs, Unlock(c, o)
  PROVE  Implements
<1>1. CASE ~Unlocks(c, o)
  BY <1>1, DeclineImplements DEF Unlock
<1>2. CASE Unlocks(c, o)
  <2>1. /\ heap' = heap /\ raw' = raw /\ ret' = "ok"
        /\ \A p \in Objs : obj'[p].buf = obj[p].buf
        /\ ~obj'[o].locked /\ \A p \in Objs : p # o => obj'[p] = obj[p]
    BY <1>2 DEF Unlock, Inv, TypeOK
  <2>2. Val' = Val /\ Loose' = Loose /\ Frozen' = Frozen \ {o}
    BY <2>1, SameContents DEF Frozen
  <2>3. Values!Thaw(o)
    BY <2>1, <2>2 DEF Values!Thaw, Val, Loose, Frozen
  <2> QED  BY <2>3 DEF Implements, Values!Next
<1> QED  BY <1>1, <1>2

-----------------------------------------------------------------------------
(* Buffers that change hands. *)

LEMMA ReleaseImplements ==
  ASSUME Inv, NEW o \in Objs, Release(o)
  PROVE  Implements
<1>1. CASE obj[o].locked
  BY <1>1, DeclineImplements DEF Release
<1>2. CASE ~obj[o].locked
  <2> DEFINE b == obj[o].buf
  <2>1. /\ heap' = heap /\ raw' = raw \cup Released(o) /\ ret' = "void"
        /\ obj'[o].buf = NULL /\ ~obj'[o].locked
        /\ \A p \in Objs : p # o => obj'[p] = obj[p]
    BY <1>2 DEF Release, Inv, TypeOK
  <2>2. o \notin Frozen /\ Frozen' = Frozen
    BY <1>2, <2>1 DEF Frozen
  <2>3. Val' = [Val EXCEPT ![o] = EmptyBag]
    BY <2>1 DEF Val, Contents
  <2>4. CASE b = NULL
    <3>1. Loose' = Loose
      BY <2>1, <2>4 DEF Released, Loose
    <3> QED  BY <2>1, <2>2, <2>3, <3>1, CopyImplements
  <2>5. CASE b # NULL
    <3>1. raw' = raw \cup {b} /\ b \in Bufs /\ b \notin raw /\ Val[o] = heap[b].has
      BY <2>1, <2>5 DEF Released, Val, Contents, Inv, TypeOK, OneOwner
    <3>2. PICK n \in Bufs : n = b
      BY <3>1
    <3>3. /\ n \notin DOMAIN Loose
          /\ Loose' = [m \in DOMAIN Loose \cup {n} |-> IF m = n THEN Val[o] ELSE Loose[m]]
      BY <2>1, <3>1, <3>2 DEF Loose
    <3>4. Values!Release(o, n)
      BY <2>1, <2>2, <2>3, <3>3, SameBags
      DEF Values!Release, Values!Change, Val, Loose, Frozen
    <3> QED  BY <3>4 DEF Implements, Values!Next
  <2> QED  BY <2>4, <2>5
<1> QED  BY <1>1, <1>2

LEMMA ClearImplements ==
  ASSUME Inv, NEW o \in Objs, Clear(o)
  PROVE  Implements
<1>1. CASE obj[o].locked
  BY <1>1, DeclineImplements DEF Clear
<1>2. CASE ~obj[o].locked
  <2>1. SetBuffer(o, NULL, Freed(heap, obj[o].buf), "void") /\ o \notin Frozen
    BY <1>2 DEF Clear, Cleared, Frozen
  <2>2. Replaces(obj[o].buf, NULL, Freed(heap, obj[o].buf))
    BY FreedReplaces DEF Inv, TypeOK, Pointers
  <2>3. /\ Val' = [Val EXCEPT ![o] = EmptyBag]
        /\ Loose' = Loose /\ Frozen' = Frozen /\ ret' = "void"
    BY <2>1, <2>2, SetBufferValue
  <2> QED  BY <2>1, <2>3, CopyImplements
<1> QED  BY <1>1, <1>2

LEMMA AcquireRawImplements ==
  ASSUME Inv, NEW o \in Objs, NEW b \in raw, AcquireRaw(o, b)
  PROVE  Implements
<1>1. b \in Bufs /\ b # NULL /\ raw' = raw \ {b} /\ ret' = "void"
      /\ \A p \in Objs : obj[p].buf # NULL =>
            obj[p].buf \in Bufs /\ obj[p].buf # b /\ obj[p].buf \notin raw
  BY MetadataAssumption DEF AcquireRaw, Inv, TypeOK, OneOwner
<1>2. CASE obj[o].locked
  <2>1. obj' = obj /\ \A x \in Bufs : x # b => heap'[x] = heap[x]
    BY <1>2 DEF AcquireRaw, Leaked, Inv, TypeOK
  <2>2. Val' = Val /\ Frozen' = Frozen
    BY <1>1, <2>1 DEF Val, Contents, Frozen
  <2>3. \A x \in raw : x # b => heap'[x] = heap[x]
    BY <2>1 DEF Inv, TypeOK
  <2> QED  BY <1>1, <2>2, <2>3, DropImplements
<1>3. CASE ~obj[o].locked
  <2>1. /\ \A x \in Bufs : x # obj[o].buf => heap'[x] = heap[x]
        /\ obj'[o].buf = b /\ ~obj'[o].locked
        /\ \A p \in Objs : p # o => obj'[p] = obj[p]
    BY <1>3 DEF AcquireRaw, Cleared, Freed, Inv, TypeOK
  <2>2. o \notin Frozen /\ Frozen' = Frozen
    BY <1>3, <2>1 DEF Frozen
  <2>3. ASSUME NEW p \in Objs, p # o PROVE Contents(obj[p].buf)' = Contents(obj[p].buf)
    BY <1>1, <2>1, <2>3 DEF Contents, Inv, OneOwner
  <2>4. Contents(obj[o].buf)' = heap[b].has
    BY <1>1, <2>1 DEF Contents
  <2>5. Val' = [Val EXCEPT ![o] = heap[b].has]
    BY <2>3, <2>4 DEF Val
  <2>6. \A x \in raw : x # b => heap'[x] = heap[x]
    BY <1>1, <2>1, MetadataAssumption DEF Inv, TypeOK
  <2> QED  BY <1>1, <2>2, <2>5, <2>6, TakeImplements
<1> QED  BY <1>2, <1>3

LEMMA AcquireFromImplements ==
  ASSUME Inv, NEW o \in Objs, NEW p \in Objs, AcquireFrom(o, p)
  PROVE  Implements
<1>1. CASE obj[o].locked
  BY <1>1, DeclineImplements DEF AcquireFrom
<1>2. CASE ~obj[o].locked /\ obj[p].locked
  <2>1. SetBuffer(o, NULL, Freed(heap, obj[o].buf), "void") /\ o \notin Frozen
    BY <1>2 DEF AcquireFrom, SetBuffer, Frozen
  <2>2. Replaces(obj[o].buf, NULL, Freed(heap, obj[o].buf))
    BY FreedReplaces DEF Inv, TypeOK, Pointers
  <2>3. /\ Val' = [Val EXCEPT ![o] = EmptyBag]
        /\ Loose' = Loose /\ Frozen' = Frozen /\ ret' = "void"
    BY <2>1, <2>2, SetBufferValue
  <2> QED  BY <2>1, <2>3, CopyImplements
<1>3. CASE ~obj[o].locked /\ ~obj[p].locked
  <2> DEFINE freed == IF o = p THEN NULL ELSE obj[o].buf
  <2>1. /\ heap' = Freed(heap, freed) /\ raw' = raw /\ ret' = "void"
        /\ obj'[o].buf = obj[p].buf /\ (p # o => obj'[p].buf = NULL)
        /\ \A q \in Objs : q # o /\ q # p => obj'[q] = obj[q]
        /\ ~obj'[o].locked /\ ~obj'[p].locked
    BY <1>3 DEF AcquireFrom, Inv, TypeOK
  <2>2. \A x \in Bufs : x # freed => heap'[x] = heap[x]
    BY <2>1 DEF Freed, Inv, TypeOK
  <2>3. {o, p} \cap Frozen = {} /\ Frozen' = Frozen
    BY <1>3, <2>1 DEF Frozen
  <2>4. \A q \in Objs : obj[q].buf # NULL /\ (q # o \/ o = p) =>
          obj[q].buf \in Bufs /\ obj[q].buf # freed
    BY MetadataAssumption DEF Inv, TypeOK, OneOwner
  <2> HIDE DEF freed
  <2>5. ASSUME NEW q \in Objs, q # o, q # p PROVE Contents(obj[q].buf)' = Contents(obj[q].buf)
    BY <2>1, <2>2, <2>4, <2>5 DEF Contents
  <2>6. Contents(obj[o].buf)' = Contents(obj[p].buf)
    BY <2>1, <2>2, <2>4 DEF Contents
  <2>7. p # o => Contents(obj[p].buf)' = EmptyBag
    BY <2>1 DEF Contents
  <2>8. Val' = [Val EXCEPT ![p] = EmptyBag, ![o] = Val[p]]
    BY <2>5, <2>6, <2>7 DEF Val
  <2>9. Loose' = Loose
    <3>1. \A x \in raw : x \in Bufs /\ x # freed
      BY MetadataAssumption DEF freed, Inv, TypeOK, OneOwner
    <3> QED  BY <2>1, <2>2, <3>1 DEF Loose
  <2>10. Values!Move(o, p)
    BY <2>1, <2>3, <2>8, <2>9, SameBags DEF Values!Move, Val, Loose, Frozen
  <2> QED  BY <2>10 DEF Implements, Values!Next
<1> QED  BY <1>1, <1>2, <1>3

LEMMA SwapImplements ==
  ASSUME Inv, NEW o \in Objs, NEW p \in Objs, Swap(o, p)
  PROVE  Implements
<1>1. CASE ~Swaps(o, p)
  BY <1>1, DeclineImplements DEF Swap
<1>2. CASE Swaps(o, p)
  <2>1. /\ heap' = heap /\ raw' = raw /\ ret' = "void"
        /\ obj'[o].buf = obj[p].buf /\ obj'[p].buf = obj[o].buf
        /\ \A q \in Objs : q # o /\ q # p => obj'[q] = obj[q]
        /\ \A q \in Objs : obj'[q].locked = obj[q].locked
    BY <1>2 DEF Swap, Inv, TypeOK
  <2>2. {o, p} \cap Frozen = {} /\ Frozen' = Frozen /\ Loose' = Loose
    BY <1>2, <2>1 DEF Swaps, Frozen, Loose
  <2>3. Val' = [Val EXCEPT ![o] = Val[p], ![p] = Val[o]]
    BY <2>1 DEF Val, Contents
  <2>4. Values!Swap(o, p)
    BY <2>1, <2>2, <2>3 DEF Values!Swap, Val, Loose, Frozen
  <2> QED  BY <2>4 DEF Implements, Values!Next
<1> QED  BY <1>1, <1>2

LEMMA AssignImplements ==
  ASSUME Inv, NEW o \in Objs, NEW src \in Given, Assign(o, src)
  PROVE  Implements
<1>1. CASE obj[o].locked \/ src = obj[o].buf
  BY <1>1, DeclineImplements DEF Assign
<1>2. CASE ~(obj[o].locked \/ src = obj[o].buf)
  <2>1. PICK c \in Cloned(src) : SetBuffer(o, c.buf, Freed(c.heap, obj[o].buf), "void")
    BY <1>2 DEF Assign
  <2> DEFINE hp == Freed(c.heap, obj[o].buf)
  <2>2. src \in Pointers /\ obj[o].buf \in Pointers
        /\ (obj[o].buf # NULL => heap[obj[o].buf].live)
    BY DEF Given, Alive, Inv, TypeOK, OneOwner, Pointers
  <2>3. /\ Replaces(obj[o].buf, c.buf, c.heap) /\ c.heap \in Heaps
        /\ c.buf # NULL => c.buf # obj[o].buf
        /\ c.buf # NULL => c.heap[c.buf].has = Contents(src)
    BY <2>2, ClonedReplaces, ClonedContents DEF Inv
  <2>4. \A x \in Bufs : x # obj[o].buf => hp[x] = c.heap[x]
    BY <2>2, <2>3 DEF Freed, Heaps
  <2>5. Replaces(obj[o].buf, c.buf, hp)
    <3>1. hp \in Heaps
      BY <2>2, <2>3, FreedType
    <3> QED  BY <2>3, <2>4, <3>1, MetadataAssumption DEF Replaces, Pointers
  <2>6. c.buf # NULL => hp[c.buf].has = Contents(src)
    BY <2>3, <2>4 DEF Replaces, Pointers
  <2> HIDE DEF hp
  <2>7. SetBuffer(o, c.buf, hp, "void")
    BY <2>1 DEF hp
  <2> DEFINE v == IF c.buf = NULL THEN EmptyBag ELSE hp[c.buf].has
  <2>8. v \in Values!Values \cup {EmptyBag}
    BY <2>6, ValuesOfGiven
  <2>9. /\ Val' = [Val EXCEPT ![o] = v]
        /\ Loose' = Loose /\ Frozen' = Frozen /\ ret' = "void"
    BY <2>5, <2>7, SetBufferValue
  <2> HIDE DEF v
  <2>10. o \notin Frozen
    BY <1>2 DEF Frozen
  <2> QED  BY <2>8, <2>9, <2>10, CopyImplements
<1> QED  BY <1>1, <1>2

LEMMA FreeRawImplements ==
  ASSUME Inv, NEW b \in raw, FreeRaw(b)
  PROVE  Implements
<1>1. /\ raw' = raw \ {b} /\ obj' = obj /\ ret' = "void" /\ b # NULL
      /\ \A x \in Bufs : x # b => heap'[x] = heap[x]
  BY MetadataAssumption DEF FreeRaw, Freed, Inv, TypeOK
<1>2. Val' = Val /\ Frozen' = Frozen
  BY <1>1 DEF Val, Contents, Frozen, Inv, TypeOK, OneOwner
<1>3. \A x \in raw : x # b => heap'[x] = heap[x]
  BY <1>1 DEF Inv, TypeOK
<1> QED  BY <1>1, <1>2, <1>3, DropImplements

-----------------------------------------------------------------------------
(* Entries. *)

\* What was written is the new value of the object, and the call says OK.
LEMMA WrittenValue ==
  ASSUME Inv, NEW o \in Objs, NEW b, NEW hp, WrittenTo(o, b, hp)
  PROVE  /\ Val' = [Val EXCEPT ![o] = hp[b].has]
         /\ Loose' = Loose /\ Frozen' = Frozen /\ ret' = "ok"
<1>1. b # NULL /\ Replaces(obj[o].buf, b, hp) /\ SetBuffer(o, b, hp, "ok")
  BY MetadataAssumption DEF WrittenTo
<1> QED  BY <1>1, SetBufferValue

LEMMA AppendImplements ==
  ASSUME Inv, NEW o \in Objs, NEW src \in Given, Append(o, src)
  PROVE  Implements
<1>1. CASE obj[o].locked
  BY <1>1, DeclineImplements DEF Append
<1>2. CASE ~obj[o].locked /\ src = NULL
  BY <1>2, UndefinedImplements DEF Append
<1>3. CASE ~obj[o].locked /\ src # NULL
  <2>1. CASE Undefined("freed")
    BY <2>1, UndefinedImplements
  <2>2. CASE OutOfMemory(o)
    BY <1>3, <2>2, LoseImplements
  <2>3. ASSUME NEW b, NEW hp, WrittenTo(o, b, hp),
               hp[b].has = [k \in Kinds |-> Contents(obj[o].buf)[k] + heap[src].has[k]]
        PROVE  Implements
    <3>1. Contents(src) \in Values!Values /\ Contents(src) = heap[src].has
      BY <1>3, ValuesOfGiven DEF Contents
    <3>2. hp[b].has = Values!Sum(Val[o], Contents(src))
      BY <2>3, <3>1, SameBags DEF Values!Sum, Val
    <3>3. /\ Val' = [Val EXCEPT ![o] = Values!Sum(Val[o], Contents(src))]
          /\ Loose' = Loose /\ Frozen' = Frozen /\ ret' = "ok" /\ o \notin Frozen
      BY <1>3, <2>3, <3>2, WrittenValue DEF Frozen
    <3>4. Values!Add(o, Contents(src))
      BY <3>3 DEF Values!Add, Values!Change, Val, Loose, Frozen
    <3> QED  BY <3>1, <3>4 DEF Implements, Values!Next
  <2> QED  BY <1>3, <2>1, <2>2, <2>3, AppendOutcome
<1> QED  BY <1>1, <1>2, <1>3

LEMMA UpdateImplements ==
  ASSUME Inv, NEW o \in Objs, NEW k \in Kinds, NEW src \in Given \cup {NULL},
         NEW typed \in BOOLEAN, Update(o, k, src, typed)
  PROVE  Implements
<1>1. CASE Decline("refused")
  BY <1>1, DeclineImplements
<1>2. CASE Update(o, k, src, TRUE) /\ ~obj[o].locked /\ ~SameBuffer(o, src)
  <2>1. CASE OutOfMemory(o)
    BY <1>2, <2>1, LoseImplements
  <2>2. ASSUME NEW b, NEW hp, WrittenTo(o, b, hp), PutInto(Contents(obj[o].buf), k, hp[b].has)
        PROVE  Implements
    <3> DEFINE was == Val[o]
               has == hp[b].has
    <3>1. /\ Val' = [Val EXCEPT ![o] = has]
          /\ Loose' = Loose /\ Frozen' = Frozen /\ ret' = "ok" /\ o \notin Frozen
      BY <1>2, <2>2, WrittenValue DEF Frozen
    <3>2. PutInto(was, k, has) /\ was \in [Kinds -> Nat] /\ k \in Values!Kinds
      BY <2>2, ValType, SameBags DEF Val
    <3> HIDE DEF was, has
    <3>3. \/ Values!Found(was, k[1]) = {} /\ has = Values!With(was, k)
          \/ \E old \in Values!Found(was, k[1]) :
                has = Values!With(Values!Without(was, old), k)
      BY <3>2, SameBags DEF PutInto, Values!Found, Values!With, Values!Without
    <3>4. \/ Values!Found(Val[o], k[1]) = {} /\ Values!Change(o, Values!With(Val[o], k))
          \/ \E old \in Values!Found(Val[o], k[1]) :
                Values!Change(o, Values!With(Values!Without(Val[o], old), k))
      BY <3>1, <3>3 DEF was, Values!Change, Val, Loose, Frozen
    <3>5. Values!Put(o, k)
      BY <3>1, <3>4 DEF Values!Put, Val, Loose, Frozen
    <3> QED  BY <3>2, <3>5 DEF Implements, Values!Next
  <2> QED  BY <1>2, <2>1, <2>2, UpdateOutcome
<1> QED  BY <1>1, <1>2, UpdateGoesOn

LEMMA DeletedContents ==
  ASSUME NEW buffer \in Buffer, NEW k \in Kinds
  PROVE  Delete(buffer, k).has = [buffer.has EXCEPT ![k] = @ - 1]
<1> DEFINE less == [buffer.has EXCEPT ![k] = @ - 1]
           n == Less(buffer.entryCount, 1)
           m == Less(buffer.dataCount, k[2])
<1>1. Delete(buffer, k) = [buffer EXCEPT !.has = less, !.entryCount = n, !.dataCount = m]
  BY DEF Delete, Buffer
<1> HIDE DEF less, n, m
<1>2. Delete(buffer, k).has = less
  BY <1>1 DEF Buffer
<1> QED  BY <1>2 DEF less

LEMMA EraseImplements ==
  ASSUME Inv, NEW o \in Objs, NEW t \in Tags, Erase(o, t)
  PROVE  Implements
<1> DEFINE b == obj[o].buf
<1>1. CASE obj[o].locked \/ b = NULL
  BY <1>1, DeclineImplements DEF Erase
<1>2. CASE ~(obj[o].locked \/ b = NULL)
  <2>1. b \in Bufs /\ heap[b] \in Buffer /\ heap[b].live /\ Val[o] = heap[b].has
        /\ heap \in Heaps /\ b \in Pointers /\ o \notin Frozen
    BY <1>2 DEF Inv, TypeOK, OneOwner, Heaps, Pointers, Val, Contents, Frozen
  <2>2. Found(heap[b], t) = Values!Found(Val[o], t)
    BY <2>1, SameBags DEF Found, Values!Found
  <2>3. CASE Found(heap[b], t) = {}
    <3>1. Decline("ok")
      BY <1>2, <2>3 DEF Erase
    <3>2. Val' = Val /\ Loose' = Loose /\ Frozen' = Frozen /\ ret' = "ok"
      BY <3>1, SameContents DEF Decline, Frozen
    <3>3. Values!Remove(o, t)
      BY <2>2, <2>3, <3>2 DEF Values!Remove, Val, Loose, Frozen
    <3> QED  BY <3>3 DEF Implements, Values!Next
  <2>4. CASE Found(heap[b], t) # {}
    <3>1. PICK old \in Found(heap[b], t) :
            SetBuffer(o, b, [heap EXCEPT ![b] = Delete(heap[b], old)], "ok")
      BY <1>2, <2>4 DEF Erase
    <3>2. /\ Delete(heap[b], old) \in Buffer /\ Delete(heap[b], old).live
          /\ Delete(heap[b], old).has = [heap[b].has EXCEPT ![old] = @ - 1]
      BY <2>1, EntryType, DeletedContents DEF Found
    <3> DEFINE hp == [heap EXCEPT ![b] = Delete(heap[b], old)]
    <3>3. Replaces(b, b, hp)
      <4>1. Replaces(b, b, heap)
        BY <2>1 DEF Replaces
      <4> HIDE DEF b
      <4> QED  BY <2>1, <3>2, <4>1, WriteReplaces
    <3>4. hp[b].has = Values!Without(Val[o], old)
      BY <2>1, <3>2 DEF Values!Without, Heaps
    <3>5. b # NULL /\ SetBuffer(o, b, hp, "ok") /\ Replaces(obj[o].buf, b, hp)
      BY <1>2, <3>1, <3>3
    <3> HIDE DEF hp, b
    <3>6. /\ Val' = [Val EXCEPT ![o] = Values!Without(Val[o], old)]
          /\ Loose' = Loose /\ Frozen' = Frozen /\ ret' = "ok"
      BY <3>4, <3>5, SetBufferValue
    <3>7. old \in Values!Found(Val[o], t)
      BY <2>2, <3>1
    <3>8. Values!Remove(o, t)
      BY <2>1, <3>6, <3>7 DEF Values!Remove, Values!Change, Val, Loose, Frozen
    <3> QED  BY <3>8 DEF Implements, Values!Next
  <2> QED  BY <2>3, <2>4
<1> QED  BY <1>1, <1>2

LEMMA SortImplements ==
  ASSUME Inv, NEW o \in Objs, Sort(o)
  PROVE  Implements
<1>1. CASE Decline("refused")
  BY <1>1, DeclineImplements
<1>2. CASE Decline("ok") /\ ~obj[o].locked
  <2>1. Val' = Val /\ Loose' = Loose /\ Frozen' = Frozen /\ ret' = "ok" /\ o \notin Frozen
    BY <1>2, SameContents DEF Decline, Frozen
  <2>2. Values!Reorder(o)
    BY <2>1 DEF Values!Reorder, Val, Loose, Frozen
  <2> QED  BY <2>2 DEF Implements, Values!Next
<1> QED  BY <1>1, <1>2 DEF Sort

-----------------------------------------------------------------------------
\* The objects of CameraMetadata are values, with any number of them, with any
\* callers and an allocator that may fail: a call changes what it says it changes
\* and nothing else, completely when it says OK, and never a locked object.
THEOREM MetadataImplementsValues == Spec => ValueSpec
<1>1. Init => Values!Init
  BY SameBags DEF Init, Values!Init, Contents, Dead
<1>2. Inv /\ [Next]_vars => [Values!Next]_<<Val, Loose, Frozen, ret>>
  <2> SUFFICES ASSUME Inv, [Next]_vars PROVE Implements
    BY DEF Implements
  <2>1. CASE UNCHANGED vars
    BY <2>1 DEF vars, Implements, Val, Loose, Frozen, Contents
  <2>2. ASSUME NEW o \in Objs, NextOf(o) PROVE Implements
    BY <2>2, ConstructImplements, ConstructFromImplements, DestroyImplements,
       GetAndLockImplements, UnlockImplements, ReleaseImplements, ClearImplements,
       AcquireRawImplements, AcquireFromImplements, SwapImplements, AssignImplements,
       AppendImplements, UpdateImplements, EraseImplements, SortImplements
    DEF NextOf
  <2>3. ASSUME NEW b \in raw, FreeRaw(b) PROVE Implements
    BY <2>3, FreeRawImplements
  <2> QED  BY <2>1, <2>2, <2>3 DEF Next
<1>3. Spec => Values!Spec
  BY <1>1, <1>2, InvHolds, PTL DEF Spec, Values!Spec, Val, Loose, Frozen
<1> QED  BY <1>3 DEF ValueSpec
=============================================================================
