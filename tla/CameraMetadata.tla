--------------------------- MODULE CameraMetadata ---------------------------
(***************************************************************************)
(* The CameraMetadata class of libshims/CameraMetadata.cpp: objects that   *)
(* own a camera_metadata_t buffer on the heap, lend it under a lock flag,  *)
(* hand it over, copy it, and reallocate it when it gets too small.        *)
(*                                                                         *)
(* The class is not thread-safe (CameraMetadata.h:56-57), so a method is   *)
(* one action.  What is hard is who owns which buffer after a sequence of  *)
(* calls on several objects, with allocations that fail on the way.        *)
(*                                                                         *)
(* Of a buffer the model keeps the bag of its entries (tag and data size)  *)
(* and its counts and capacities.  The C library under it (allocate,       *)
(* clone, append, ... _camera_metadata) is not in the repository and is    *)
(* modelled by how the class uses it.                                      *)
(***************************************************************************)
EXTENDS Naturals

CONSTANTS
    Objs,         \* CameraMetadata objects
    Bufs,         \* addresses the allocator gives out
    NULL,
    Holders,      \* code that calls getAndLock and keeps the pointer
    Tags,         \* tags, each of which has a type in the vendor's table
    Sizes,        \* data sizes of an entry (0: the data is stored inline)
    Capacities,   \* arguments of the constructor that allocates: entries and data
    AllocFails,   \* the allocator may return NULL
    Habits,       \* what callers do although the header does not invite them
    MaxEntries    \* bound: entries in a buffer

AllHabits == {"second_lock", "destroy_locked"}

ASSUME MetadataAssumption ==
    /\ NULL \notin Bufs
    /\ NULL \notin Objs
    /\ Sizes \subseteq Nat
    /\ Capacities \subseteq Nat \X Nat
    /\ AllocFails \in BOOLEAN
    /\ Habits \subseteq AllHabits
    /\ MaxEntries \in Nat

VARIABLES
    heap,    \* what lies at every address
    obj,     \* mBuffer and mLocked of every object, and whether it is alive
    raw,     \* buffers that a caller owns and has to free or hand on
    hold,    \* per holder, the object it locked and the pointer it was given
    ret,     \* status of the last call
    wrong    \* a call used NULL or freed memory: nothing is defined after it

vars == <<heap, obj, raw, hold, ret, wrong>>

-----------------------------------------------------------------------------
(* Buffers and the library calls on them. *)

Kinds == Tags \X Sizes
Bag == [Kinds -> Nat]
EmptyBag == [k \in Kinds |-> 0]
Buffer == [live : BOOLEAN, has : Bag, entryCount : Nat, dataCount : Nat,
           entryCap : Nat, dataCap : Nat]

allocate_camera_metadata(entries, data) ==
    [live |-> TRUE, has |-> EmptyBag, entryCount |-> 0, dataCount |-> 0,
     entryCap |-> entries, dataCap |-> data]
Unallocated == [allocate_camera_metadata(0, 0) EXCEPT !.live = FALSE]

\* Addresses that an allocation may return.
Allocation == {b \in Bufs : ~heap[b].live} \cup (IF AllocFails THEN {NULL} ELSE {})

\* free_camera_metadata, which takes NULL too.
Freed(hp, b) == IF b = NULL THEN hp ELSE [hp EXCEPT ![b] = Unallocated]

\* Memory that nobody owns any more stays allocated; what it holds is forgotten.
Leaked(hp, b) == [hp EXCEPT ![b] = allocate_camera_metadata(0, 0)]

Room(dst, entries, data) ==
    /\ dst.entryCount + entries <= dst.entryCap
    /\ dst.dataCount + data <= dst.dataCap

\* append_camera_metadata copies every entry, or none when there is no room.
append_camera_metadata(dst, src) ==
    IF ~Room(dst, src.entryCount, src.dataCount) THEN dst ELSE
    [dst EXCEPT !.has = [k \in Kinds |-> dst.has[k] + src.has[k]],
                !.entryCount = @ + src.entryCount,
                !.dataCount = @ + src.dataCount]

\* Mutant: the buffer is shared, not cloned.
Shared(src) == {[buf |-> src, heap |-> heap]}

\* The outcomes of clone_camera_metadata: a buffer and the heap with it.
Cloned(src) ==
    IF src = NULL THEN {[buf |-> NULL, heap |-> heap]} ELSE
    {[buf |-> a, heap |-> IF a = NULL THEN heap ELSE
        [heap EXCEPT ![a] = append_camera_metadata(
            allocate_camera_metadata(heap[src].entryCount, heap[src].dataCount),
            heap[src])]] : a \in Allocation}

\* find_camera_metadata_entry: one of the entries with the tag.
Found(buffer, t) == {k \in Kinds : k[1] = t /\ buffer.has[k] > 0}
Less(n, m) == IF m <= n THEN n - m ELSE 0
Delete(buffer, k) == [buffer EXCEPT !.has[k] = @ - 1, !.entryCount = Less(@, 1),
                                    !.dataCount = Less(@, k[2])]
Insert(buffer, k) == [buffer EXCEPT !.has[k] = @ + 1, !.entryCount = @ + 1,
                                    !.dataCount = @ + k[2]]

-----------------------------------------------------------------------------
(* Objects. *)

Dead == [alive |-> FALSE, buf |-> NULL, locked |-> FALSE]
Fresh(b) == [alive |-> TRUE, buf |-> b, locked |-> FALSE]
NoHold == [obj |-> NULL, ptr |-> NULL]
Alive == {o \in Objs : obj[o].alive}
HoldersOf(o) == {c \in Holders : hold[c].obj = o}

\* Buffers that a caller can name in an argument.
Given == {obj[o].buf : o \in Alive} \cup raw

TypeOK ==
    /\ heap \in [Bufs -> Buffer]
    /\ obj \in [Objs -> [alive : BOOLEAN, buf : Bufs \cup {NULL}, locked : BOOLEAN]]
    /\ raw \subseteq Bufs
    /\ hold \in [Holders -> [obj : Objs \cup {NULL}, ptr : Bufs \cup {NULL}]]
    /\ ret \in {"ok", "void", "refused", "failed"}
    /\ wrong \in {"no", "null", "freed"}

Init ==
    /\ heap = [b \in Bufs |-> Unallocated]
    /\ obj = [o \in Objs |-> Dead]
    /\ raw = {}
    /\ hold = [c \in Holders |-> NoHold]
    /\ ret = "void"
    /\ wrong = "no"

\* A call that ends without doing anything, with its status.
Decline(status) == ret' = status /\ UNCHANGED <<heap, obj, raw, hold, wrong>>

\* A call that makes b the buffer of o over heap hp.
SetBuffer(o, b, hp, status) ==
    /\ heap' = hp
    /\ obj' = [obj EXCEPT ![o].buf = b]
    /\ ret' = status
    /\ UNCHANGED <<raw, hold, wrong>>

\* A call that touches memory that is not there.
Undefined(how) == wrong' = how /\ UNCHANGED <<heap, obj, raw, hold, ret>>

-----------------------------------------------------------------------------
(* Construction and destruction. *)

Begin(o, b, hp) ==
    /\ ~obj[o].alive
    /\ heap' = hp
    /\ obj' = [obj EXCEPT ![o] = Fresh(b)]
    /\ ret' = "void"
    /\ UNCHANGED <<hold, wrong>>

Construct(o) == Begin(o, NULL, heap) /\ UNCHANGED raw

\* The constructor does not look at what allocate returned.
ConstructSized(o, caps) ==
    /\ \E a \in Allocation :
        Begin(o, a, IF a = NULL THEN heap ELSE
                    [heap EXCEPT ![a] = allocate_camera_metadata(caps[1], caps[2])])
    /\ UNCHANGED raw

CopyConstruct(o, p) ==
    /\ obj[p].alive
    /\ \E c \in Cloned(obj[p].buf) : Begin(o, c.buf, c.heap)
    /\ UNCHANGED raw

ConstructFrom(o, b) == b \in raw /\ Begin(o, b, heap) /\ raw' = raw \ {b}

\* The destructor takes the lock away and frees the buffer.
Destroy(o) ==
    /\ obj[o].alive
    /\ HoldersOf(o) # {} => "destroy_locked" \in Habits
    /\ heap' = Freed(heap, obj[o].buf)
    /\ obj' = [obj EXCEPT ![o] = Dead]
    /\ ret' = "void"
    /\ UNCHANGED <<raw, hold, wrong>>

-----------------------------------------------------------------------------
(* The lock. *)

GetAndLock(c, o) ==
    /\ obj[o].alive
    /\ hold[c] = NoHold
    /\ HoldersOf(o) # {} => "second_lock" \in Habits
    /\ obj' = [obj EXCEPT ![o].locked = TRUE]
    /\ hold' = [hold EXCEPT ![c] = [obj |-> o, ptr |-> obj[o].buf]]
    /\ ret' = "void"
    /\ UNCHANGED <<heap, raw, wrong>>

\* Mutant: the pointer is not compared.
UnlocksAnything(c, o) == obj[o].locked

Unlocks(c, o) == obj[o].locked /\ hold[c].ptr = obj[o].buf

\* A holder gives its pointer back, perhaps to the wrong object.
Unlock(c, o) ==
    /\ obj[o].alive
    /\ hold[c] # NoHold
    /\ IF ~Unlocks(c, o)
       THEN Decline("refused")
       ELSE /\ obj' = [obj EXCEPT ![o].locked = FALSE]
            /\ hold' = [hold EXCEPT ![c] = NoHold]
            /\ ret' = "ok"
            /\ UNCHANGED <<heap, raw, wrong>>

-----------------------------------------------------------------------------
(* Buffers that change hands. *)

\* Mutant: an empty object hands out a pointer too.
ReleasedAlways(o) == {obj[o].buf}

Released(o) == {obj[o].buf} \ {NULL}

Release(o) ==
    /\ obj[o].alive
    /\ IF obj[o].locked
       THEN Decline("void")
       ELSE /\ obj' = [obj EXCEPT ![o].buf = NULL]
            /\ raw' = raw \cup Released(o)
            /\ ret' = "void"
            /\ UNCHANGED <<heap, hold, wrong>>

\* Mutant: the old buffer is forgotten.
NotCleared(o) == heap

\* clear() on the way to a new buffer.
Cleared(o) == Freed(heap, obj[o].buf)

Clear(o) ==
    /\ obj[o].alive
    /\ IF obj[o].locked
       THEN Decline("void")
       ELSE SetBuffer(o, NULL, Cleared(o), "void")

\* The caller counts the buffer as handed over, also when the object is locked.
AcquireRaw(o, b) ==
    /\ obj[o].alive
    /\ b \in raw
    /\ raw' = raw \ {b}
    /\ IF obj[o].locked
       THEN heap' = Leaked(heap, b) /\ UNCHANGED obj
       ELSE heap' = Cleared(o) /\ obj' = [obj EXCEPT ![o].buf = b]
    /\ ret' = "void"
    /\ UNCHANGED <<hold, wrong>>

\* A locked argument releases nothing, and the object is cleared all the same.
AcquireFrom(o, p) ==
    /\ obj[o].alive /\ obj[p].alive
    /\ IF obj[o].locked
       THEN Decline("void")
       ELSE LET got == IF obj[p].locked THEN NULL ELSE obj[p].buf
                left == IF obj[p].locked THEN obj ELSE [obj EXCEPT ![p].buf = NULL]
            IN  /\ heap' = Freed(heap, left[o].buf)
                /\ obj' = [left EXCEPT ![o].buf = got]
                /\ ret' = "void"
                /\ UNCHANGED <<raw, hold, wrong>>

\* Mutant: only the object itself is asked for its lock.
SwapsWhenUnlocked(o, p) == ~obj[o].locked

Swaps(o, p) == ~obj[o].locked /\ ~obj[p].locked

Swap(o, p) ==
    /\ obj[o].alive /\ obj[p].alive
    /\ IF ~Swaps(o, p)
       THEN Decline("void")
       ELSE /\ obj' = [obj EXCEPT ![o].buf = obj[p].buf, ![p].buf = obj[o].buf]
            /\ ret' = "void"
            /\ UNCHANGED <<heap, raw, hold, wrong>>

\* operator=: cloned first, then cleared, also when the clone failed.
Assign(o, src) ==
    /\ obj[o].alive
    /\ src \in Given
    /\ IF obj[o].locked \/ src = obj[o].buf
       THEN Decline("void")
       ELSE \E c \in Cloned(src) :
                SetBuffer(o, c.buf, Freed(c.heap, obj[o].buf), "void")

\* A caller frees a buffer that is its own.
FreeRaw(b) ==
    /\ b \in raw
    /\ heap' = Freed(heap, b)
    /\ raw' = raw \ {b}
    /\ ret' = "void"
    /\ UNCHANGED <<obj, hold, wrong>>

-----------------------------------------------------------------------------
(* Entries. *)

\* Mutant: a full buffer counts as one with room.
GrownTooLate(count, extra, cap) ==
    IF count + extra > cap + 1 THEN (count + extra) * 2 ELSE cap

Grown(count, extra, cap) == IF count + extra > cap THEN (count + extra) * 2 ELSE cap

\* Mutant: the old entries are not copied over.
RegrownEmpty(b, entries, data) == allocate_camera_metadata(entries, data)

\* The larger buffer, with the entries of buffer b.
Regrown(b, entries, data) ==
    append_camera_metadata(allocate_camera_metadata(entries, data), heap[b])

\* The outcomes of resizeIfNeeded on buffer b.  When the allocation fails the
\* object is left without a buffer and the old one is lost.
resizeIfNeeded(b, entries, data) ==
    IF b = NULL
    THEN {[buf |-> a, heap |-> IF a = NULL THEN heap ELSE
            [heap EXCEPT ![a] = allocate_camera_metadata(2 * entries, 2 * data)]]
            : a \in Allocation}
    ELSE LET e == Grown(heap[b].entryCount, entries, heap[b].entryCap)
             d == Grown(heap[b].dataCount, data, heap[b].dataCap)
         IN  IF e <= heap[b].entryCap /\ d <= heap[b].dataCap
             THEN {[buf |-> b, heap |-> heap]}
             ELSE {[buf |-> a, heap |-> IF a = NULL THEN Leaked(heap, b) ELSE
                     Freed([heap EXCEPT ![a] = Regrown(b, e, d)], b)]
                     : a \in Allocation}

\* append ignores the status of resizeIfNeeded and reads its argument after it.  The
\* argument may be an object without a buffer, or the object itself.
Append(o, src) ==
    /\ obj[o].alive
    /\ src \in Given
    /\ IF obj[o].locked
       THEN Decline("refused")
       ELSE IF src = NULL
       THEN Undefined("null")
       ELSE LET n == heap[src].entryCount
                m == heap[src].dataCount
            IN  /\ obj[o].buf # NULL => heap[obj[o].buf].entryCount + n <= MaxEntries
                /\ \E r \in resizeIfNeeded(obj[o].buf, n, m) :
                     IF ~r.heap[src].live
                     THEN Undefined("freed")
                     ELSE IF r.buf = NULL \/ ~Room(r.heap[r.buf], n, m)
                     THEN SetBuffer(o, r.buf, r.heap, "failed")
                     ELSE SetBuffer(o, r.buf, [r.heap EXCEPT ![r.buf] =
                              append_camera_metadata(@, r.heap[src])], "ok")

\* The second half of updateImpl, on a buffer that was made large enough: what is
\* left of it when the old entry, if any, makes place, and the new one with it.
Stored(b, hp, rest, k) ==
    IF Room(rest, 1, k[2])
    THEN [status |-> "ok", heap |-> [hp EXCEPT ![b] = Insert(rest, k)]]
    ELSE [status |-> "failed", heap |-> hp]
Written(b, hp, k) ==
    IF Found(hp[b], k[1]) = {}
    THEN {Stored(b, hp, hp[b], k)}
    ELSE {Stored(b, hp, Delete(hp[b], old), k) : old \in Found(hp[b], k[1])}

\* The bound: an entry is added to at most MaxEntries - 1 others.
BelowBound(b, t) ==
    (b # NULL /\ Found(heap[b], t) = {}) => heap[b].entryCount < MaxEntries

\* Mutant: data inside the buffer itself is let through.
NotChecked(o, src) == FALSE

\* "Update attempted with data from the same metadata buffer!"
SameBuffer(o, src) == src # NULL /\ src = obj[o].buf

\* update: the data lies in buffer src, or outside of every buffer (NULL); typed
\* is the answer of checkType.
Update(o, k, src, typed) ==
    /\ obj[o].alive
    /\ IF obj[o].locked \/ ~typed \/ SameBuffer(o, src)
       THEN Decline("refused")
       ELSE /\ BelowBound(obj[o].buf, k[1])
            /\ \E r \in resizeIfNeeded(obj[o].buf, 1, k[2]) :
                 IF r.buf = NULL
                 THEN SetBuffer(o, NULL, r.heap, "failed")
                 ELSE IF src # NULL /\ ~r.heap[src].live
                 THEN Undefined("freed")
                 ELSE \E w \in Written(r.buf, r.heap, k) :
                          SetBuffer(o, r.buf, w.heap, w.status)

Erase(o, t) ==
    /\ obj[o].alive
    /\ IF obj[o].locked \/ obj[o].buf = NULL
       THEN Decline("refused")
       ELSE IF Found(heap[obj[o].buf], t) = {}
       THEN Decline("ok")
       ELSE \E old \in Found(heap[obj[o].buf], t) :
                SetBuffer(o, obj[o].buf,
                          [heap EXCEPT ![obj[o].buf] = Delete(@, old)], "ok")

\* The order of the entries is not in the bag.
Sort(o) ==
    /\ obj[o].alive
    /\ Decline(IF obj[o].locked \/ obj[o].buf = NULL THEN "refused" ELSE "ok")

-----------------------------------------------------------------------------
NextOf(o) ==
    \/ Construct(o)
    \/ \E caps \in Capacities : ConstructSized(o, caps)
    \/ \E p \in Objs : CopyConstruct(o, p) \/ AcquireFrom(o, p) \/ Swap(o, p)
    \/ \E b \in raw : ConstructFrom(o, b) \/ AcquireRaw(o, b)
    \/ Destroy(o) \/ Release(o) \/ Clear(o) \/ Sort(o)
    \/ \E c \in Holders : GetAndLock(c, o) \/ Unlock(c, o)
    \/ \E src \in Given : Assign(o, src) \/ Append(o, src)
    \/ \E k \in Kinds, src \in Given \cup {NULL}, typed \in BOOLEAN :
           Update(o, k, src, typed)
    \/ \E t \in Tags : Erase(o, t)

Next ==
    /\ wrong = "no"
    /\ \/ \E o \in Objs : NextOf(o)
       \/ \E b \in raw : FreeRaw(b)

Spec == Init /\ [][Next]_vars

-----------------------------------------------------------------------------
(* Properties. *)

\* A buffer has at most one owner, an object or a caller, and no owner points to
\* memory that was freed: no double free and no two objects over one buffer,
\* whatever is assigned, acquired, swapped, appended to or failed to grow.
OneOwner ==
    /\ \A o \in Objs : obj[o].buf # NULL =>
        heap[obj[o].buf].live /\ obj[o].buf \notin raw
    /\ \A o, p \in Objs : o # p /\ obj[o].buf = obj[p].buf => obj[o].buf = NULL
    /\ \A b \in raw : heap[b].live

\* The pointer that getAndLock gave out stays the buffer of its object, locked and
\* allocated, until it is given back: "it simply prevents the camera_metadata_t
\* pointer returned here from being accidentally invalidated".
LentPointerValid ==
    \A c \in Holders : hold[c].ptr # NULL =>
        /\ obj[hold[c].obj].buf = hold[c].ptr
        /\ obj[hold[c].obj].locked
        /\ heap[hold[c].ptr].live

\* The two appends that are undefined: of an object without a buffer, and of an
\* object to itself when it has to grow.
ReadsNull(o, src) == ~obj[o].locked /\ src = NULL
ReadsFreed(o, src) ==
    /\ ~obj[o].locked
    /\ src # NULL /\ src = obj[o].buf
    /\ ~Room(heap[src], heap[src].entryCount, heap[src].dataCount)

\* No call reads through NULL or through a buffer that it has freed, but for an
\* append of these two kinds, which does (unless memory runs out before it can
\* free anything).  An update never does: data of the buffer that it reallocates
\* is refused, and no other buffer moves.
UndefinedOnlyThere == [][
    /\ wrong' # wrong => \E o \in Objs, src \in Given : Append(o, src)
    /\ \A o \in Objs, src \in Given : Append(o, src) =>
        /\ wrong' = "null" <=> ReadsNull(o, src)
        /\ wrong' = "freed" <=> ReadsFreed(o, src) /\ obj'[o].buf # NULL
    /\ wrong' # "no" =>
        \A o \in Objs, k \in Kinds, src \in Given \cup {NULL}, typed \in BOOLEAN :
            ~Update(o, k, src, typed)]_vars

\* A buffer is left without an owner in two places only: a reallocation that ran
\* out of memory leaves the object without one, and acquire() of a locked object
\* takes nothing.
Lost(b) == heap[b].live /\ b \notin raw /\ \A o \in Objs : obj[o].buf # b
LeaksOnlyThere == [][\A b \in Bufs : ~Lost(b) /\ Lost(b)' =>
    \/ AllocFails /\ ret' = "failed" /\ \E o \in Objs : obj[o].buf = b /\ obj'[o].buf = NULL
    \/ b \in raw /\ \E o \in Objs : obj[o].locked]_vars

\* OK means done: after an append that is defined every entry of both is there,
\* after an update the entry is, and no entry of another tag is touched, with or
\* without a reallocation between.
Contents(b) == IF b = NULL THEN EmptyBag ELSE heap[b].has
OkMeansDone == [][ret' = "ok" /\ wrong' = "no" => \A o \in Objs :
    /\ \A src \in Given : Append(o, src) =>
        \A k \in Kinds : Contents(obj[o].buf)'[k] = Contents(obj[o].buf)[k] + heap[src].has[k]
    /\ \A k \in Kinds, src \in Given \cup {NULL} : Update(o, k, src, TRUE) =>
        /\ Contents(obj[o].buf)'[k] > 0
        /\ \A f \in Kinds : f[1] # k[1] =>
            Contents(obj[o].buf)'[f] = Contents(obj[o].buf)[f]]_vars

\* Objects are values: with the buffers out of sight, a call changes what it says
\* it changes, completely when it says OK, and never a locked object.
Values == INSTANCE MetadataValues WITH
    Names <- Bufs,
    MayFail <- AllocFails,
    val <- [o \in Objs |-> Contents(obj[o].buf)],
    loose <- [b \in raw |-> heap[b].has],
    frozen <- {o \in Objs : obj[o].locked},
    res <- ret
ValueSpec == Values!Spec
=============================================================================
