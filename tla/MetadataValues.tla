--------------------------- MODULE MetadataValues ---------------------------
(***************************************************************************)
(* What CameraMetadata (libshims/CameraMetadata.h) promises of contents:   *)
(* objects are values.  A call changes the contents of the objects it is   *)
(* given and of no other, never those of a locked one, and a status of OK  *)
(* means that the change is complete.  Contents are a bag of entries.      *)
(***************************************************************************)
EXTENDS Naturals

CONSTANTS
    Objs,      \* CameraMetadata objects
    Names,     \* raw buffers that a caller may own
    Tags,      \* entry tags
    Sizes,     \* sizes of an entry's data
    MayFail    \* the allocator may run out of memory

Kinds == Tags \X Sizes
Bag == [Kinds -> Nat]
EmptyBag == [k \in Kinds |-> 0]

VARIABLES
    val,       \* contents of every object
    loose,     \* contents of every raw buffer that a caller owns
    frozen,    \* locked objects
    res        \* status of the last call

\* Entries of tag t, added one by one and taken out one by one.
Found(v, t) == {k \in Kinds : k[1] = t /\ v[k] > 0}
With(v, k) == [v EXCEPT ![k] = @ + 1]
Without(v, k) == [v EXCEPT ![k] = @ - 1]
Sum(v, w) == [k \in Kinds |-> v[k] + w[k]]
Values == {val[p] : p \in Objs} \cup {loose[n] : n \in DOMAIN loose}

Init ==
    /\ val = [o \in Objs |-> EmptyBag]
    /\ loose = [n \in {} |-> EmptyBag]
    /\ frozen = {}
    /\ res = "void"

\* The one change that a call makes to an object.
Change(o, v) == o \notin frozen /\ val' = [val EXCEPT ![o] = v]

Put(o, k) ==
    /\ res' = "ok"
    /\ \/ Found(val[o], k[1]) = {} /\ Change(o, With(val[o], k))
       \/ \E old \in Found(val[o], k[1]) : Change(o, With(Without(val[o], old), k))
    /\ UNCHANGED <<loose, frozen>>

Add(o, v) == res' = "ok" /\ Change(o, Sum(val[o], v)) /\ UNCHANGED <<loose, frozen>>

Remove(o, t) ==
    /\ res' = "ok"
    /\ \/ Found(val[o], t) = {} /\ UNCHANGED val
       \/ \E old \in Found(val[o], t) : Change(o, Without(val[o], old))
    /\ UNCHANGED <<loose, frozen>>

Copy(o, v) == res' = "void" /\ Change(o, v) /\ UNCHANGED <<loose, frozen>>

Move(o, p) ==
    /\ res' = "void"
    /\ {o, p} \cap frozen = {}
    /\ val' = [val EXCEPT ![p] = EmptyBag, ![o] = val[p]]
    /\ UNCHANGED <<loose, frozen>>

Swap(o, p) ==
    /\ res' = "void"
    /\ {o, p} \cap frozen = {}
    /\ val' = [val EXCEPT ![o] = val[p], ![p] = val[o]]
    /\ UNCHANGED <<loose, frozen>>

GiveUp(n) == loose' = [m \in DOMAIN loose \ {n} |-> loose[m]]

Release(o, n) ==
    /\ res' = "void"
    /\ Change(o, EmptyBag)
    /\ n \notin DOMAIN loose
    /\ loose' = [m \in DOMAIN loose \cup {n} |-> IF m = n THEN val[o] ELSE loose[m]]
    /\ UNCHANGED frozen

\* The object takes the contents of a raw buffer over, or the buffer is given up.
Take(o, n) == res' = "void" /\ Change(o, loose[n]) /\ GiveUp(n) /\ UNCHANGED frozen
Drop(n) == res' = "void" /\ GiveUp(n) /\ UNCHANGED <<val, frozen>>

\* Out of memory: the whole contents of the object are gone, and the call says so.
Lose(o) ==
    /\ res' = "failed"
    /\ MayFail
    /\ Change(o, EmptyBag)
    /\ UNCHANGED <<loose, frozen>>

\* A call that does nothing: refused with a status, or without one.
Decline == res' \in {"refused", "void"} /\ UNCHANGED <<val, loose, frozen>>

Freeze(o) == frozen' = frozen \cup {o} /\ res' = "void" /\ UNCHANGED <<val, loose>>
Thaw(o) == frozen' = frozen \ {o} /\ res' = "ok" /\ UNCHANGED <<val, loose>>

\* Entries in another order are the same contents.
Reorder(o) == o \notin frozen /\ res' = "ok" /\ UNCHANGED <<val, loose, frozen>>

\* End of an object's life, locked or not.
End(o) ==
    /\ res' = "void"
    /\ val' = [val EXCEPT ![o] = EmptyBag]
    /\ frozen' = frozen \ {o}
    /\ UNCHANGED loose

Next ==
    \/ Decline
    \/ \E o \in Objs :
        \/ \E k \in Kinds : Put(o, k)
        \/ \E t \in Tags : Remove(o, t)
        \/ \E v \in Values : Add(o, v)
        \/ \E v \in Values \cup {EmptyBag} : Copy(o, v)
        \/ \E p \in Objs : Move(o, p) \/ Swap(o, p)
        \/ \E n \in Names : Release(o, n)
        \/ \E n \in DOMAIN loose : Take(o, n)
        \/ Lose(o) \/ Reorder(o) \/ Freeze(o) \/ Thaw(o) \/ End(o)
    \/ \E n \in DOMAIN loose : Drop(n)

Spec == Init /\ [][Next]_<<val, loose, frozen, res>>
=============================================================================
