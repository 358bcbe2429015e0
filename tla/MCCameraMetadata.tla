-------------------------- MODULE MCCameraMetadata --------------------------
(* Instances of CameraMetadata for TLC.                                     *)
EXTENDS CameraMetadata, TLC

CONSTANTS o1, o2, b1, b2, b3, c1, c2, t1, t2

\* Room for one entry; room for two entries that have no data.
OneEntry == {<<1, 1>>}
TwoInline == {<<2, 0>>}

\* Addresses and holders have no order and no names in the code.
Interchangeable == Permutations(Bufs) \cup Permutations(Objs) \cup Permutations(Holders)
=============================================================================
