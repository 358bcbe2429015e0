-------------------------- MODULE MCFailsafeUpdate --------------------------
(* Instances of FailsafeUpdate for TLC.                                     *)
EXTENDS FailsafeUpdate, TLC

CONSTANTS i1, i2, i3

OneImage == {i1}
OneLun == i1 :> 1

TwoImages == {i1, i2}
TwoLuns == i1 :> 1 @@ i2 :> 2

\* Two images on the first LUN and one on the second.
ThreeImages == {i1, i2, i3}
UnevenLuns == i1 :> 1 @@ i2 :> 1 @@ i3 :> 2
==============================================================================
