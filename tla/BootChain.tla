----------------------------- MODULE BootChain -----------------------------
(***************************************************************************)
(* What a failsafe update promises about the images the device boots from. *)
(*                                                                         *)
(* Every boot critical image has two copies, "main" and "bak".  The copies *)
(* of all the images of a unit (a GPT disk, or the XBL boot LUN) are chosen *)
(* together: the unit flips from one to the other in one indivisible step, *)
(* and only to copies that are whole.  A copy is rewritten only while the  *)
(* other one is booted.  So the device always has a complete chain.        *)
(***************************************************************************)
EXTENDS Integers

CONSTANTS
    Img,        \* the boot critical images
    UnitOf      \* the unit each of them is on

VARIABLES
    boot,       \* the copy of each image that the next boot uses
    torn        \* the copies that are being rewritten, pairs <<image, copy>>

Copies == {"main", "bak"}

Init ==
    /\ boot \in [Img -> Copies]
    /\ torn = {}

\* The images of unit u all go over to copy c.
Flip(u, c) ==
    /\ \A i \in Img : UnitOf[i] = u => <<i, c>> \notin torn
    /\ boot' = [i \in Img |-> IF UnitOf[i] = u THEN c ELSE boot[i]]
    /\ torn' = torn

StartFlash(i, c) ==
    /\ boot[i] # c
    /\ torn' = torn \cup {<<i, c>>}
    /\ boot' = boot

EndFlash(i, c) ==
    /\ torn' = torn \ {<<i, c>>}
    /\ boot' = boot

Next ==
    \E c \in Copies :
        \/ \E i \in Img : StartFlash(i, c) \/ EndFlash(i, c)
        \/ \E i \in Img : Flip(UnitOf[i], c)

Spec == Init /\ [][Next]_<<boot, torn>>

\* No image is booted from a copy that is being rewritten.
Whole == \A i \in Img : <<i, boot[i]>> \notin torn
=============================================================================
