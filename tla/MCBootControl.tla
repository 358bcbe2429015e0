--------------------------- MODULE MCBootControl ---------------------------
(* Partition layouts for model checking BootControl with TLC.               *)
EXTENDS BootControl

\* UFS, as on nash, with the two slots on different LUNs: 1 is xbl on its own
\* pair of LUNs, 2 and boot (3) have a pair of LUNs each, 4 has no _b and is on
\* the LUN of boot_a.
UfsPresent == ((1..3) \X {0, 1}) \cup {<<4, 0>>}
UfsDiskOf == [e \in UfsPresent |-> IF e[1] = 4 THEN 5 ELSE 2 * e[1] - 1 + e[2]]

\* UFS: 1 is xbl, 2 and boot (3) share a LUN in each slot.
LunPresent == (1..3) \X {0, 1}
LunDiskOf == [e \in LunPresent |-> IF e[1] = 1 THEN 1 + e[2] ELSE 3 + e[2]]

\* UFS with xbl (1) and boot (2) only.
BootPresent == (1..2) \X {0, 1}
BootDiskOf == [e \in BootPresent |-> 2 * e[1] - 1 + e[2]]

\* eMMC: every entry in the one table of mmcblk0; 3 has no _b.
EmmcPresent == BootPresent \cup {<<3, 0>>}
EmmcDiskOf == [e \in EmmcPresent |-> 1]
=============================================================================
