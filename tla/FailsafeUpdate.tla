--------------------------- MODULE FailsafeUpdate ---------------------------
(***************************************************************************)
(* prepare_boot_update of gpt-utils/gpt-utils.cpp: the three stages that   *)
(* let an updater rewrite the boot critical images while the device always *)
(* has a chain to boot from.  The stage a disk is in is kept nowhere but   *)
(* in the signatures of its two GPT headers, and a stage goes from one to  *)
(* the next by two or three separate durable writes on every LUN.          *)
(*                                                                         *)
(* The updater that calls the stages is not in the repository.  It is      *)
(* modelled from what the stages are for: it rewrites the main copies      *)
(* after UPDATE_MAIN returned 0, the bak copies after UPDATE_BACKUP        *)
(* returned 0, and leaves a stage when no copy is half written.  Firmware  *)
(* is external too: it boots by the primary table if that one is valid and *)
(* by the secondary table otherwise.                                       *)
(*                                                                         *)
(* Of a partition array the model keeps, per image, which of the twins     *)
(* (name, namebak) comes first; of a header its signature, whether its own *)
(* CRC is right, and the array its array CRC was computed over.            *)
(***************************************************************************)
EXTENDS Integers, FiniteSets, FiniteSetsExt

CONSTANTS
    NLuns,        \* length of lun_list; 1 on eMMC
    Images,       \* PTN_SWAP_LIST members with a twin on their LUN
    LunOf,        \* the LUN of each of them
    HasXbl,       \* UFS, and by-name/xbl and by-name/xblbak both exist
    Client,       \* the updater: "resume", "probe" or "any", see Goals
    TornHeaders,  \* a header write can be cut inside the block
    ShortWrites,  \* write() may stop early and still report success
    StatFails,    \* stat() and readlink() may fail on a node that exists
    MaxFaults     \* bound: crashes and failed system calls in a behaviour

UPDATE_MAIN == 1
UPDATE_BACKUP == 2
UPDATE_FINALIZE == 3
Stages == {UPDATE_MAIN, UPDATE_BACKUP, UPDATE_FINALIZE}
NoStage == 0

Luns == 1..NLuns
Copies == {"main", "bak"}
Xbl == "xbl"
AllImages == Images \cup (IF HasXbl THEN {Xbl} ELSE {})

ASSUME UpdateAssumption ==
    /\ NLuns \in Nat
    /\ LunOf \in [Images -> Luns]
    /\ Xbl \notin Images
    /\ HasXbl \in BOOLEAN
    /\ Client \in {"resume", "probe", "any"}
    /\ TornHeaders \in BOOLEAN
    /\ ShortWrites \in BOOLEAN
    /\ StatFails \in BOOLEAN
    /\ MaxFaults \in Nat

VARIABLES
    prim,       \* primary header of each LUN
    sec,        \* secondary header of each LUN
    primArrOk,  \* whether the primary header's array CRC matches the array
    secCrc,     \* the array over which the secondary header's CRC was computed
    secArr,     \* the secondary array: the twin that comes first, per image
    bootLun,    \* the XBL copy selected by bBootLunEn
    pc,         \* where the running call is
    stage,      \* the stage it was given
    listed,     \* lun_list, as a set: it is worked off in increasing order
    lun,        \* the LUN it is working on
    isError,    \* is_error of prepare_boot_update
    ret,        \* the outcome of the last call
    goal,       \* updater: the stage it is at
    granted,    \* updater: the stage whose copies it may rewrite
    torn,       \* the copies half written, pairs <<image, copy>>
    faults      \* faults so far, at most MaxFaults

gpts == <<prim, sec, primArrOk, secCrc, secArr>>
call == <<pc, stage, listed, lun, isError, ret>>
client == <<goal, granted, torn>>
vars == <<prim, sec, primArrOk, secCrc, secArr, bootLun, pc, stage, listed, lun,
          isError, ret, goal, granted, torn, faults>>

\* GPT_OK, GPT_BAD_SIGNATURE, GPT_BAD_CRC as gpt_get_state tells them apart.
HeaderStates == {"ok", "bad_signature", "bad_crc"}
Orders == [Images -> Copies \cup {"mixed"}]

TypeOK ==
    /\ prim \in [Luns -> HeaderStates] /\ sec \in [Luns -> HeaderStates]
    /\ primArrOk \in [Luns -> BOOLEAN]
    /\ secCrc \in Orders /\ secArr \in Orders
    /\ bootLun \in Copies
    /\ pc \in {"idle", "open", "xbl", "sec_hdr", "sec_arr", "prim_bad",
               "prim_ok", "sec_bad", "sec_ok"}
    /\ stage \in Stages \cup {NoStage}
    /\ listed \subseteq Luns
    /\ lun \in Luns \cup {0}
    /\ isError \in BOOLEAN
    /\ ret \in {"none", "ok", "error"}
    /\ goal \in Stages
    /\ granted \in {NoStage, UPDATE_MAIN, UPDATE_BACKUP}
    /\ torn \subseteq AllImages \X Copies
    /\ faults \in 0..MaxFaults

-----------------------------------------------------------------------------
(* Firmware: which copies the device boots from. *)

On(l) == {i \in Images : LunOf[i] = l}

PrimValid(l) == prim[l] = "ok" /\ primArrOk[l]
SecValid(l) == sec[l] = "ok" /\ \A i \in On(l) : secCrc[i] = secArr[i]

\* gpt_pentry_seek's rule: of a name and its twin, the first in the array.
BootCopy(i) ==
    IF i = Xbl THEN bootLun
    ELSE IF PrimValid(LunOf[i]) THEN "main"
    ELSE IF SecValid(LunOf[i]) THEN secArr[i]
    ELSE "none"

-----------------------------------------------------------------------------
(* Shared pieces of the actions. *)

Fault(happens) ==
    /\ faults' = IF happens THEN faults + 1 ELSE faults
    /\ faults' <= MaxFaults

NextStage(s) == IF s = UPDATE_FINALIZE THEN UPDATE_MAIN ELSE s + 1

\* What the updater does next after a stage failed: the same stage again, the
\* next one, or anything.
Goals(s) == CASE Client = "resume" -> {s}
              [] Client = "probe" -> {NextStage(s)}
              [] Client = "any" -> Stages

\* Mutant: a finished update still lets the updater write.
ReturnKeepsGrant(ok) ==
    /\ ret' = IF ok THEN "ok" ELSE "error"
    /\ pc' = "idle"
    /\ stage' = NoStage
    /\ listed' = {}
    /\ lun' = 0
    /\ isError' = FALSE
    /\ granted' = IF ok THEN stage ELSE NoStage
    /\ goal' \in IF ~ok THEN Goals(stage) ELSE {stage}
    /\ torn' = torn

\* prepare_boot_update returns; the updater looks at the return code.
Return(ok) ==
    /\ ret' = IF ok THEN "ok" ELSE "error"
    /\ pc' = "idle"
    /\ stage' = NoStage
    /\ listed' = {}
    /\ lun' = 0
    /\ isError' = FALSE
    /\ granted' = IF ok /\ stage # UPDATE_FINALIZE THEN stage ELSE NoStage
    /\ goal' \in IF ~ok THEN Goals(stage)
                 ELSE IF stage = UPDATE_FINALIZE THEN {UPDATE_MAIN} ELSE {stage}
    /\ torn' = torn

LunsAfter(l) == {k \in listed : k > l}

\* Mutant: only the return code of the last LUN counts.
LunDoneForgets(ok) ==
    IF LunsAfter(lun) = {}
    THEN Return(ok)
    ELSE /\ isError' = ~ok
         /\ lun' = Min(LunsAfter(lun))
         /\ pc' = "open"
         /\ UNCHANGED <<stage, listed, ret, goal, granted, torn>>

\* prepare_partitions returned for LUN lun; the loop goes on in any case.
LunDone(ok) ==
    IF LunsAfter(lun) = {}
    THEN Return(ok /\ ~isError)
    ELSE /\ isError' = (isError \/ ~ok)
         /\ lun' = Min(LunsAfter(lun))
         /\ pc' = "open"
         /\ UNCHANGED <<stage, listed, ret, goal, granted, torn>>

GoTo(step) ==
    /\ pc' = step
    /\ UNCHANGED <<stage, listed, lun, isError, ret, goal, granted, torn>>

-----------------------------------------------------------------------------
(* The updater. *)

\* It does not leave the copies it is rewriting half written.
MayCall(s) ==
    /\ s = UPDATE_BACKUP => \A i \in AllImages : <<i, "main">> \notin torn
    /\ s = UPDATE_FINALIZE => \A i \in AllImages : <<i, "bak">> \notin torn

\* The LUNs are listed anew in every call; one that cannot be looked up is
\* skipped, without an error.
PrepareBootUpdate(s) ==
    /\ pc = "idle"
    /\ MayCall(s)
    /\ IF Client = "any" THEN TRUE ELSE granted = NoStage /\ goal = s
    /\ stage' = s
    /\ goal' = s
    /\ granted' = NoStage
    /\ listed' \in IF StatFails THEN SUBSET Luns ELSE {Luns}
    /\ Fault(listed' # Luns)
    /\ lun' = IF listed' = {} THEN 0 ELSE Min(listed')
    /\ pc' = "open"
    /\ isError' = FALSE
    /\ ret' = "none"
    /\ UNCHANGED <<gpts, bootLun, torn>>

Rewritten == IF granted = UPDATE_MAIN THEN "main" ELSE "bak"

\* One image at a time.
StartFlash(i) ==
    /\ pc = "idle"
    /\ granted # NoStage
    /\ \A j \in AllImages : <<j, Rewritten>> \notin torn
    /\ torn' = torn \cup {<<i, Rewritten>>}
    /\ UNCHANGED <<gpts, bootLun, call, goal, granted, faults>>

EndFlash(i) ==
    /\ pc = "idle"
    /\ granted # NoStage
    /\ <<i, Rewritten>> \in torn
    /\ torn' = torn \ {<<i, Rewritten>>}
    /\ UNCHANGED <<gpts, bootLun, call, goal, granted, faults>>

\* Every copy of the stage is written: on to the next stage.
StageDone ==
    /\ pc = "idle"
    /\ granted # NoStage
    /\ MayCall(NextStage(granted))
    /\ goal' = NextStage(granted)
    /\ granted' = NoStage
    /\ UNCHANGED <<gpts, bootLun, call, torn, faults>>

\* A stage whose call would leave a half written copy is passed over.
Skip ==
    /\ pc = "idle"
    /\ granted = NoStage
    /\ Client = "probe"
    /\ ~MayCall(goal)
    /\ goal' = NextStage(goal)
    /\ UNCHANGED <<gpts, bootLun, call, granted, torn, faults>>

-----------------------------------------------------------------------------
(* prepare_partitions: opening the LUN and finding out its stage. *)

\* The loop over lun_list is empty.
NoLuns ==
    /\ pc = "open"
    /\ lun = 0
    /\ Return(TRUE)
    /\ UNCHANGED <<gpts, bootLun, faults>>

\* Mutant: the signatures of the last two stages are exchanged.
InternalStageSwapped(l) ==
    IF prim[l] = "ok" /\ sec[l] = "ok" THEN UPDATE_MAIN
    ELSE IF prim[l] = "bad_signature" THEN UPDATE_FINALIZE
    ELSE UPDATE_BACKUP

\* internal_stage, for the header states that have one.
InternalStage(l) ==
    IF prim[l] = "ok" /\ sec[l] = "ok" THEN UPDATE_MAIN
    ELSE IF prim[l] = "bad_signature" THEN UPDATE_BACKUP
    ELSE UPDATE_FINALIZE

Unacceptable(l) ==
    \/ prim[l] = "bad_crc" \/ sec[l] = "bad_crc"
    \/ prim[l] = "bad_signature" /\ sec[l] = "bad_signature"

OpenFails ==
    /\ pc = "open"
    /\ lun # 0
    /\ Fault(~(Unacceptable(lun)
               \/ stage \notin {InternalStage(lun), InternalStage(lun) - 1}))
    /\ LunDone(FALSE)
    /\ UNCHANGED <<gpts, bootLun>>

\* "Stage already set - ready for update, exitting".
AlreadySet ==
    /\ pc = "open"
    /\ lun # 0
    /\ ~Unacceptable(lun)
    /\ stage = InternalStage(lun) - 1
    /\ LunDone(TRUE)
    /\ UNCHANGED <<gpts, bootLun, faults>>

\* Mutant: UPDATE_BACKUP spoils the secondary header before it mends the primary.
FirstStepSecondary ==
    CASE stage = UPDATE_FINALIZE -> "sec_hdr"
      [] stage = UPDATE_MAIN -> IF HasXbl THEN "xbl" ELSE "sec_hdr"
      [] OTHER -> "sec_bad"

FirstStep ==
    IF HasXbl /\ stage # UPDATE_FINALIZE THEN "xbl"
    ELSE IF stage = UPDATE_BACKUP THEN "prim_ok" ELSE "sec_hdr"

\* Mutant: the state of the two headers is not looked at.
BeginUnchecked ==
    /\ pc = "open"
    /\ lun # 0
    /\ stage = InternalStage(lun)
    /\ GoTo(FirstStep)
    /\ UNCHANGED <<gpts, bootLun, faults>>

Begin ==
    /\ pc = "open"
    /\ lun # 0
    /\ ~Unacceptable(lun)
    /\ stage = InternalStage(lun)
    /\ GoTo(FirstStep)
    /\ UNCHANGED <<gpts, bootLun, faults>>

-----------------------------------------------------------------------------
(* prepare_partitions: the writes of a stage. *)

\* Mutant: the two boot chains are exchanged.
XblTargetSwapped == IF stage = UPDATE_MAIN THEN "main" ELSE "bak"

\* gpt_utils_set_xbl_boot_partition(BACKUP_BOOT or NORMAL_BOOT).
XblTarget == IF stage = UPDATE_MAIN THEN "bak" ELSE "main"

SetXbl ==
    /\ pc = "xbl"
    /\ bootLun' = XblTarget
    /\ GoTo(IF stage = UPDATE_MAIN THEN "sec_hdr" ELSE "prim_ok")
    /\ UNCHANGED <<gpts, faults>>

\* A stat() that fails stands for a device without XBL.
XblNotFound ==
    /\ pc = "xbl"
    /\ StatFails
    /\ Fault(TRUE)
    /\ GoTo(IF stage = UPDATE_MAIN THEN "sec_hdr" ELSE "prim_ok")
    /\ UNCHANGED <<gpts, bootLun>>

\* Mutant: UPDATE_FINALIZE does not undo the swap.
ChainTargetBackup == "bak"

\* gpt2_set_boot_chain builds the secondary array from the primary one, swapped
\* for BACKUP_BOOT.
ChainTarget == IF stage = UPDATE_MAIN THEN "bak" ELSE "main"

Ordered(order, W, copy) == [i \in Images |-> IF i \in W THEN copy ELSE order[i]]

\* It gives up on a bad primary array, and in UPDATE_MAIN when nothing is swapped.
WillWriteChain == primArrOk[lun] /\ (stage = UPDATE_MAIN => On(lun) # {})

ChainRefused ==
    /\ pc = "sec_hdr"
    /\ ~WillWriteChain
    /\ LunDone(primArrOk[lun])
    /\ UNCHANGED <<gpts, bootLun, faults>>

WriteSecHeader ==
    /\ pc = "sec_hdr"
    /\ WillWriteChain
    /\ secCrc' = Ordered(secCrc, On(lun), ChainTarget)
    /\ GoTo("sec_arr")
    /\ UNCHANGED <<prim, sec, primArrOk, secArr, bootLun, faults>>

AfterChain == GoTo(IF stage = UPDATE_MAIN THEN "prim_bad" ELSE "sec_ok")

WriteSecArray ==
    /\ pc = "sec_arr"
    /\ secArr' = Ordered(secArr, On(lun), ChainTarget)
    /\ AfterChain
    /\ UNCHANGED <<prim, sec, primArrOk, secCrc, bootLun, faults>>

\* An array write that is cut: some images swapped, some with half a swap.
SecArrayCut ==
    \E new, half \in SUBSET On(lun) :
        secArr' = Ordered(Ordered(secArr, new, ChainTarget), half, "mixed")

\* blk_rw takes any count that is not negative for success.
WriteSecArrayShort ==
    /\ pc = "sec_arr"
    /\ ShortWrites
    /\ Fault(TRUE)
    /\ SecArrayCut
    /\ AfterChain
    /\ UNCHANGED <<prim, sec, primArrOk, secCrc, bootLun>>

\* Mutant: the secondary header is never mended.
StateTargetPrimaryOnly == IF pc = "prim_ok" THEN "ok" ELSE "bad_signature"

\* gpt_set_state, on the primary and on the secondary header.
StateTarget == IF pc \in {"prim_ok", "sec_ok"} THEN "ok" ELSE "bad_signature"

SetPrimState ==
    /\ pc \in {"prim_bad", "prim_ok"}
    /\ prim' = [prim EXCEPT ![lun] = StateTarget]
    /\ IF pc = "prim_ok" THEN GoTo("sec_bad") ELSE LunDone(TRUE)
    /\ UNCHANGED <<sec, primArrOk, secCrc, secArr, bootLun, faults>>

SetSecState ==
    /\ pc \in {"sec_bad", "sec_ok"}
    /\ sec' = [sec EXCEPT ![lun] = StateTarget]
    /\ LunDone(TRUE)
    /\ UNCHANGED <<prim, primArrOk, secCrc, secArr, bootLun, faults>>

-----------------------------------------------------------------------------
(* Failure. *)

\* What a header block can hold after its write was cut or reported an error.
HeaderCut(old, new) == {old, new} \cup (IF TornHeaders THEN {"bad_crc"} ELSE {})

\* What is on disk when the write that pc stands for is cut.
CutWrite ==
    /\ prim' \in IF pc \in {"prim_bad", "prim_ok"}
                 THEN {[prim EXCEPT ![lun] = x] : x \in HeaderCut(prim[lun], StateTarget)}
                 ELSE {prim}
    /\ sec' \in CASE pc \in {"sec_bad", "sec_ok"} ->
                       {[sec EXCEPT ![lun] = x] : x \in HeaderCut(sec[lun], StateTarget)}
                  [] pc = "sec_hdr" /\ WillWriteChain ->
                       {[sec EXCEPT ![lun] = x] : x \in HeaderCut(sec[lun], sec[lun])}
                  [] OTHER -> {sec}
    /\ secCrc' \in IF pc = "sec_hdr" /\ WillWriteChain
                   THEN {secCrc, Ordered(secCrc, On(lun), ChainTarget)} ELSE {secCrc}
    /\ IF pc = "sec_arr" THEN SecArrayCut ELSE secArr' = secArr
    /\ bootLun' \in IF pc = "xbl" THEN {bootLun, XblTarget} ELSE {bootLun}
    /\ primArrOk' = primArrOk

\* A system call of the step fails: the LUN is given up, the loop goes on.
StepFails ==
    /\ pc \notin {"idle", "open"}
    /\ Fault(TRUE)
    /\ CutWrite
    /\ LunDone(FALSE)

\* The machine goes down; the updater starts again.
Crash ==
    /\ Fault(TRUE)
    /\ CutWrite
    /\ ret' = "none"
    /\ pc' = "idle"
    /\ stage' = NoStage
    /\ listed' = {}
    /\ lun' = 0
    /\ isError' = FALSE
    /\ granted' = NoStage
    /\ goal' \in CASE Client = "resume" -> {goal}
                   [] Client = "probe" -> {UPDATE_MAIN}
                   [] Client = "any" -> Stages
    /\ torn' = torn

-----------------------------------------------------------------------------

\* Both tables point to the main copies.  A primary array that does not match
\* its header is what a commit of gpt_disk_commit leaves when it is cut.
Init ==
    /\ prim = [l \in Luns |-> "ok"]
    /\ sec = [l \in Luns |-> "ok"]
    /\ primArrOk \in [Luns -> BOOLEAN]
    /\ secCrc = [i \in Images |-> "main"]
    /\ secArr = [i \in Images |-> "main"]
    /\ bootLun = "main"
    /\ pc = "idle"
    /\ stage = NoStage
    /\ listed = {}
    /\ lun = 0
    /\ isError = FALSE
    /\ ret = "none"
    /\ goal = UPDATE_MAIN
    /\ granted = NoStage
    /\ torn = {}
    /\ faults = 0

Steps ==
    \/ NoLuns \/ OpenFails \/ AlreadySet \/ Begin
    \/ SetXbl \/ XblNotFound \/ ChainRefused \/ WriteSecHeader \/ WriteSecArray \/ WriteSecArrayShort
    \/ SetPrimState \/ SetSecState \/ StepFails

Updater ==
    \/ \E s \in Stages : PrepareBootUpdate(s)
    \/ \E i \in AllImages : StartFlash(i) \/ EndFlash(i)
    \/ StageDone \/ Skip

Next == Steps \/ Updater \/ Crash

Spec == Init /\ [][Next]_vars

\* The process runs, and the updater does not stop half way.
FairSpec ==
    /\ Spec
    /\ WF_vars(Steps)
    /\ WF_vars(\E s \in Stages : PrepareBootUpdate(s))
    /\ \A i \in AllImages : WF_vars(EndFlash(i))
    /\ SF_vars(StageDone)
    /\ WF_vars(Skip)

-----------------------------------------------------------------------------
(* Properties. *)

\* At every instant, in the middle of any stage, every LUN has a table that the
\* firmware accepts: the stages never damage one table before the other one is
\* complete.
SomeTableValid == \A l \in Luns : PrimValid(l) \/ SecValid(l)

\* No image is booted from a copy that is being rewritten.
BootChainIntact == \A i \in AllImages : <<i, BootCopy(i)>> \notin torn

\* When UPDATE_MAIN returned 0 the device boots entirely from the bak copies, and
\* when UPDATE_BACKUP returned 0 entirely from the main ones: the 0 of "stage
\* already set" stands for the same state as the 0 of a stage that was run.
ReadyForUpdate ==
    /\ granted = UPDATE_MAIN => \A i \in AllImages : BootCopy(i) = "bak"
    /\ granted = UPDATE_BACKUP => \A i \in AllImages : BootCopy(i) = "main"

\* When UPDATE_FINALIZE returned 0 "the primary/backup GPT headers once again
\* point to the same set of partitions" (gpt-utils.cpp:899): both tables of every
\* LUN are valid and the secondary one is back in the order of the primary one.
TablesAgreeAfterFinalize ==
    (ret = "ok" /\ granted = NoStage /\ goal = UPDATE_MAIN) =>
        \A l \in Luns :
            PrimValid(l) /\ SecValid(l) /\ \A i \in On(l) : secArr[i] = "main"

\* The signatures, which are all that remembers the stage, are never both spoilt:
\* the state prepare_partitions refuses as "Both GPT headers corrupted" is not
\* one its own stages lead to, even when array writes are silently cut.
SignatureLeft ==
    \A l \in Luns : prim[l] = "bad_signature" => sec[l] = "ok"

\* A LUN whose headers prepare_partitions refuses whatever the stage is written by no
\* stage, so nothing the updater calls repairs it.
StuckForever ==
    [][\A l \in Luns : Unacceptable(l) => prim'[l] = prim[l] /\ sec'[l] = sec[l]]_vars

\* A crash or a failed call makes one LUN unacceptable at most, and nothing that
\* is called after it, on that LUN or on the others, makes another one so.
StuckPerFault == Cardinality({l \in Luns : Unacceptable(l)}) <= faults

\* A stage that returned 0 is behind every LUN with a twin, run or found already
\* set: the next stage finds none that it refuses.
ZeroOpensNext ==
    ret = "ok" =>
        \A l \in Luns : On(l) # {} =>
            /\ ~Unacceptable(l)
            /\ InternalStage(l) = IF granted = NoStage THEN goal ELSE NextStage(granted)

\* The images of a LUN are never booted from different copies, and a step moves
\* them all or none of them, to copies that are whole.
Chain == INSTANCE BootChain WITH
    Img <- AllImages,
    UnitOf <- [i \in AllImages |-> IF i = Xbl THEN 0 ELSE LunOf[i]],
    boot <- [i \in AllImages |-> BootCopy(i)]
BootChainSpec == Chain!Spec

\* An updater that goes through the stages in turn is let back in after any failure
\* or crash, and again and again UPDATE_MAIN grants it the main copies, unless a
\* header write was cut inside its block: a LUN whose header does not fit its own CRC
\* is refused by every stage, and then the updater is refused for ever.
GrantedAgain ==
    (\A l \in Luns : primArrOk[l]) =>
        /\ []<>(granted = UPDATE_MAIN) \/ <>[](\E l \in Luns : Unacceptable(l))
        /\ <>[](granted # UPDATE_MAIN) \/ []<>(\A l \in Luns : ~Unacceptable(l))

\* "do not flag error" (gpt-utils.cpp:847): without faults and with undamaged
\* tables, an updater that follows the stages is never refused.  The code does
\* not give this on a disk without twins.
NeverRefused == (faults = 0 /\ \A l \in Luns : primArrOk[l]) => ret # "error"

\* A stage that an updater repeats until it returns 0 does return 0.  The code
\* does not give this: see the run that refutes it.
StageSettles == []<>(goal # UPDATE_BACKUP)
=============================================================================
