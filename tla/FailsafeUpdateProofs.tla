------------------------ MODULE FailsafeUpdateProofs ------------------------
(***************************************************************************)
(* Proofs about FailsafeUpdate, for any number of LUNs and images, every   *)
(* updater and every number of faults: the types, the control state, and   *)
(* what is always left of the headers and of the tables.                   *)
(***************************************************************************)
EXTENDS FailsafeUpdate, WellFoundedInduction, TLAPS

-----------------------------------------------------------------------------
(* The control state: which stage runs the step that pc stands for. *)

Places == {"idle", "open", "xbl", "sec_hdr", "sec_arr", "prim_bad",
           "prim_ok", "sec_bad", "sec_ok"}

RunsIn(place, s) ==
    /\ place # "idle" => s \in Stages
    /\ place = "xbl" => s \in {UPDATE_MAIN, UPDATE_BACKUP}
    /\ place \in {"sec_hdr", "sec_arr"} => s \in {UPDATE_MAIN, UPDATE_FINALIZE}
    /\ place = "prim_bad" => s = UPDATE_MAIN
    /\ place \in {"prim_ok", "sec_bad"} => s = UPDATE_BACKUP
    /\ place = "sec_ok" => s = UPDATE_FINALIZE

Control ==
    /\ RunsIn(pc, stage)
    /\ pc \notin {"idle", "open"} => lun \in Luns

DiskOK ==
    /\ prim \in [Luns -> HeaderStates] /\ sec \in [Luns -> HeaderStates]
    /\ primArrOk \in [Luns -> BOOLEAN]
    /\ secCrc \in Orders /\ secArr \in Orders
    /\ bootLun \in Copies

CallOK ==
    /\ pc \in Places
    /\ stage \in Stages \cup {NoStage}
    /\ listed \subseteq Luns
    /\ lun \in Luns \cup {0}
    /\ isError \in BOOLEAN
    /\ ret \in {"none", "ok", "error"}
    /\ goal \in Stages
    /\ granted \in {NoStage, UPDATE_MAIN, UPDATE_BACKUP}
    /\ Control

TornOK == torn \subseteq AllImages \X Copies

IInv == DiskOK /\ CallOK /\ TornOK /\ faults \in 0..MaxFaults

LEMMA IInvTypeOK == IInv => TypeOK
  BY DEF IInv, DiskOK, CallOK, TornOK, TypeOK, Places

-----------------------------------------------------------------------------
(* What the shared pieces of the actions leave behind. *)

\* A set of numbers has no smaller element than its least one.
LEMMA MinLeast ==
  ASSUME NEW S, S \subseteq Nat, NEW y \in S
  PROVE  Min(S) \in S /\ Min(S) =< y
<1> DEFINE R == OpToRel(<, Nat)
<1>1. PICK x \in S : \A z \in S : ~(<<z, x>> \in R)
  <2>1. IsWellFoundedOn(R, Nat)
    BY NatLessThanWellFounded
  <2> HIDE DEF R
  <2> QED  BY <2>1, WFMin
<1>2. \A z \in S : x =< z
  <2> TAKE z \in S
  <2>1. ~(<<z, x>> \in R)
    BY <1>1
  <2> QED  BY <2>1 DEF OpToRel
<1> QED  BY <1>2 DEF Min

\* A set of numbers that is not empty has a least element.
LEMMA MinIn ==
  ASSUME NEW S, S \subseteq Nat, S # {}
  PROVE  Min(S) \in S
<1>1. PICK y \in S : TRUE
  OBVIOUS
<1> QED  BY <1>1, MinLeast

LEMMA FaultType ==
  ASSUME NEW b, Fault(b), faults \in 0..MaxFaults
  PROVE  faults' \in 0..MaxFaults
  BY UpdateAssumption DEF Fault

LEMMA GoalsType ==
  ASSUME NEW s \in Stages
  PROVE  NextStage(s) \in Stages /\ Goals(s) \subseteq Stages
<1>1. NextStage(s) \in Stages
  BY DEF NextStage, Stages, UPDATE_MAIN, UPDATE_BACKUP, UPDATE_FINALIZE
<1> QED  BY <1>1, UpdateAssumption DEF Goals

LEMMA ReturnOK ==
  ASSUME CallOK, pc # "idle", NEW ok \in BOOLEAN, Return(ok)
  PROVE  CallOK' /\ torn' = torn /\ pc' = "idle"
<1>1. stage \in Stages
  BY DEF CallOK, Control, RunsIn
<1>2. goal' \in Stages
  BY <1>1, GoalsType DEF Return, Stages
<1>3. granted' \in {NoStage, UPDATE_MAIN, UPDATE_BACKUP}
  BY <1>1 DEF Return, Stages
<1> QED  BY <1>2, <1>3 DEF Return, CallOK, Control, RunsIn, Places

LEMMA LunDoneOK ==
  ASSUME CallOK, pc # "idle", NEW ok \in BOOLEAN, LunDone(ok)
  PROVE  CallOK' /\ torn' = torn /\ pc' \in {"idle", "open"}
<1>1. CASE LunsAfter(lun) = {}
  <2>1. (ok /\ ~isError) \in BOOLEAN
    BY DEF CallOK
  <2>2. Return(ok /\ ~isError)
    BY <1>1 DEF LunDone
  <2> QED  BY <2>1, <2>2, ReturnOK
<1>2. CASE LunsAfter(lun) # {}
  <2>1. LunsAfter(lun) \subseteq listed /\ listed \subseteq Luns
    BY DEF LunsAfter, CallOK
  <2>2. Min(LunsAfter(lun)) \in Luns
    <3>1. Luns \subseteq Nat
      BY DEF Luns
    <3> QED  BY <1>2, <2>1, <3>1, MinIn
  <2> QED  BY <1>2, <2>2 DEF LunDone, CallOK, Control, RunsIn, Places
<1> QED  BY <1>1, <1>2

LEMMA GoToOK ==
  ASSUME CallOK, pc # "idle", lun \in Luns, NEW place \in Places \ {"idle"},
         RunsIn(place, stage), GoTo(place)
  PROVE  CallOK' /\ torn' = torn
  BY DEF GoTo, CallOK, Control, RunsIn

-----------------------------------------------------------------------------
(* The values written to disk have their types. *)

LEMMA OrderedType ==
  ASSUME NEW order \in Orders, NEW W, NEW copy \in Copies \cup {"mixed"}
  PROVE  Ordered(order, W, copy) \in Orders
  BY DEF Ordered, Orders

LEMMA TargetTypes ==
  /\ ChainTarget \in Copies /\ XblTarget \in Copies
  /\ StateTarget \in {"ok", "bad_signature"} /\ StateTarget \in HeaderStates
  BY DEF ChainTarget, XblTarget, StateTarget, Copies, HeaderStates

LEMMA SecArrayCutType ==
  ASSUME DiskOK, SecArrayCut
  PROVE  secArr' \in Orders
<1>1. PICK new, half \in SUBSET On(lun) :
        secArr' = Ordered(Ordered(secArr, new, ChainTarget), half, "mixed")
  BY DEF SecArrayCut
<1>2. Ordered(secArr, new, ChainTarget) \in Orders
  BY OrderedType, TargetTypes DEF DiskOK
<1> QED  BY <1>1, <1>2, OrderedType

LEMMA CutWriteType ==
  ASSUME DiskOK, CutWrite
  PROVE  DiskOK'
<1>1. \A old, new \in HeaderStates : HeaderCut(old, new) \subseteq HeaderStates
  BY DEF HeaderCut, HeaderStates
<1>2. prim' \in [Luns -> HeaderStates]
  BY <1>1, TargetTypes DEF DiskOK, CutWrite
<1>3. sec' \in [Luns -> HeaderStates]
  BY <1>1, TargetTypes DEF DiskOK, CutWrite
<1>4. secCrc' \in Orders
  BY OrderedType, TargetTypes DEF DiskOK, CutWrite
<1>5. secArr' \in Orders
  BY SecArrayCutType DEF DiskOK, CutWrite
<1>6. bootLun' \in Copies /\ primArrOk' \in [Luns -> BOOLEAN]
  BY TargetTypes DEF DiskOK, CutWrite
<1> QED  BY <1>2, <1>3, <1>4, <1>5, <1>6 DEF DiskOK

-----------------------------------------------------------------------------
(* Every action preserves the types and the control state. *)

LEMMA UpdaterIInv ==
  ASSUME IInv, Updater
  PROVE  IInv'
<1> USE DEF IInv
<1>1. CASE \E s \in Stages : PrepareBootUpdate(s)
  <2>1. PICK s \in Stages : PrepareBootUpdate(s)
    BY <1>1
  <2>2. listed' \subseteq Luns
    BY <2>1 DEF PrepareBootUpdate
  <2>3. lun' \in Luns \cup {0}
    <3>1. listed' \subseteq Nat
      BY <2>2 DEF Luns
    <3> QED  BY <2>1, <2>2, <3>1, MinIn DEF PrepareBootUpdate
  <2>4. CallOK'
    BY <2>1, <2>2, <2>3 DEF PrepareBootUpdate, CallOK, Control, RunsIn, Places
  <2> QED
    BY <2>1, <2>4, FaultType DEF PrepareBootUpdate, gpts, DiskOK, TornOK
<1>2. CASE \E i \in AllImages : StartFlash(i) \/ EndFlash(i)
  <2>1. PICK i \in AllImages : StartFlash(i) \/ EndFlash(i)
    BY <1>2
  <2>2. Rewritten \in Copies
    BY DEF Rewritten, Copies
  <2>3. TornOK'
    BY <2>1, <2>2 DEF StartFlash, EndFlash, TornOK
  <2> QED
    BY <2>1, <2>3 DEF StartFlash, EndFlash, call, gpts, DiskOK, CallOK, Control, RunsIn
<1>3. CASE StageDone \/ Skip
  <2>1. goal' \in Stages
    BY <1>3, GoalsType DEF StageDone, Skip, CallOK, Stages, NoStage
  <2> QED
    BY <1>3, <2>1
       DEF StageDone, Skip, call, gpts, DiskOK, CallOK, TornOK, Control, RunsIn
<1> QED  BY <1>1, <1>2, <1>3 DEF Updater

\* The steps that find out the stage of a LUN write nothing.
LEMMA OpenIInv ==
  ASSUME IInv, NoLuns \/ OpenFails \/ AlreadySet \/ Begin \/ ChainRefused
  PROVE  IInv'
<1> USE DEF IInv
<1>1. DiskOK' /\ faults' \in 0..MaxFaults
  BY FaultType DEF NoLuns, OpenFails, AlreadySet, Begin, ChainRefused, gpts, DiskOK
<1>2. CASE NoLuns
  BY <1>1, <1>2, ReturnOK DEF NoLuns, TornOK
<1>3. CASE OpenFails \/ AlreadySet
  BY <1>1, <1>3, LunDoneOK DEF OpenFails, AlreadySet, TornOK
<1>4. CASE Begin
  <2>1. lun \in Luns /\ pc # "idle" /\ stage \in Stages
    BY <1>4 DEF Begin, CallOK, Control, RunsIn
  <2>2. FirstStep \in Places \ {"idle"} /\ RunsIn(FirstStep, stage)
    BY <2>1 DEF FirstStep, Places, RunsIn, Stages, UPDATE_MAIN, UPDATE_BACKUP,
                UPDATE_FINALIZE
  <2> QED  BY <1>1, <1>4, <2>1, <2>2, GoToOK DEF Begin, TornOK
<1>5. CASE ChainRefused
  <2>1. primArrOk[lun] \in BOOLEAN /\ pc # "idle"
    BY <1>5 DEF ChainRefused, DiskOK, CallOK, Control
  <2> QED  BY <1>1, <1>5, <2>1, LunDoneOK DEF ChainRefused, TornOK
<1> QED  BY <1>2, <1>3, <1>4, <1>5

LEMMA XblIInv ==
  ASSUME IInv, SetXbl \/ XblNotFound
  PROVE  IInv'
<1> USE DEF IInv
<1>1. DiskOK' /\ faults' \in 0..MaxFaults
  BY FaultType, TargetTypes DEF SetXbl, XblNotFound, gpts, DiskOK
<1>2. PICK place \in {"sec_hdr", "prim_ok"} : RunsIn(place, stage) /\ GoTo(place)
  BY DEF SetXbl, XblNotFound, CallOK, Control, RunsIn, Stages, UPDATE_MAIN, UPDATE_BACKUP,
         UPDATE_FINALIZE
<1>3. lun \in Luns /\ pc # "idle" /\ place \in Places \ {"idle"}
  BY DEF SetXbl, XblNotFound, CallOK, Control, Places
<1> QED  BY <1>1, <1>2, <1>3, GoToOK DEF TornOK

LEMMA ChainIInv ==
  ASSUME IInv, WriteSecHeader \/ WriteSecArray \/ WriteSecArrayShort
  PROVE  IInv'
<1> USE DEF IInv
<1>1. lun \in Luns /\ pc \in {"sec_hdr", "sec_arr"}
      /\ stage \in {UPDATE_MAIN, UPDATE_FINALIZE}
  BY DEF WriteSecHeader, WriteSecArray, WriteSecArrayShort, CallOK, Control, RunsIn
<1>2. DiskOK' /\ faults' \in 0..MaxFaults
  BY FaultType, TargetTypes, OrderedType, SecArrayCutType
     DEF WriteSecHeader, WriteSecArray, WriteSecArrayShort, DiskOK
<1>3. PICK place \in {"sec_arr", "prim_bad", "sec_ok"} : RunsIn(place, stage) /\ GoTo(place)
  BY <1>1 DEF WriteSecHeader, WriteSecArray, WriteSecArrayShort, AfterChain, RunsIn,
              Stages, UPDATE_MAIN, UPDATE_FINALIZE
<1>4. pc # "idle" /\ place \in Places \ {"idle"}
  BY <1>1 DEF Places
<1> QED  BY <1>1, <1>2, <1>3, <1>4, GoToOK DEF TornOK

LEMMA StatesIInv ==
  ASSUME IInv, SetPrimState \/ SetSecState
  PROVE  IInv'
<1> USE DEF IInv
<1>1. lun \in Luns /\ pc # "idle"
  BY DEF SetPrimState, SetSecState, CallOK, Control
<1>2. DiskOK' /\ faults' \in 0..MaxFaults
  BY TargetTypes DEF SetPrimState, SetSecState, DiskOK
<1>3. CASE LunDone(TRUE)
  BY <1>1, <1>2, <1>3, LunDoneOK DEF TornOK
<1>4. CASE pc = "prim_ok" /\ GoTo("sec_bad")
  <2>1. RunsIn("sec_bad", stage) /\ "sec_bad" \in Places \ {"idle"}
    BY <1>4 DEF CallOK, Control, RunsIn, Places
  <2> QED  BY <1>1, <1>2, <1>4, <2>1, GoToOK DEF TornOK
<1> QED  BY <1>3, <1>4 DEF SetPrimState, SetSecState

LEMMA FailureIInv ==
  ASSUME IInv, StepFails \/ Crash
  PROVE  IInv'
<1> USE DEF IInv
<1>1. DiskOK' /\ faults' \in 0..MaxFaults
  BY FaultType, CutWriteType DEF StepFails, Crash
<1>2. CASE StepFails
  BY <1>1, <1>2, LunDoneOK DEF StepFails, TornOK
<1>3. CASE Crash
  <2>1. goal' \in Stages
    BY <1>3, UpdateAssumption DEF Crash, CallOK, Stages
  <2> QED  BY <1>1, <1>3, <2>1 DEF Crash, CallOK, Control, RunsIn, TornOK, Places
<1> QED  BY <1>2, <1>3

LEMMA InitIInv ==
  ASSUME Init
  PROVE  IInv
<1>1. DiskOK
  BY DEF Init, DiskOK, HeaderStates, Orders, Copies
<1>2. CallOK
  BY DEF Init, CallOK, Control, RunsIn, Places, Stages
<1> QED  BY <1>1, <1>2, UpdateAssumption DEF Init, IInv, TornOK

LEMMA NextIInv ==
  ASSUME IInv, [Next]_vars
  PROVE  IInv'
<1>1. CASE Steps
  BY <1>1, OpenIInv, XblIInv, ChainIInv, StatesIInv, FailureIInv DEF Steps
<1>2. CASE Updater
  BY <1>2, UpdaterIInv
<1>3. CASE Crash
  BY <1>3, FailureIInv
<1>4. CASE UNCHANGED vars
  BY <1>4 DEF vars, IInv, DiskOK, CallOK, TornOK, Control, RunsIn
<1> QED  BY <1>1, <1>2, <1>3, <1>4 DEF Next

\* In every reachable state the variables have their types, and a step of a
\* stage is only reached while that stage is running on a LUN.
THEOREM InductiveInvariant == Spec => []IInv
<1>1. Init => IInv
  BY InitIInv
<1>2. IInv /\ [Next]_vars => IInv'
  BY NextIInv
<1> QED  BY <1>1, <1>2, PTL DEF Spec

\* prepare_boot_update and the updater keep every variable within its type.
THEOREM TypeCorrect == Spec => []TypeOK
  BY InductiveInvariant, IInvTypeOK, PTL

-----------------------------------------------------------------------------
(* The headers. *)

\* What the step of pc may rely on about the two headers of LUN lun.
HeadersAtStep ==
    /\ pc \in {"sec_hdr", "sec_arr", "prim_bad", "sec_ok", "sec_bad"} => prim[lun] = "ok"
    /\ pc \in {"xbl", "sec_hdr", "sec_arr"} /\ stage = UPDATE_MAIN =>
         prim[lun] = "ok" /\ sec[lun] = "ok"
    /\ pc = "prim_bad" => sec[lun] = "ok"
    /\ pc = "prim_ok" \/ (pc = "xbl" /\ stage = UPDATE_BACKUP) => prim[lun] = "bad_signature"

Headers == SignatureLeft /\ HeadersAtStep

\* Outside the steps there is nothing to rely on.
LEMMA NoStep ==
  ASSUME pc' \in {"idle", "open"}
  PROVE  HeadersAtStep'
  BY DEF HeadersAtStep

LEMMA LeavesStep ==
  ASSUME IInv, pc # "idle", NEW ok \in BOOLEAN, LunDone(ok) \/ Return(ok)
  PROVE  pc' \in {"idle", "open"}
  BY LunDoneOK, ReturnOK DEF IInv

LEMMA EndsStep ==
  ASSUME IInv, NoLuns \/ OpenFails \/ AlreadySet \/ ChainRefused
  PROVE  pc' \in {"idle", "open"}
<1>1. CASE NoLuns
  BY <1>1, LeavesStep DEF NoLuns
<1>2. CASE OpenFails \/ AlreadySet
  BY <1>2, LeavesStep DEF OpenFails, AlreadySet
<1>3. CASE ChainRefused
  <2>1. primArrOk[lun] \in BOOLEAN
    BY <1>3 DEF ChainRefused, IInv, DiskOK, CallOK, Control
  <2> QED  BY <1>3, <2>1, LeavesStep DEF ChainRefused
<1> QED  BY <1>1, <1>2, <1>3

LEMMA CutHeaders ==
  ASSUME IInv, Headers, CutWrite
  PROVE  SignatureLeft'
<1> SUFFICES ASSUME NEW l \in Luns, prim'[l] = "bad_signature" PROVE sec'[l] = "ok"
  BY DEF SignatureLeft
<1> USE DEF IInv, DiskOK
<1>1. CASE pc \in {"prim_bad", "prim_ok"}
  <2>1. lun \in Luns /\ sec' = sec
    BY <1>1 DEF CutWrite, CallOK, Control
  <2>2. PICK x \in HeaderCut(prim[lun], StateTarget) : prim' = [prim EXCEPT ![lun] = x]
    BY <1>1 DEF CutWrite
  <2>3. prim[l] = "bad_signature" \/ (pc = "prim_bad" /\ l = lun)
    BY <1>1, <2>1, <2>2 DEF HeaderCut, StateTarget
  <2> QED  BY <2>1, <2>3 DEF Headers, SignatureLeft, HeadersAtStep
<1>2. CASE pc \notin {"prim_bad", "prim_ok"}
  <2>1. prim[l] = "bad_signature"
    BY <1>2 DEF CutWrite
  <2>2. sec[l] = "ok" /\ (pc \in {"sec_hdr", "sec_bad", "sec_ok"} => l # lun)
    BY <2>1 DEF Headers, SignatureLeft, HeadersAtStep
  <2>3. sec'[l] = sec[l]
    BY <2>2 DEF CutWrite
  <2> QED  BY <2>2, <2>3
<1> QED  BY <1>1, <1>2

LEMMA NextHeaders ==
  ASSUME IInv, Headers, [Next]_vars
  PROVE  Headers'
<1> USE DEF IInv, DiskOK
<1>1. CASE NoLuns \/ OpenFails \/ AlreadySet \/ ChainRefused
  <2>1. pc' \in {"idle", "open"}
    BY <1>1, EndsStep
  <2>2. SignatureLeft'
    BY <1>1 DEF NoLuns, OpenFails, AlreadySet, ChainRefused, gpts, Headers, SignatureLeft
  <2> QED  BY <2>1, <2>2, NoStep DEF Headers
<1>2. CASE Begin
  <2>1. lun \in Luns /\ prim' = prim /\ sec' = sec /\ stage' = stage /\ lun' = lun
        /\ pc' = FirstStep /\ stage \in Stages /\ stage = InternalStage(lun)
        /\ ~Unacceptable(lun)
    BY <1>2 DEF Begin, gpts, GoTo, CallOK, Control, RunsIn
  <2>2. prim[lun] \in HeaderStates /\ sec[lun] \in HeaderStates
    BY <2>1
  <2>3. /\ stage = UPDATE_MAIN => prim[lun] = "ok" /\ sec[lun] = "ok"
        /\ stage = UPDATE_BACKUP => prim[lun] = "bad_signature"
        /\ stage = UPDATE_FINALIZE => prim[lun] = "ok"
    BY <2>1, <2>2 DEF InternalStage, Unacceptable, HeaderStates, UPDATE_MAIN, UPDATE_BACKUP,
                      UPDATE_FINALIZE
  <2>4. HeadersAtStep'
    BY <2>1, <2>3 DEF HeadersAtStep, FirstStep, Stages, UPDATE_MAIN, UPDATE_BACKUP,
                      UPDATE_FINALIZE
  <2> QED  BY <2>1, <2>4 DEF Headers, SignatureLeft
<1>3. CASE SetXbl \/ XblNotFound
  <2>1. /\ prim' = prim /\ sec' = sec /\ stage' = stage /\ lun' = lun
        /\ pc = "xbl" /\ stage \in {UPDATE_MAIN, UPDATE_BACKUP}
        /\ pc' = IF stage = UPDATE_MAIN THEN "sec_hdr" ELSE "prim_ok"
    BY <1>3 DEF SetXbl, XblNotFound, gpts, GoTo, CallOK, Control, RunsIn
  <2> QED  BY <2>1 DEF Headers, SignatureLeft, HeadersAtStep
<1>4. CASE WriteSecHeader \/ WriteSecArray \/ WriteSecArrayShort
  <2>1. prim' = prim /\ sec' = sec /\ stage' = stage /\ lun' = lun
        /\ pc \in {"sec_hdr", "sec_arr"}
        /\ pc' \in {"sec_arr", IF stage = UPDATE_MAIN THEN "prim_bad" ELSE "sec_ok"}
    BY <1>4 DEF WriteSecHeader, WriteSecArray, WriteSecArrayShort, AfterChain, GoTo
  <2> QED  BY <2>1 DEF Headers, SignatureLeft, HeadersAtStep
<1>5. CASE SetPrimState
  <2>1. lun \in Luns /\ sec' = sec /\ prim' = [prim EXCEPT ![lun] = StateTarget]
    BY <1>5 DEF SetPrimState, CallOK, Control
  <2>2. SignatureLeft'
    BY <1>5, <2>1 DEF SetPrimState, StateTarget, Headers, SignatureLeft, HeadersAtStep
  <2>3. CASE pc = "prim_ok"
    <3>1. prim'[lun'] = "ok" /\ pc' = "sec_bad"
      BY <1>5, <2>1, <2>3 DEF SetPrimState, StateTarget, GoTo
    <3> QED  BY <2>2, <3>1 DEF Headers, HeadersAtStep
  <2>4. CASE pc = "prim_bad"
    <3>1. LunDone(TRUE)
      BY <1>5, <2>4 DEF SetPrimState
    <3> QED  BY <2>2, <2>4, <3>1, LeavesStep, NoStep DEF Headers
  <2> QED  BY <1>5, <2>3, <2>4 DEF SetPrimState
<1>6. CASE SetSecState
  <2>1. prim' = prim /\ prim[lun] = "ok" /\ sec' = [sec EXCEPT ![lun] = StateTarget]
        /\ LunDone(TRUE) /\ pc # "idle"
    BY <1>6 DEF SetSecState, Headers, HeadersAtStep
  <2>2. SignatureLeft'
    BY <2>1 DEF Headers, SignatureLeft
  <2> QED  BY <2>1, <2>2, LeavesStep, NoStep DEF Headers
<1>7. CASE StepFails
  BY <1>7, CutHeaders, LeavesStep, NoStep DEF StepFails, Headers
<1>8. CASE Crash
  BY <1>8, CutHeaders, NoStep DEF Crash, Headers
<1>9. CASE Updater
  <2>1. prim' = prim /\ sec' = sec /\ (pc' = "open" \/ pc' = "idle")
    BY <1>9 DEF Updater, PrepareBootUpdate, StartFlash, EndFlash, StageDone, Skip, gpts, call
  <2> QED  BY <2>1, NoStep DEF Headers, SignatureLeft
<1>10. CASE UNCHANGED vars
  BY <1>10 DEF vars, Headers, SignatureLeft, HeadersAtStep
<1> QED
  BY <1>1, <1>2, <1>3, <1>4, <1>5, <1>6, <1>7, <1>8, <1>9, <1>10 DEF Next, Steps

LEMMA InitHeaders ==
  ASSUME Init
  PROVE  Headers
  BY DEF Init, Headers, SignatureLeft, HeadersAtStep

\* The state that every stage refuses, both signatures spoilt, is not reached:
\* not with short writes, not with LUNs or XBL that are not found, not with any
\* number of failures and crashes.
THEOREM SignatureLeftHolds == Spec => []SignatureLeft
<1>1. Init => Headers
  BY InitHeaders
<1>2. IInv /\ Headers /\ [Next]_vars => Headers'
  BY NextHeaders
<1>3. Headers => SignatureLeft
  BY DEF Headers
<1> QED  BY <1>1, <1>2, <1>3, InductiveInvariant, PTL DEF Spec

-----------------------------------------------------------------------------
(* The tables.  A silently short array write is enough to lose both of     *)
(* them, so this part is about write() that stores what it says.           *)

\* What the step of pc may rely on about the arrays of LUN lun.
TablesAtStep ==
    /\ pc \in {"sec_arr", "prim_bad", "sec_ok", "sec_bad"} => primArrOk[lun]
    /\ pc = "sec_arr" => \A i \in On(lun) : secCrc[i] = ChainTarget
    /\ pc = "prim_bad" => \A i \in On(lun) : secCrc[i] = secArr[i]

\* The primary header is spoilt only over an array that it will fit again.
SpoiltOverGood == \A l \in Luns : prim[l] # "ok" => primArrOk[l]

Tables == SomeTableValid /\ SpoiltOverGood /\ TablesAtStep

\* A step leaves the LUNs alone that it is not working on.
OthersKept ==
    \A l \in Luns \ {lun} :
        /\ prim'[l] = prim[l] /\ sec'[l] = sec[l]
        /\ \A i \in On(l) : secCrc'[i] = secCrc[i] /\ secArr'[i] = secArr[i]

LEMMA NoTableStep ==
  ASSUME pc' \in {"idle", "open"}
  PROVE  TablesAtStep'
  BY DEF TablesAtStep

LEMMA KeptTables ==
  ASSUME Tables, OthersKept, primArrOk' = primArrOk, NEW k, k = lun,
         k \in Luns => /\ PrimValid(k)' \/ SecValid(k)'
                       /\ prim'[k] # "ok" => primArrOk[k]
  PROVE  SomeTableValid' /\ SpoiltOverGood'
<1>1. ASSUME NEW l \in Luns, l # k
      PROVE  PrimValid(l)' \/ SecValid(l)'
  <2>1. PrimValid(l) \/ SecValid(l)
    BY DEF Tables, SomeTableValid
  <2>2. PrimValid(l) => PrimValid(l)'
    BY <1>1 DEF OthersKept, PrimValid
  <2>3. SecValid(l) => SecValid(l)'
    BY <1>1 DEF OthersKept, SecValid, On
  <2> QED  BY <2>1, <2>2, <2>3
<1>2. SomeTableValid'
  BY <1>1 DEF SomeTableValid
<1>3. SpoiltOverGood'
  BY DEF Tables, SpoiltOverGood, OthersKept
<1> QED  BY <1>2, <1>3

\* Orders change on the LUN at work only.
LEMMA OrderedElsewhere ==
  ASSUME NEW order, NEW W \in SUBSET On(lun), NEW copy, NEW l \in Luns \ {lun}, NEW i \in On(l)
  PROVE  Ordered(order, W, copy)[i] = order[i]
  BY DEF Ordered, On

LEMMA CutElsewhere ==
  ASSUME IInv, SecArrayCut, NEW l \in Luns \ {lun}, NEW i \in On(l)
  PROVE  secArr'[i] = secArr[i]
<1>1. PICK new, half \in SUBSET On(lun) :
        secArr' = Ordered(Ordered(secArr, new, ChainTarget), half, "mixed")
  BY DEF SecArrayCut
<1> QED  BY <1>1, OrderedElsewhere

LEMMA CutTables ==
  ASSUME IInv, Headers, Tables, CutWrite
  PROVE  SomeTableValid' /\ SpoiltOverGood'
<1> USE DEF IInv, DiskOK
<1>1. primArrOk' = primArrOk
  BY DEF CutWrite
<1>2. ASSUME NEW l \in Luns \ {lun}, NEW i \in On(l)
      PROVE  secCrc'[i] = secCrc[i] /\ secArr'[i] = secArr[i]
  <2>1. secCrc'[i] = secCrc[i]
    <3>1. Ordered(secCrc, On(lun), ChainTarget)[i] = secCrc[i]
      BY OrderedElsewhere
    <3> QED  BY <3>1 DEF CutWrite
  <2>2. secArr'[i] = secArr[i]
    BY CutElsewhere DEF CutWrite
  <2> QED  BY <2>1, <2>2
<1>3. ASSUME NEW l \in Luns \ {lun}
      PROVE  prim'[l] = prim[l] /\ sec'[l] = sec[l]
  BY DEF CutWrite
<1>4. OthersKept
  BY <1>2, <1>3 DEF OthersKept
<1>5. PICK k : k = lun
  OBVIOUS
<1>6. ASSUME k \in Luns
      PROVE  (PrimValid(k)' \/ SecValid(k)') /\ (prim'[k] # "ok" => primArrOk[k])
  <2>1. (prim[k] # "ok" => primArrOk[k]) /\ (PrimValid(k) \/ SecValid(k))
    BY <1>6 DEF Tables, SpoiltOverGood, SomeTableValid
  <2>2. CASE pc \in {"sec_arr", "sec_ok", "sec_bad"} \/ (pc = "sec_hdr" /\ WillWriteChain)
    <3>1. prim[k] = "ok" /\ primArrOk[k] /\ prim'[k] = prim[k]
      BY <1>5, <2>2
         DEF CutWrite, Headers, HeadersAtStep, Tables, TablesAtStep, WillWriteChain
    <3> QED  BY <1>1, <3>1 DEF PrimValid
  <2>3. CASE pc \in {"prim_bad", "prim_ok"}
    <3>1. sec' = sec /\ secCrc' = secCrc /\ secArr' = secArr
      BY <2>3 DEF CutWrite
    <3>2. SecValid(k) /\ primArrOk[k]
      BY <1>5, <1>6, <2>1, <2>3
         DEF Headers, HeadersAtStep, Tables, TablesAtStep, SecValid, PrimValid
    <3> QED  BY <3>1, <3>2 DEF SecValid, On
  <2>4. CASE pc \notin {"sec_arr", "sec_ok", "sec_bad", "prim_bad", "prim_ok"}
             /\ ~(pc = "sec_hdr" /\ WillWriteChain)
    <3>1. prim' = prim /\ sec' = sec /\ secCrc' = secCrc /\ secArr' = secArr
      BY <2>4 DEF CutWrite
    <3> QED  BY <1>1, <2>1, <3>1 DEF PrimValid, SecValid, On
  <2> QED  BY <2>2, <2>3, <2>4
<1> QED  BY <1>1, <1>4, <1>5, <1>6, KeptTables

\* A step that changes no table.
LEMMA SameTables ==
  ASSUME Tables, UNCHANGED gpts
  PROVE  SomeTableValid' /\ SpoiltOverGood'
  BY DEF gpts, Tables, SomeTableValid, SpoiltOverGood, PrimValid, SecValid, On

LEMMA BeginTables ==
  ASSUME IInv, Headers, Headers', Tables, Begin \/ SetXbl \/ XblNotFound
  PROVE  Tables'
<1>1. SomeTableValid' /\ SpoiltOverGood'
  BY SameTables DEF Begin, SetXbl, XblNotFound
<1>2. pc' \notin {"sec_arr", "prim_bad", "sec_ok", "sec_bad"}
  BY DEF Begin, SetXbl, XblNotFound, GoTo, FirstStep
<1> QED  BY <1>1, <1>2 DEF Tables, TablesAtStep

LEMMA ChainTables ==
  ASSUME IInv, Headers, Tables, WriteSecHeader \/ WriteSecArray
  PROVE  Tables'
<1> USE DEF IInv, DiskOK
<1>1. PICK k : k = lun
  OBVIOUS
<1>2. /\ k \in Luns /\ prim[k] = "ok" /\ primArrOk[k] /\ stage' = stage /\ lun' = lun
      /\ prim' = prim /\ sec' = sec /\ primArrOk' = primArrOk
  BY <1>1 DEF WriteSecHeader, WriteSecArray, WillWriteChain, GoTo, AfterChain, CallOK, Control,
              Headers, HeadersAtStep, Tables, TablesAtStep
<1>3. ASSUME NEW l \in Luns \ {lun}, NEW i \in On(l)
      PROVE  secCrc'[i] = secCrc[i] /\ secArr'[i] = secArr[i]
  <2>1. Ordered(secCrc, On(lun), ChainTarget)[i] = secCrc[i]
    BY OrderedElsewhere
  <2>2. Ordered(secArr, On(lun), ChainTarget)[i] = secArr[i]
    BY OrderedElsewhere
  <2> QED  BY <2>1, <2>2 DEF WriteSecHeader, WriteSecArray
<1>4. OthersKept
  BY <1>2, <1>3 DEF OthersKept
<1>5. SomeTableValid' /\ SpoiltOverGood'
  <2>1. PrimValid(k)'
    BY <1>2 DEF PrimValid
  <2> QED  BY <1>1, <1>2, <1>4, <2>1, KeptTables DEF PrimValid
<1>6. \A order : \A i \in On(k) : Ordered(order, On(k), ChainTarget)[i] = ChainTarget
  BY DEF Ordered, On
<1>7. CASE WriteSecHeader
  <2>1. pc' = "sec_arr" /\ ChainTarget' = ChainTarget /\ k = lun'
        /\ secCrc' = Ordered(secCrc, On(k), ChainTarget)
    BY <1>1, <1>2, <1>7 DEF WriteSecHeader, GoTo, ChainTarget
  <2>2. \A i \in On(k) : secCrc'[i] = ChainTarget'
    BY <1>6, <2>1
  <2> QED  BY <1>2, <1>5, <2>1, <2>2 DEF Tables, TablesAtStep, On
<1>8. CASE WriteSecArray
  <2>1. pc' \in {"prim_bad", "sec_ok"} /\ k = lun' /\ secCrc' = secCrc
        /\ secArr' = Ordered(secArr, On(k), ChainTarget)
    BY <1>1, <1>2, <1>8 DEF WriteSecArray, AfterChain, GoTo
  <2>2. \A i \in On(k) : secCrc'[i] = secArr'[i]
    BY <1>1, <1>6, <1>8, <2>1 DEF WriteSecArray, Tables, TablesAtStep
  <2> QED  BY <1>2, <1>5, <2>1, <2>2 DEF Tables, TablesAtStep, On
<1> QED  BY <1>7, <1>8

LEMMA StateTables ==
  ASSUME IInv, Headers, Tables, SetPrimState \/ SetSecState
  PROVE  Tables'
<1> USE DEF IInv, DiskOK
<1>1. PICK k : k = lun
  OBVIOUS
<1>2. /\ k \in Luns /\ primArrOk' = primArrOk /\ secCrc' = secCrc /\ secArr' = secArr
      /\ primArrOk[k] \in BOOLEAN
  BY <1>1 DEF SetPrimState, SetSecState, CallOK, Control
<1>3. OthersKept
  BY <1>1, <1>2 DEF SetPrimState, SetSecState, OthersKept
<1>4. primArrOk[k]
  BY <1>1, <1>2
     DEF SetPrimState, SetSecState, Headers, HeadersAtStep, Tables, SpoiltOverGood, TablesAtStep
<1>5. PrimValid(k)' \/ SecValid(k)'
  <2>1. CASE SetPrimState /\ pc = "prim_bad"
    <3>1. sec' = sec /\ sec[k] = "ok" /\ \A i \in On(k) : secCrc[i] = secArr[i]
      BY <1>1, <2>1 DEF SetPrimState, Headers, HeadersAtStep, Tables, TablesAtStep
    <3> QED  BY <1>2, <3>1 DEF SecValid, On
  <2>2. CASE SetPrimState /\ pc = "prim_ok"
    <3>1. prim'[k] = "ok"
      BY <1>1, <1>2, <2>2 DEF SetPrimState, StateTarget
    <3> QED  BY <1>2, <1>4, <3>1 DEF PrimValid
  <2>3. CASE SetSecState
    <3>1. prim' = prim /\ prim[k] = "ok"
      BY <1>1, <2>3 DEF SetSecState, Headers, HeadersAtStep
    <3> QED  BY <1>2, <1>4, <3>1 DEF PrimValid
  <2> QED  BY <2>1, <2>2, <2>3 DEF SetPrimState
<1>6. SomeTableValid' /\ SpoiltOverGood'
  BY <1>1, <1>2, <1>3, <1>4, <1>5, KeptTables
<1>7. TablesAtStep'
  <2>1. CASE GoTo("sec_bad") /\ pc = "prim_ok"
    BY <1>1, <1>2, <1>4, <2>1 DEF GoTo, TablesAtStep
  <2>2. CASE LunDone(TRUE)
    <3>1. pc # "idle"
      BY DEF SetPrimState, SetSecState
    <3> QED  BY <2>2, <3>1, LeavesStep, NoTableStep
  <2> QED  BY <2>1, <2>2 DEF SetPrimState, SetSecState
<1> QED  BY <1>6, <1>7 DEF Tables

LEMMA NextTables ==
  ASSUME ~ShortWrites, IInv, Headers, Headers', Tables, [Next]_vars
  PROVE  Tables'
<1>1. CASE NoLuns \/ OpenFails \/ AlreadySet \/ ChainRefused
  <2>1. SomeTableValid' /\ SpoiltOverGood'
    BY <1>1, SameTables DEF NoLuns, OpenFails, AlreadySet, ChainRefused
  <2> QED  BY <1>1, <2>1, EndsStep, NoTableStep DEF Tables
<1>2. CASE Begin \/ SetXbl \/ XblNotFound
  BY <1>2, BeginTables
<1>3. CASE WriteSecHeader \/ WriteSecArray
  BY <1>3, ChainTables
<1>4. CASE WriteSecArrayShort
  BY <1>4 DEF WriteSecArrayShort
<1>5. CASE SetPrimState \/ SetSecState
  BY <1>5, StateTables
<1>6. CASE StepFails \/ Crash
  <2>1. SomeTableValid' /\ SpoiltOverGood'
    BY <1>6, CutTables DEF StepFails, Crash
  <2>2. pc' \in {"idle", "open"}
    BY <1>6, LeavesStep DEF StepFails, Crash
  <2> QED  BY <2>1, <2>2, NoTableStep DEF Tables
<1>7. CASE Updater
  <2>1. UNCHANGED gpts /\ pc' \in {"idle", "open"}
    BY <1>7 DEF Updater, PrepareBootUpdate, StartFlash, EndFlash, StageDone, Skip, call
  <2> QED  BY <2>1, SameTables, NoTableStep DEF Tables
<1>8. CASE UNCHANGED vars
  <2>1. UNCHANGED gpts
    BY <1>8 DEF vars, gpts
  <2>2. SomeTableValid' /\ SpoiltOverGood'
    BY <2>1, SameTables
  <2>3. TablesAtStep'
    BY <1>8 DEF vars, Tables, TablesAtStep, ChainTarget, On
  <2> QED  BY <2>2, <2>3 DEF Tables
<1> QED  BY <1>1, <1>2, <1>3, <1>4, <1>5, <1>6, <1>7, <1>8 DEF Next, Steps

LEMMA InitTables ==
  ASSUME Init
  PROVE  Tables
  BY DEF Init, Tables, SomeTableValid, SpoiltOverGood, TablesAtStep, PrimValid, SecValid, On

\* Unless write() stops early and reports success, every LUN has a table that
\* the firmware accepts in every state of every stage, whatever fails and
\* wherever the machine goes down.
THEOREM SomeTableValidHolds ==
  ASSUME ~ShortWrites
  PROVE  Spec => []SomeTableValid
<1>1. Init => Headers /\ Tables
  BY InitHeaders, InitTables
<1>2. IInv /\ Headers /\ [Next]_vars => Headers'
  BY NextHeaders
<1>3. IInv /\ Headers /\ Headers' /\ Tables /\ [Next]_vars => Tables'
  BY NextTables
<1>4. Tables => SomeTableValid
  BY DEF Tables
<1> QED  BY <1>1, <1>2, <1>3, <1>4, InductiveInvariant, PTL DEF Spec
=============================================================================
