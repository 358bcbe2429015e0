------------------------ MODULE FailsafeUpdateChain ------------------------
(***************************************************************************)
(* What the updater of FailsafeUpdate can rely on: the loop over the LUNs, *)
(* the copies the device boots from, and the refinement of BootChain, for  *)
(* any number of LUNs and images and every number of faults.               *)
(***************************************************************************)
EXTENDS FailsafeUpdateProofs, FiniteSetTheorems

-----------------------------------------------------------------------------
(* Which steps move which part of the disk. *)

\* The steps that write nothing.
LEMMA QuietSteps ==
  ASSUME NoLuns \/ OpenFails \/ AlreadySet \/ ChainRefused \/ Begin \/ Updater \/ UNCHANGED vars
  PROVE  UNCHANGED <<gpts, bootLun>>
  BY DEF NoLuns, OpenFails, AlreadySet, ChainRefused, Begin, Updater, PrepareBootUpdate,
         StartFlash, EndFlash, StageDone, Skip, gpts, vars

LEMMA CutMoves ==
  ASSUME IInv, CutWrite
  PROVE  /\ primArrOk' = primArrOk
         /\ \A l \in Luns : prim'[l] # prim[l] => l = lun /\ pc \in {"prim_bad", "prim_ok"}
         /\ \A l \in Luns : sec'[l] # sec[l] =>
              /\ l = lun /\ pc \in {"sec_hdr", "sec_bad", "sec_ok"}
              /\ pc # "sec_ok" => sec'[l] # "ok"
         /\ \A i \in Images : secCrc'[i] # secCrc[i] => LunOf[i] = lun /\ pc = "sec_hdr"
         /\ \A i \in Images : secArr'[i] # secArr[i] => LunOf[i] = lun /\ pc = "sec_arr"
         /\ bootLun' # bootLun => pc = "xbl" /\ bootLun' = XblTarget
<1> USE DEF IInv, DiskOK
<1>1. \A l \in Luns : prim'[l] # prim[l] => l = lun /\ pc \in {"prim_bad", "prim_ok"}
  BY DEF CutWrite
<1>2. ASSUME NEW l \in Luns, sec'[l] # sec[l]
      PROVE  l = lun /\ pc \in {"sec_hdr", "sec_bad", "sec_ok"} /\ (pc # "sec_ok" => sec'[l] # "ok")
  <2>1. CASE pc = "sec_hdr" /\ WillWriteChain
    <3>1. PICK x \in HeaderCut(sec[lun], sec[lun]) : sec' = [sec EXCEPT ![lun] = x]
      BY <2>1 DEF CutWrite
    <3> QED  BY <1>2, <2>1, <3>1 DEF HeaderCut
  <2>2. CASE pc = "sec_bad"
    <3>1. PICK x \in HeaderCut(sec[lun], StateTarget) : sec' = [sec EXCEPT ![lun] = x]
      BY <2>2 DEF CutWrite
    <3> QED  BY <1>2, <2>2, <3>1 DEF HeaderCut, StateTarget
  <2> QED  BY <1>2, <2>1, <2>2 DEF CutWrite
<1>3. ASSUME NEW i \in Images, secArr'[i] # secArr[i]
      PROVE  LunOf[i] = lun /\ pc = "sec_arr"
  <2>1. pc = "sec_arr" /\ SecArrayCut
    BY <1>3 DEF CutWrite
  <2>2. LunOf[i] \in Luns /\ i \in On(LunOf[i])
    BY UpdateAssumption DEF On
  <2> QED  BY <1>3, <2>1, <2>2, CutElsewhere
<1>4. ASSUME NEW i \in Images, secCrc'[i] # secCrc[i]
      PROVE  LunOf[i] = lun /\ pc = "sec_hdr"
  <2>1. pc = "sec_hdr" /\ secCrc' = Ordered(secCrc, On(lun), ChainTarget)
    BY <1>4 DEF CutWrite
  <2> QED  BY <1>4, <2>1 DEF Ordered, On
<1> QED  BY <1>1, <1>2, <1>3, <1>4 DEF CutWrite

\* A header moves only in the steps of gpt_set_state (or is torn), an array only in
\* gpt2_set_boot_chain, the boot LUN only in its own step, and always on the LUN at
\* work.
LEMMA Moves ==
  ASSUME IInv, [Next]_vars
  PROVE  /\ primArrOk' = primArrOk
         /\ \A l \in Luns : prim'[l] # prim[l] => l = lun /\ pc \in {"prim_bad", "prim_ok"}
         /\ \A l \in Luns : sec'[l] # sec[l] =>
              /\ l = lun /\ pc \in {"sec_hdr", "sec_bad", "sec_ok"}
              /\ pc # "sec_ok" => sec'[l] # "ok"
         /\ \A i \in Images : secCrc'[i] # secCrc[i] => LunOf[i] = lun /\ pc = "sec_hdr"
         /\ \A i \in Images : secArr'[i] # secArr[i] => LunOf[i] = lun /\ pc = "sec_arr"
         /\ bootLun' # bootLun => pc = "xbl" /\ bootLun' = XblTarget
<1> USE DEF IInv, DiskOK
<1>1. CASE NoLuns \/ OpenFails \/ AlreadySet \/ ChainRefused \/ Begin \/ Updater \/ UNCHANGED vars
  BY <1>1, QuietSteps DEF gpts
<1>2. CASE SetXbl \/ XblNotFound
  BY <1>2 DEF SetXbl, XblNotFound, gpts
<1>7. CASE WriteSecHeader
  <2>1. ASSUME NEW i \in Images, secCrc'[i] # secCrc[i]
        PROVE  LunOf[i] = lun
    BY <1>7, <2>1 DEF WriteSecHeader, Ordered, On
  <2> QED  BY <1>7, <2>1 DEF WriteSecHeader
<1>3. CASE WriteSecArray
  <2>1. ASSUME NEW i \in Images, secArr'[i] # secArr[i]
        PROVE  LunOf[i] = lun
    BY <1>3, <2>1 DEF WriteSecArray, Ordered, On, Orders
  <2> QED  BY <1>3, <2>1 DEF WriteSecArray
<1>4. CASE WriteSecArrayShort
  <2>1. ASSUME NEW i \in Images, secArr'[i] # secArr[i]
        PROVE  LunOf[i] = lun
    <3>1. LunOf[i] \in Luns /\ i \in On(LunOf[i])
      BY UpdateAssumption DEF On
    <3> QED  BY <1>4, <2>1, <3>1, CutElsewhere DEF WriteSecArrayShort
  <2> QED  BY <1>4, <2>1 DEF WriteSecArrayShort
<1>5. CASE SetPrimState \/ SetSecState
  BY <1>5 DEF SetPrimState, SetSecState, StateTarget
<1>6. CASE StepFails \/ Crash
  BY <1>6, CutMoves DEF StepFails, Crash
<1> QED  BY <1>1, <1>2, <1>3, <1>4, <1>5, <1>6, <1>7 DEF Next, Steps

-----------------------------------------------------------------------------
(* LUNs whose header was torn. *)

Stuck == {l \in Luns : Unacceptable(l)}

\* A stage works on a LUN only after it accepted both headers.
AtWork == pc \notin {"idle", "open"} => ~Unacceptable(lun)

\* gpt_set_state on an accepted LUN leaves one that the next call accepts.
LEMMA StateKeepsAccepted ==
  ASSUME IInv, Headers, AtWork, SetPrimState \/ SetSecState, NEW k, k = lun
  PROVE  ~Unacceptable(k)'
<1> USE DEF IInv, DiskOK
<1>1. k \in Luns /\ ~Unacceptable(k) /\ StateTarget \in {"ok", "bad_signature"}
  BY TargetTypes DEF SetPrimState, SetSecState, CallOK, Control, AtWork
<1>2. CASE SetPrimState
  <2>1. sec' = sec /\ prim'[k] = StateTarget
    BY <1>1, <1>2 DEF SetPrimState
  <2>2. pc = "prim_ok" => StateTarget = "ok"
    BY DEF StateTarget
  <2>3. pc = "prim_bad" => sec[k] = "ok"
    BY DEF Headers, HeadersAtStep
  <2> QED  BY <1>1, <1>2, <2>1, <2>2, <2>3 DEF SetPrimState, Unacceptable
<1>3. CASE SetSecState
  <2>1. prim' = prim /\ sec'[k] = StateTarget /\ prim[k] = "ok"
    BY <1>1, <1>3 DEF SetSecState, Headers, HeadersAtStep
  <2> QED  BY <1>1, <2>1 DEF Unacceptable
<1> QED  BY <1>2, <1>3

LEMMA NextAtWork ==
  ASSUME IInv, Headers, AtWork, [Next]_vars
  PROVE  AtWork'
<1>1. CASE Begin
  BY <1>1 DEF Begin, GoTo, gpts, AtWork, Unacceptable
<1>2. CASE SetXbl \/ XblNotFound \/ WriteSecHeader \/ WriteSecArray \/ WriteSecArrayShort
  <2>1. prim' = prim /\ sec' = sec /\ lun' = lun /\ pc \notin {"idle", "open"}
    BY <1>2 DEF SetXbl, XblNotFound, WriteSecHeader, WriteSecArray, WriteSecArrayShort,
                AfterChain, GoTo, gpts
  <2> QED  BY <2>1 DEF AtWork, Unacceptable
<1>3. CASE SetPrimState \/ SetSecState
  <2>1. CASE pc = "prim_ok" /\ SetPrimState
    <3>1. lun' = lun
      BY <2>1 DEF SetPrimState, GoTo
    <3> QED  BY <1>3, <3>1, StateKeepsAccepted DEF AtWork
  <2>2. CASE ~(pc = "prim_ok" /\ SetPrimState)
    <3>1. pc' \in {"idle", "open"}
      BY <1>3, <2>2, LeavesStep DEF SetPrimState, SetSecState
    <3> QED  BY <3>1 DEF AtWork
  <2> QED  BY <2>1, <2>2
<1>4. CASE NoLuns \/ OpenFails \/ AlreadySet \/ ChainRefused
  BY <1>4, EndsStep DEF AtWork
<1>5. CASE StepFails \/ Crash
  BY <1>5, LeavesStep DEF StepFails, Crash, AtWork
<1>6. CASE Updater
  BY <1>6 DEF Updater, PrepareBootUpdate, StartFlash, EndFlash, StageDone, Skip, call, AtWork
<1>7. CASE UNCHANGED vars
  BY <1>7 DEF vars, AtWork, Unacceptable
<1> QED  BY <1>1, <1>2, <1>3, <1>4, <1>5, <1>6, <1>7 DEF Next, Steps

LEMMA AtWorkInvariant == Spec => [](IInv /\ Headers /\ AtWork)
<1>1. Init => Headers /\ AtWork
  BY InitHeaders DEF Init, AtWork
<1>2. IInv /\ Headers /\ AtWork /\ [Next]_vars => (Headers /\ AtWork)'
  BY NextHeaders, NextAtWork
<1> QED  BY <1>1, <1>2, InductiveInvariant, PTL DEF Spec

\* A LUN that every stage refuses is written by none, for any number of LUNs, any
\* updater and whatever fails: its state lasts until something else repairs it.
THEOREM StuckForeverHolds == Spec => StuckForever
<1> DEFINE Step == \A l \in Luns : Unacceptable(l) => prim'[l] = prim[l] /\ sec'[l] = sec[l]
<1>1. IInv /\ AtWork /\ [Next]_vars => [Step]_vars
  <2> SUFFICES ASSUME IInv, AtWork, [Next]_vars, NEW l \in Luns, Unacceptable(l)
               PROVE  prim'[l] = prim[l] /\ sec'[l] = sec[l]
    OBVIOUS
  <2>1. l = lun => pc \in {"idle", "open"}
    BY DEF AtWork
  <2> QED  BY <2>1, Moves
<1> QED  BY <1>1, AtWorkInvariant, PTL DEF Spec, StuckForever

\* The finite-set facts of the count: a set of LUNs that gains one LUN at most.
LEMMA OneMoreLun ==
  ASSUME NEW S \in SUBSET Luns, NEW T \in SUBSET Luns, NEW l, T \subseteq S \cup {l}
  PROVE  /\ Cardinality(S) \in Nat /\ Cardinality(T) \in Nat
         /\ Cardinality(T) =< Cardinality(S) + 1
         /\ T \subseteq S => Cardinality(T) =< Cardinality(S)
<1>1. IsFiniteSet(Luns)
  BY UpdateAssumption, FS_Interval DEF Luns
<1>2. IsFiniteSet(S) /\ IsFiniteSet(T)
  BY <1>1, FS_Subset
<1>3. /\ IsFiniteSet(S \cup {l})
      /\ Cardinality(S \cup {l}) = IF l \in S THEN Cardinality(S) ELSE Cardinality(S) + 1
  BY <1>2, FS_AddElement
<1>4. Cardinality(T) =< Cardinality(S \cup {l})
  BY <1>3, FS_Subset
<1>5. T \subseteq S => Cardinality(T) =< Cardinality(S)
  BY <1>2, FS_Subset
<1>6. Cardinality(S) \in Nat /\ Cardinality(T) \in Nat /\ Cardinality(S \cup {l}) \in Nat
  BY <1>2, <1>3, FS_CardinalityType
<1> QED  BY <1>3, <1>4, <1>5, <1>6

\* A stage that nothing disturbs makes no LUN unacceptable, and a fault only the one
\* at work.
LEMMA NextStuck ==
  ASSUME IInv, Headers, AtWork, [Next]_vars
  PROVE  \/ Stuck' \subseteq Stuck /\ faults' \in Nat /\ faults' >= faults
         \/ Stuck' \subseteq Stuck \cup {lun} /\ faults' = faults + 1
<1>1. faults \in Nat
  BY UpdateAssumption DEF IInv
<1>2. Stuck' \subseteq Stuck \cup {lun}
  <2>1. \A l \in Luns \ {lun} : prim'[l] = prim[l] /\ sec'[l] = sec[l]
    BY Moves
  <2> QED  BY <2>1 DEF Stuck, Unacceptable
<1>3. CASE SetPrimState \/ SetSecState
  <2>1. PICK k : k = lun
    OBVIOUS
  <2>2. ~Unacceptable(k)'
    BY <1>3, <2>1, StateKeepsAccepted
  <2>3. Stuck' \subseteq Stuck
    BY <1>2, <2>1, <2>2 DEF Stuck
  <2>4. faults' = faults
    BY <1>3 DEF SetPrimState, SetSecState
  <2> QED  BY <1>1, <2>3, <2>4
<1>4. CASE StepFails \/ Crash
  <2>1. faults' = faults + 1
    BY <1>4 DEF StepFails, Crash, Fault
  <2> QED  BY <1>2, <2>1
<1>5. CASE ~SetPrimState /\ ~SetSecState /\ ~StepFails /\ ~Crash
  <2>1. prim' = prim /\ sec' = sec
    BY <1>5 DEF Next, Steps, NoLuns, OpenFails, AlreadySet, Begin, SetXbl, XblNotFound,
       ChainRefused, WriteSecHeader, WriteSecArray, WriteSecArrayShort, Updater,
       PrepareBootUpdate, StartFlash, EndFlash, StageDone, Skip, gpts, vars
  <2>2. faults' = faults \/ \E b : Fault(b)
    BY <1>5 DEF Next, Steps, NoLuns, OpenFails, AlreadySet, Begin, SetXbl, XblNotFound,
       ChainRefused, WriteSecHeader, WriteSecArray, WriteSecArrayShort, Updater,
       PrepareBootUpdate, StartFlash, EndFlash, StageDone, Skip, vars
  <2>3. faults' = faults \/ faults' = faults + 1
    BY <2>2 DEF Fault
  <2>4. Stuck' = Stuck
    BY <2>1 DEF Stuck, Unacceptable
  <2> QED  BY <1>1, <2>3, <2>4
<1> QED  BY <1>3, <1>4, <1>5

\* Each fault costs one LUN at most: the stages go on with the other ones, and no
\* order of stages, retries and restarts makes a LUN unacceptable by itself.
THEOREM StuckPerFaultHolds == Spec => []StuckPerFault
<1>1. Init => StuckPerFault
  <2> SUFFICES ASSUME Init PROVE Cardinality(Stuck) =< faults
    BY DEF Stuck, StuckPerFault
  <2>1. Stuck = {}
    BY DEF Init, Stuck, Unacceptable
  <2> QED  BY <2>1, FS_EmptySet DEF Init
<1>2. IInv /\ Headers /\ AtWork /\ StuckPerFault /\ [Next]_vars => StuckPerFault'
  <2> SUFFICES ASSUME IInv, Headers, AtWork, StuckPerFault, [Next]_vars
               PROVE  Cardinality(Stuck') =< faults'
    BY DEF Stuck, StuckPerFault
  <2>1. faults \in Nat /\ Cardinality(Stuck) =< faults
    BY UpdateAssumption DEF IInv, StuckPerFault, Stuck
  <2>2. Stuck \in SUBSET Luns /\ Stuck' \in SUBSET Luns
    BY DEF Stuck
  <2>3. CASE Stuck' \subseteq Stuck /\ faults' \in Nat /\ faults' >= faults
    <3>1. /\ Cardinality(Stuck) \in Nat /\ Cardinality(Stuck') \in Nat
          /\ Cardinality(Stuck') =< Cardinality(Stuck)
      BY <2>2, <2>3, OneMoreLun
    <3> QED  BY <2>1, <2>3, <3>1
  <2>4. CASE Stuck' \subseteq Stuck \cup {lun} /\ faults' = faults + 1
    <3>1. /\ Cardinality(Stuck) \in Nat /\ Cardinality(Stuck') \in Nat
          /\ Cardinality(Stuck') =< Cardinality(Stuck) + 1
      BY <2>2, <2>4, OneMoreLun
    <3> QED  BY <2>1, <2>4, <3>1
  <2> QED  BY <2>3, <2>4, NextStuck
<1> QED  BY <1>1, <1>2, AtWorkInvariant, PTL DEF Spec

-----------------------------------------------------------------------------
(* The arrays. *)

\* The array that the secondary header was computed over, whatever became of the
\* array itself: bak first under a primary header that is spoilt, and the target of
\* the running stage once the header was written.
CrcOrder ==
    /\ \A i \in Images : prim[LunOf[i]] # "ok" => secCrc[i] = "bak"
    /\ pc \in {"sec_arr", "prim_bad", "sec_ok"} => \A i \in On(lun) : secCrc[i] = ChainTarget
    /\ \A l \in Luns : prim[l] # "ok" => primArrOk[l]
    /\ pc \in {"sec_arr", "prim_bad", "sec_ok", "sec_bad"} => primArrOk[lun]

LEMMA InitCrc ==
  ASSUME Init
  PROVE  CrcOrder
  BY UpdateAssumption DEF Init, CrcOrder

LEMMA NextCrc ==
  ASSUME IInv, Headers, CrcOrder, [Next]_vars
  PROVE  CrcOrder'
<1> USE DEF IInv, DiskOK
<1>1. \A i \in Images : LunOf[i] \in Luns
  BY UpdateAssumption
<1>2. ASSUME NEW i \in Images, prim'[LunOf[i]] # "ok"
      PROVE  secCrc'[i] = "bak"
  <2>1. CASE prim'[LunOf[i]] # prim[LunOf[i]]
    <3>1. LunOf[i] = lun /\ pc \in {"prim_bad", "prim_ok"} /\ secCrc'[i] = secCrc[i]
      BY <1>1, <2>1, Moves
    <3>2. pc = "prim_ok" => prim[lun] # "ok"
      BY DEF Headers, HeadersAtStep
    <3>3. pc = "prim_bad" => stage = UPDATE_MAIN
      BY DEF CallOK, Control, RunsIn
    <3> QED  BY <3>1, <3>2, <3>3 DEF CrcOrder, On, ChainTarget
  <2>2. CASE prim'[LunOf[i]] = prim[LunOf[i]]
    <3>1. secCrc[i] = "bak"
      BY <1>2, <2>2 DEF CrcOrder
    <3>2. secCrc'[i] = secCrc[i]
      BY <1>1, <1>2, <2>2, Moves DEF Headers, HeadersAtStep
    <3> QED  BY <3>1, <3>2
  <2> QED  BY <2>1, <2>2
<1>3. ASSUME NEW l \in Luns, prim'[l] # "ok"
      PROVE  primArrOk'[l]
  <2>1. primArrOk'[l] = primArrOk[l]
    BY Moves
  <2>2. CASE prim'[l] = prim[l]
    BY <1>3, <2>1, <2>2 DEF CrcOrder
  <2>3. CASE prim'[l] # prim[l]
    <3>1. l = lun /\ pc \in {"prim_bad", "prim_ok"}
      BY <2>3, Moves
    <3> QED  BY <2>1, <3>1 DEF CrcOrder, Headers, HeadersAtStep
  <2> QED  BY <2>2, <2>3
<1>4. ASSUME pc' \in {"sec_arr", "prim_bad", "sec_ok", "sec_bad"}
      PROVE  /\ primArrOk'[lun']
             /\ pc' # "sec_bad" => \A i \in On(lun') : secCrc'[i] = ChainTarget'
  <2>1. CASE WriteSecHeader
    <3>1. /\ lun' = lun /\ stage' = stage /\ primArrOk' = primArrOk /\ primArrOk[lun]
          /\ secCrc' = Ordered(secCrc, On(lun), ChainTarget)
      BY <2>1 DEF WriteSecHeader, GoTo, WillWriteChain
    <3>2. ChainTarget' = ChainTarget
      BY <3>1 DEF ChainTarget
    <3> QED  BY <3>1, <3>2 DEF Ordered, On
  <2>2. CASE WriteSecArray \/ WriteSecArrayShort
    <3>1. /\ lun' = lun /\ stage' = stage /\ primArrOk' = primArrOk /\ secCrc' = secCrc
          /\ pc = "sec_arr"
      BY <2>2 DEF WriteSecArray, WriteSecArrayShort, AfterChain, GoTo
    <3>2. ChainTarget' = ChainTarget
      BY <3>1 DEF ChainTarget
    <3> QED  BY <3>1, <3>2 DEF CrcOrder
  <2>3. CASE SetPrimState
    <3>1. CASE pc = "prim_ok"
      <4>1. lun' = lun /\ primArrOk' = primArrOk /\ pc' = "sec_bad" /\ lun \in Luns
        BY <2>3, <3>1 DEF SetPrimState, GoTo, CallOK, Control
      <4>2. prim[lun] # "ok"
        BY <3>1 DEF Headers, HeadersAtStep
      <4> QED  BY <4>1, <4>2 DEF CrcOrder
    <3>2. CASE pc # "prim_ok"
      BY <1>4, <2>3, <3>2, LeavesStep DEF SetPrimState
    <3> QED  BY <3>1, <3>2
  <2>4. CASE UNCHANGED vars
    BY <1>4, <2>4 DEF vars, CrcOrder, ChainTarget
  <2>5. CASE ~WriteSecHeader /\ ~WriteSecArray /\ ~WriteSecArrayShort /\ ~SetPrimState /\ Next
    <3>1. pc' \notin {"sec_arr", "prim_bad", "sec_ok", "sec_bad"}
      <4>1. CASE NoLuns \/ OpenFails \/ AlreadySet \/ ChainRefused
        BY <4>1, EndsStep
      <4>2. CASE Begin \/ SetXbl \/ XblNotFound
        BY <4>2 DEF Begin, FirstStep, SetXbl, XblNotFound, GoTo
      <4>3. CASE SetSecState \/ StepFails \/ Crash
        BY <4>3, LeavesStep DEF SetSecState, StepFails, Crash
      <4>4. CASE Updater
        BY <4>4 DEF Updater, PrepareBootUpdate, StartFlash, EndFlash, StageDone, Skip, call,
                    IInv, CallOK, Control
      <4> QED  BY <2>5, <4>1, <4>2, <4>3, <4>4 DEF Next, Steps
    <3> QED  BY <1>4, <3>1
  <2> QED  BY <2>1, <2>2, <2>3, <2>4, <2>5
<1> QED  BY <1>2, <1>3, <1>4 DEF CrcOrder

\* Which copies the secondary array puts first: bak under a primary header that is
\* spoilt, main where no stage ever writes, and the target of the running stage
\* after the array was written.
ChainOrder ==
    /\ \A i \in Images : prim[LunOf[i]] # "ok" => secArr[i] = "bak"
    /\ \A i \in Images : ~primArrOk[LunOf[i]] => secArr[i] = "main"
    /\ pc \in {"prim_bad", "sec_ok"} =>
         \A i \in On(lun) : secCrc[i] = ChainTarget /\ secArr[i] = ChainTarget

LEMMA InitOrder ==
  ASSUME Init
  PROVE  ChainOrder
  BY UpdateAssumption DEF Init, ChainOrder

\* What the two headers and the two arrays say on the LUN at work stays so in a
\* step that goes on.
LEMMA NextOrder ==
  ASSUME ~ShortWrites, IInv, Headers, Tables, ChainOrder, [Next]_vars
  PROVE  ChainOrder'
<1> USE DEF IInv, DiskOK
<1>1. \A i \in Images : LunOf[i] \in Luns
  BY UpdateAssumption
<1>2. ASSUME NEW i \in Images, prim'[LunOf[i]] # "ok"
      PROVE  secArr'[i] = "bak"
  <2>1. CASE prim'[LunOf[i]] # prim[LunOf[i]]
    <3>1. LunOf[i] = lun /\ pc \in {"prim_bad", "prim_ok"} /\ secArr'[i] = secArr[i]
      BY <1>1, <2>1, Moves
    <3>2. pc = "prim_ok" => prim[lun] # "ok"
      BY DEF Headers, HeadersAtStep
    <3>3. pc = "prim_bad" => stage = UPDATE_MAIN
      BY DEF CallOK, Control, RunsIn
    <3> QED  BY <3>1, <3>2, <3>3 DEF ChainOrder, On, ChainTarget
  <2>2. CASE prim'[LunOf[i]] = prim[LunOf[i]]
    <3>1. secArr[i] = "bak"
      BY <1>2, <2>2 DEF ChainOrder
    <3>2. secArr'[i] = secArr[i]
      BY <1>1, <1>2, <2>2, Moves DEF Headers, HeadersAtStep
    <3> QED  BY <3>1, <3>2
  <2> QED  BY <2>1, <2>2
<1>3. ASSUME NEW i \in Images, ~primArrOk'[LunOf[i]]
      PROVE  secArr'[i] = "main"
  <2>1. ~primArrOk[LunOf[i]] /\ secArr[i] = "main"
    BY <1>3, Moves DEF ChainOrder
  <2>2. secArr'[i] = secArr[i]
    BY <2>1, Moves DEF Tables, TablesAtStep
  <2> QED  BY <2>1, <2>2
<1>4. ASSUME pc' \in {"prim_bad", "sec_ok"}
      PROVE  \A i \in On(lun') : secCrc'[i] = ChainTarget' /\ secArr'[i] = ChainTarget'
  <2>1. CASE WriteSecArray
    <3>1. /\ lun' = lun /\ stage' = stage /\ secCrc' = secCrc
          /\ secArr' = Ordered(secArr, On(lun), ChainTarget)
          /\ \A i \in On(lun) : secCrc[i] = ChainTarget
      BY <2>1 DEF WriteSecArray, AfterChain, GoTo, Tables, TablesAtStep
    <3>2. ChainTarget' = ChainTarget
      BY <3>1 DEF ChainTarget
    <3> QED  BY <3>1, <3>2 DEF Ordered, On
  <2>2. CASE UNCHANGED vars
    BY <1>4, <2>2 DEF vars, ChainOrder, ChainTarget
  <2>3. CASE ~WriteSecArray /\ Next
    <3>1. pc' \notin {"prim_bad", "sec_ok"}
      <4>1. CASE NoLuns \/ OpenFails \/ AlreadySet \/ ChainRefused
        BY <4>1, EndsStep
      <4>2. CASE Begin \/ SetXbl \/ XblNotFound \/ WriteSecHeader
        BY <4>2 DEF Begin, FirstStep, SetXbl, XblNotFound, WriteSecHeader, GoTo
      <4>3. CASE WriteSecArrayShort
        BY <4>3 DEF WriteSecArrayShort
      <4>4. CASE SetPrimState \/ SetSecState \/ StepFails \/ Crash
        BY <4>4, LeavesStep DEF SetPrimState, SetSecState, StepFails, Crash, GoTo
      <4>5. CASE Updater
        BY <4>5 DEF Updater, PrepareBootUpdate, StartFlash, EndFlash, StageDone, Skip, call
      <4> QED  BY <2>3, <4>1, <4>2, <4>3, <4>4, <4>5 DEF Next, Steps
    <3> QED  BY <1>4, <3>1
  <2> QED  BY <2>1, <2>2, <2>3
<1> QED  BY <1>2, <1>3, <1>4 DEF ChainOrder

\* The firmware's choice in one word: the main copies wherever the primary header is
\* good, the bak copies wherever it is not.
LEMMA Booted ==
  ASSUME IInv, Tables, ChainOrder, NEW i \in Images
  PROVE  BootCopy(i) = IF prim[LunOf[i]] = "ok" THEN "main" ELSE "bak"
<1>1. i # Xbl /\ LunOf[i] \in Luns /\ primArrOk[LunOf[i]] \in BOOLEAN
  BY UpdateAssumption DEF IInv, DiskOK
<1>2. PrimValid(LunOf[i]) \/ SecValid(LunOf[i])
  BY <1>1 DEF Tables, SomeTableValid
<1>3. PrimValid(LunOf[i]) <=> prim[LunOf[i]] = "ok" /\ primArrOk[LunOf[i]]
  BY DEF PrimValid
<1>4. /\ prim[LunOf[i]] # "ok" => secArr[i] = "bak"
      /\ ~primArrOk[LunOf[i]] => secArr[i] = "main"
      /\ prim[LunOf[i]] # "ok" => primArrOk[LunOf[i]]
  BY <1>1 DEF ChainOrder, Tables, SpoiltOverGood
<1> QED  BY <1>1, <1>2, <1>3, <1>4 DEF BootCopy

-----------------------------------------------------------------------------
(* The loop over the LUNs, when every LUN is found. *)

\* What stage s leaves behind on a LUN when it reports no error.
Did(l, s) ==
    /\ s = UPDATE_MAIN =>
         sec[l] = "ok" /\ (prim[l] = "bad_signature" \/ On(l) = {})
    /\ s = UPDATE_BACKUP => prim[l] = "ok" /\ sec[l] = "bad_signature"
    /\ s = UPDATE_FINALIZE =>
         /\ prim[l] = "ok" /\ sec[l] = "ok" /\ primArrOk[l]
         /\ \A i \in On(l) : secCrc[i] = "main" /\ (~ShortWrites => secArr[i] = "main")

Previous(s) == IF s = UPDATE_MAIN THEN UPDATE_FINALIZE ELSE s - 1

LEMMA NextPrevious ==
  ASSUME NEW s \in Stages
  PROVE  Previous(NextStage(s)) = s
  BY DEF Previous, NextStage, Stages, UPDATE_MAIN, UPDATE_BACKUP, UPDATE_FINALIZE

\* The LUNs before the one at work have their stage behind them, and what the
\* updater was told holds on all of them until it calls again.
LoopDone ==
    /\ pc # "idle" =>
         /\ listed = Luns
         /\ lun = 0 => Luns = {}
         /\ ~isError => \A l \in Luns : l < lun => Did(l, stage)
         /\ ret = "none"
         /\ granted = NoStage
    /\ granted # NoStage => \A l \in Luns : Did(l, granted)
    /\ ret = "ok" /\ granted = NoStage =>
         /\ MayCall(goal)
         /\ \A l \in Luns : Did(l, Previous(goal))

\* A LUN stays as its stage left it while another one is worked on.
LEMMA DidKept ==
  ASSUME IInv, [Next]_vars, NEW l \in Luns, NEW s, Did(l, s),
         l # lun \/ pc \in {"idle", "open", "xbl"}
  PROVE  Did(l, s)'
<1>1. prim'[l] = prim[l] /\ sec'[l] = sec[l] /\ primArrOk' = primArrOk
  BY Moves
<1>2. \A i \in On(l) : secCrc'[i] = secCrc[i] /\ secArr'[i] = secArr[i]
  BY Moves DEF On
<1> QED  BY <1>1, <1>2 DEF Did, On

\* prepare_boot_update returns with every LUN done, or with an error.
LEMMA LoopReturns ==
  ASSUME CallOK, pc # "idle", NEW ok \in BOOLEAN, Return(ok), NEW s, s = stage,
         ok => \A l \in Luns : Did(l, s)'
  PROVE  LoopDone'
<1>1. s \in Stages
  BY DEF CallOK, Control, RunsIn
<1>2. CASE ~ok
  BY <1>2 DEF Return, LoopDone
<1>3. CASE ok /\ s # UPDATE_FINALIZE
  <2>1. pc' = "idle" /\ granted' = s /\ s # NoStage
    BY <1>1, <1>3 DEF Return, Stages, NoStage, UPDATE_MAIN, UPDATE_BACKUP, UPDATE_FINALIZE
  <2> QED  BY <1>3, <2>1 DEF LoopDone
<1>4. CASE ok /\ s = UPDATE_FINALIZE
  <2>1. pc' = "idle" /\ granted' = NoStage /\ goal' = UPDATE_MAIN
    BY <1>4 DEF Return
  <2>2. MayCall(goal)'
    BY <2>1 DEF MayCall, UPDATE_MAIN, UPDATE_BACKUP, UPDATE_FINALIZE
  <2>3. \A l \in Luns : Did(l, Previous(goal))'
    <3>1. Previous(goal') = s
      BY <1>4, <2>1 DEF Previous
    <3> QED  BY <1>4, <3>1 DEF Did
  <2> QED  BY <1>4, <2>1, <2>2, <2>3 DEF LoopDone
<1> QED  BY <1>2, <1>3, <1>4

\* The LUN at work is done, or has failed: the loop goes on.
LEMMA LoopAdvances ==
  ASSUME IInv, LoopDone, [Next]_vars, pc # "idle", lun # 0,
         NEW ok \in BOOLEAN, LunDone(ok), NEW k, k = lun, NEW s, s = stage,
         ok => Did(k, s)'
  PROVE  LoopDone'
<1>1. listed = Luns /\ k \in Luns /\ isError \in BOOLEAN /\ Luns \subseteq Nat
  BY DEF LoopDone, IInv, CallOK, Luns
<1>2. ASSUME ok, ~isError, NEW l \in Luns, l =< k
      PROVE  Did(l, s)'
  <2>1. CASE l = k
    BY <1>2, <2>1
  <2>2. CASE l # k
    <3>1. Did(l, s)
      BY <1>1, <1>2, <2>2 DEF LoopDone
    <3> QED  BY <2>2, <3>1, DidKept
  <2> QED  BY <2>1, <2>2
<1>3. CASE LunsAfter(lun) = {}
  <2>1. \A l \in Luns : l =< k
    BY <1>1, <1>3 DEF LunsAfter
  <2>2. Return(ok /\ ~isError) /\ (ok /\ ~isError) \in BOOLEAN
    BY <1>1, <1>3 DEF LunDone
  <2> QED  BY <1>2, <2>1, <2>2, LoopReturns DEF IInv
<1>4. CASE LunsAfter(lun) # {}
  <2>1. /\ pc' = "open" /\ lun' = Min(LunsAfter(lun)) /\ isError' = (isError \/ ~ok)
        /\ listed' = listed /\ stage' = stage /\ ret' = ret /\ granted' = granted
    BY <1>4 DEF LunDone
  <2>2. LunsAfter(lun) \subseteq Nat
    BY <1>1 DEF LunsAfter
  <2>3. lun' \in Luns
    BY <1>1, <1>4, <2>1, <2>2, MinIn DEF LunsAfter
  <2>4. \A l \in Luns : l < lun' => l =< k
    <3> TAKE l \in Luns
    <3>1. l \in LunsAfter(lun) => lun' =< l
      BY <2>1, <2>2, MinLeast
    <3> QED  BY <1>1, <2>3, <3>1 DEF LunsAfter
  <2>5. ~isError' => \A l \in Luns : l < lun' => Did(l, s)'
    BY <1>1, <1>2, <2>1, <2>4
  <2>6. granted = NoStage /\ ret = "none"
    BY DEF LoopDone
  <2>7. lun' # 0
    BY <2>3 DEF Luns
  <2> QED  BY <1>1, <2>1, <2>5, <2>6, <2>7 DEF LoopDone
<1> QED  BY <1>3, <1>4

LEMMA LoopStays ==
  ASSUME IInv, LoopDone, [Next]_vars, pc # "idle", NEW place,
         place # "idle", GoTo(place)
  PROVE  LoopDone'
<1>1. /\ pc' # "idle" /\ listed' = listed /\ stage' = stage /\ lun' = lun
      /\ isError' = isError /\ ret' = ret /\ granted' = granted
  BY DEF GoTo
<1>2. PICK s : s = stage
  OBVIOUS
<1>3. \A l \in Luns : l < lun => l # lun
  BY DEF Luns, IInv, CallOK
<1>4. ~isError => \A l \in Luns : l < lun => Did(l, s)'
  BY <1>2, <1>3, DidKept DEF LoopDone
<1>5. listed = Luns /\ (lun = 0 => Luns = {}) /\ ret = "none" /\ granted = NoStage
  BY DEF LoopDone
<1> QED  BY <1>1, <1>2, <1>4, <1>5 DEF LoopDone

\* A stage that reports no error has done on the LUN what it is for.
LEMMA StageDid ==
  ASSUME IInv, Headers, CrcOrder, ~ShortWrites => ChainOrder, NEW k, k = lun, NEW s, s = stage
  PROVE  /\ AlreadySet => Did(k, s)'
         /\ ChainRefused /\ primArrOk[lun] => Did(k, s)'
         /\ SetPrimState /\ pc = "prim_bad" => Did(k, s)'
         /\ SetSecState => Did(k, s)'
<1> USE DEF IInv, DiskOK, UPDATE_MAIN, UPDATE_BACKUP, UPDATE_FINALIZE
<1>1. ASSUME AlreadySet
      PROVE  Did(k, s)'
  <2>1. k \in Luns /\ s \in Stages /\ s = InternalStage(k) - 1 /\ ~Unacceptable(k)
        /\ prim' = prim /\ sec' = sec
    BY <1>1 DEF AlreadySet, gpts, CallOK, Control, RunsIn
  <2>2. prim[k] \in HeaderStates /\ sec[k] \in HeaderStates
    BY <2>1
  <2>3. /\ s = UPDATE_MAIN => prim[k] = "bad_signature" /\ sec[k] = "ok"
        /\ s = UPDATE_BACKUP => prim[k] = "ok" /\ sec[k] = "bad_signature"
        /\ s # UPDATE_FINALIZE
    BY <2>1, <2>2 DEF InternalStage, Unacceptable, HeaderStates, Stages
  <2> QED  BY <2>1, <2>3 DEF Did
<1>2. ASSUME ChainRefused, primArrOk[lun]
      PROVE  Did(k, s)'
  <2>1. s = UPDATE_MAIN /\ On(k) = {} /\ prim' = prim /\ sec' = sec /\ pc = "sec_hdr"
    BY <1>2 DEF ChainRefused, WillWriteChain, gpts
  <2>2. prim[k] = "ok" /\ sec[k] = "ok"
    BY <2>1 DEF Headers, HeadersAtStep
  <2> QED  BY <2>1, <2>2 DEF Did, On
<1>3. ASSUME SetPrimState, pc = "prim_bad"
      PROVE  Did(k, s)'
  <2>1. s = UPDATE_MAIN /\ k \in Luns /\ sec[k] = "ok" /\ sec' = sec
    BY <1>3 DEF SetPrimState, CallOK, Control, RunsIn, Headers, HeadersAtStep
  <2>2. prim'[k] = "bad_signature"
    BY <1>3, <2>1 DEF SetPrimState, StateTarget
  <2> QED  BY <2>1, <2>2 DEF Did
<1>4. ASSUME SetSecState
      PROVE  Did(k, s)'
  <2>1. k \in Luns /\ prim[k] = "ok" /\ primArrOk[k] /\ prim' = prim
        /\ secCrc' = secCrc /\ secArr' = secArr /\ primArrOk' = primArrOk
    BY <1>4 DEF SetSecState, CallOK, Control, Headers, HeadersAtStep, CrcOrder
  <2>2. CASE pc = "sec_bad"
    <3>1. s = UPDATE_BACKUP /\ sec'[k] = "bad_signature"
      BY <1>4, <2>1, <2>2 DEF SetSecState, StateTarget, CallOK, Control, RunsIn
    <3> QED  BY <2>1, <3>1 DEF Did
  <2>3. CASE pc = "sec_ok"
    <3>1. s = UPDATE_FINALIZE /\ sec'[k] = "ok"
      BY <1>4, <2>1, <2>3 DEF SetSecState, StateTarget, CallOK, Control, RunsIn
    <3>2. \A i \in On(k) : secCrc[i] = "main" /\ (~ShortWrites => secArr[i] = "main")
      BY <2>3, <3>1 DEF CrcOrder, ChainOrder, ChainTarget
    <3> QED  BY <2>1, <3>1, <3>2 DEF Did, On
  <2> QED  BY <1>4, <2>2, <2>3 DEF SetSecState
<1> QED  BY <1>1, <1>2, <1>3, <1>4

LEMMA LoopUpdater ==
  ASSUME ~StatFails, IInv, LoopDone, Updater
  PROVE  LoopDone'
<1> USE DEF NoStage
<1>1. CASE \E s \in Stages : PrepareBootUpdate(s)
  <2>1. PICK s \in Stages : PrepareBootUpdate(s)
    BY <1>1
  <2>2. /\ pc' = "open" /\ listed' = Luns /\ ret' = "none" /\ granted' = NoStage
        /\ lun' = IF Luns = {} THEN 0 ELSE Min(Luns)
    BY <2>1 DEF PrepareBootUpdate
  <2>3. Luns \subseteq Nat \ {0}
    BY DEF Luns
  <2>4. \A l \in Luns : lun' \in Luns /\ lun' =< l
    BY <2>2, <2>3, MinLeast
  <2>5. lun' = 0 => Luns = {}
    BY <2>2, <2>3, MinIn
  <2>6. \A l \in Luns : ~(l < lun')
    <3> TAKE l \in Luns
    <3>1. l \in Nat /\ lun' \in Nat /\ lun' =< l
      BY <2>3, <2>4
    <3> QED  BY <3>1
  <2> QED  BY <2>2, <2>5, <2>6 DEF LoopDone
<1>2. CASE \E i \in AllImages : StartFlash(i) \/ EndFlash(i)
  <2>1. /\ pc' = "idle" /\ granted # NoStage /\ granted' = granted
        /\ UNCHANGED gpts
    BY <1>2 DEF StartFlash, EndFlash, call
  <2> QED  BY <2>1 DEF LoopDone, Did, gpts
<1>3. CASE StageDone
  <2>1. /\ pc' = "idle" /\ granted' = NoStage /\ torn' = torn /\ goal' = NextStage(granted)
        /\ MayCall(NextStage(granted)) /\ granted \in {UPDATE_MAIN, UPDATE_BACKUP}
    BY <1>3 DEF StageDone, call, IInv, CallOK
  <2>2. \A l \in Luns : Did(l, Previous(goal))'
    <3>1. Previous(goal') = granted
      BY <2>1, NextPrevious DEF Stages
    <3>2. UNCHANGED gpts /\ \A l \in Luns : Did(l, granted)
      BY <1>3 DEF StageDone, LoopDone
    <3> QED  BY <3>1, <3>2 DEF Did, gpts
  <2>3. MayCall(goal)'
    BY <2>1 DEF MayCall
  <2> QED  BY <2>1, <2>2, <2>3 DEF LoopDone
<1>4. CASE Skip
  <2>1. pc' = "idle" /\ granted' = NoStage /\ ret' = ret /\ ret # "ok"
    BY <1>4 DEF Skip, call, LoopDone
  <2> QED  BY <2>1 DEF LoopDone
<1> QED  BY <1>1, <1>2, <1>3, <1>4 DEF Updater

LEMMA InitLoop ==
  ASSUME Init
  PROVE  LoopDone
  BY DEF Init, LoopDone

LEMMA NextLoop ==
  ASSUME ~StatFails, IInv, Headers, CrcOrder, ~ShortWrites => ChainOrder, LoopDone, [Next]_vars
  PROVE  LoopDone'
<1>1. CASE NoLuns
  <2>1. Return(TRUE) /\ pc # "idle" /\ Luns = {}
    BY <1>1 DEF NoLuns, LoopDone
  <2> QED  BY <2>1, LoopReturns DEF IInv
<1>2. CASE OpenFails
  BY <1>2, LoopAdvances DEF OpenFails
<1>3. CASE AlreadySet
  BY <1>3, LoopAdvances, StageDid DEF AlreadySet
<1>4. CASE ChainRefused
  <2>1. lun \in Luns /\ lun # 0 /\ primArrOk[lun] \in BOOLEAN
    BY <1>4 DEF ChainRefused, IInv, DiskOK, CallOK, Control, Luns
  <2> QED  BY <1>4, <2>1, LoopAdvances, StageDid DEF ChainRefused
<1>5. CASE Begin \/ SetXbl \/ XblNotFound \/ WriteSecHeader \/ WriteSecArray \/ WriteSecArrayShort
  <2>1. PICK place : place # "idle" /\ GoTo(place) /\ pc # "idle"
    BY <1>5 DEF Begin, FirstStep, SetXbl, XblNotFound, WriteSecHeader, WriteSecArray,
                WriteSecArrayShort, AfterChain
  <2> QED  BY <2>1, LoopStays
<1>6. CASE SetPrimState \/ SetSecState
  <2>1. pc \in {"prim_bad", "prim_ok", "sec_bad", "sec_ok"}
    BY <1>6 DEF SetPrimState, SetSecState
  <2>4. pc # "idle" /\ lun # 0
    BY <2>1 DEF IInv, CallOK, Control, Luns
  <2>2. CASE pc = "prim_ok"
    BY <1>6, <2>4, <2>2, LoopStays DEF SetPrimState, SetSecState
  <2>3. CASE pc # "prim_ok"
    BY <1>6, <2>4, <2>3, LoopAdvances, StageDid DEF SetPrimState, SetSecState
  <2> QED  BY <2>2, <2>3
<1>7. CASE StepFails
  <2>1. pc # "idle" /\ lun # 0
    BY <1>7 DEF StepFails, IInv, CallOK, Control, Luns
  <2> QED  BY <1>7, <2>1, LoopAdvances DEF StepFails
<1>8. CASE Crash
  BY <1>8 DEF Crash, LoopDone
<1>9. CASE Updater
  BY <1>9, LoopUpdater
<1>10. CASE UNCHANGED vars
  BY <1>10 DEF vars, LoopDone, Did, MayCall
<1> QED
  BY <1>1, <1>2, <1>3, <1>4, <1>5, <1>6, <1>7, <1>8, <1>9, <1>10 DEF Next, Steps

-----------------------------------------------------------------------------
(* The copies that are being written. *)

\* A copy that is half written is not the one its LUN can be flipped to.
TornApart ==
    /\ \A i \in Images : <<i, "main">> \in torn => prim[LunOf[i]] # "ok"
    /\ \A i \in Images : <<i, "bak">> \in torn => prim[LunOf[i]] = "ok" /\ sec[LunOf[i]] # "ok"
    /\ pc # "idle" => MayCall(stage)

\* Only the updater writes a copy, between two calls.
LEMMA TornMoves ==
  ASSUME [Next]_vars, torn' # torn
  PROVE  pc = "idle" /\ \E i \in AllImages : StartFlash(i) \/ EndFlash(i)
<1>1. CASE \E i \in AllImages : StartFlash(i) \/ EndFlash(i)
  BY <1>1 DEF StartFlash, EndFlash
<1>2. CASE (\E s \in Stages : PrepareBootUpdate(s)) \/ StageDone \/ Skip \/ UNCHANGED vars
  BY <1>2 DEF PrepareBootUpdate, StageDone, Skip, vars
<1>3. CASE NoLuns \/ Crash
  BY <1>3 DEF NoLuns, Return, Crash
<1>4. CASE Begin \/ SetXbl \/ XblNotFound \/ WriteSecHeader \/ WriteSecArray \/ WriteSecArrayShort
  BY <1>4 DEF Begin, SetXbl, XblNotFound, WriteSecHeader, WriteSecArray, WriteSecArrayShort,
              AfterChain, GoTo
<1>5. CASE OpenFails \/ AlreadySet \/ ChainRefused \/ SetPrimState \/ SetSecState \/ StepFails
  <2>1. (\E ok : LunDone(ok)) \/ GoTo("sec_bad")
    BY <1>5 DEF OpenFails, AlreadySet, ChainRefused, SetPrimState, SetSecState, StepFails
  <2> QED  BY <2>1 DEF LunDone, Return, GoTo
<1> QED  BY <1>1, <1>2, <1>3, <1>4, <1>5 DEF Next, Steps, Updater

\* It starts with one of the copies it was granted.
LEMMA TornGrows ==
  ASSUME [Next]_vars, NEW x \in torn', x \notin torn
  PROVE  pc = "idle" /\ \E i \in AllImages : StartFlash(i) /\ x = <<i, Rewritten>>
<1>1. PICK i \in AllImages : StartFlash(i) \/ EndFlash(i)
  BY TornMoves
<1> QED  BY <1>1 DEF StartFlash, EndFlash

\* A call keeps its stage, and the updater its goal, until it returns.
LEMMA StageKept ==
  ASSUME [Next]_vars, pc' # "idle"
  PROVE  \/ pc # "idle" /\ stage' = stage /\ goal' = goal
         \/ \E s \in Stages : PrepareBootUpdate(s)
<1>1. CASE Updater \/ UNCHANGED vars
  BY <1>1 DEF Updater, StartFlash, EndFlash, StageDone, Skip, call, vars
<1>2. CASE NoLuns \/ Crash
  BY <1>2 DEF NoLuns, Return, Crash
<1>3. CASE Begin \/ SetXbl \/ XblNotFound \/ WriteSecHeader \/ WriteSecArray \/ WriteSecArrayShort
  BY <1>3 DEF Begin, SetXbl, XblNotFound, WriteSecHeader, WriteSecArray, WriteSecArrayShort,
              AfterChain, GoTo
<1>4. CASE OpenFails \/ AlreadySet \/ ChainRefused \/ SetPrimState \/ SetSecState \/ StepFails
  <2>1. ((\E ok : LunDone(ok)) \/ GoTo("sec_bad")) /\ pc # "idle"
    BY <1>4 DEF OpenFails, AlreadySet, ChainRefused, SetPrimState, SetSecState, StepFails
  <2> QED  BY <2>1 DEF LunDone, Return, GoTo
<1> QED  BY <1>1, <1>2, <1>3, <1>4 DEF Next, Steps

LEMMA InitTorn ==
  ASSUME Init
  PROVE  TornApart
  BY DEF Init, TornApart

LEMMA NextTorn ==
  ASSUME IInv, Headers, LoopDone, TornApart, [Next]_vars
  PROVE  TornApart'
<1> USE DEF IInv, UPDATE_MAIN, UPDATE_BACKUP, UPDATE_FINALIZE
<1>1. ASSUME NEW i \in Images
      PROVE  LunOf[i] \in Luns /\ i \in On(LunOf[i]) /\ i \in AllImages /\ i # Xbl
  BY UpdateAssumption DEF On, AllImages
<1>2. ASSUME NEW i \in Images, <<i, "main">> \in torn'
      PROVE  prim'[LunOf[i]] # "ok"
  <2>1. CASE <<i, "main">> \notin torn
    <3>1. pc = "idle" /\ granted # NoStage /\ Rewritten = "main"
      BY <1>2, <2>1, TornGrows DEF StartFlash
    <3>2. granted = UPDATE_MAIN
      BY <3>1 DEF Rewritten
    <3>3. prim[LunOf[i]] = "bad_signature"
      BY <1>1, <3>1, <3>2 DEF LoopDone, Did
    <3> QED  BY <1>1, <3>1, <3>3, Moves
  <2>2. CASE <<i, "main">> \in torn
    <3>1. prim[LunOf[i]] # "ok"
      BY <2>2 DEF TornApart
    <3>2. pc = "prim_ok" => FALSE
      BY <1>1, <2>2 DEF TornApart, MayCall, CallOK, Control, RunsIn
    <3>3. pc = "prim_bad" => prim[lun] = "ok"
      BY DEF Headers, HeadersAtStep
    <3> QED  BY <1>1, <3>1, <3>2, <3>3, Moves
  <2> QED  BY <2>1, <2>2
<1>3. ASSUME NEW i \in Images, <<i, "bak">> \in torn'
      PROVE  prim'[LunOf[i]] = "ok" /\ sec'[LunOf[i]] # "ok"
  <2>1. CASE <<i, "bak">> \notin torn
    <3>1. pc = "idle" /\ granted # NoStage /\ Rewritten = "bak"
      BY <1>3, <2>1, TornGrows DEF StartFlash
    <3>2. granted = UPDATE_BACKUP
      BY <3>1 DEF Rewritten, CallOK
    <3>3. prim[LunOf[i]] = "ok" /\ sec[LunOf[i]] = "bad_signature"
      BY <1>1, <3>1, <3>2 DEF LoopDone, Did
    <3> QED  BY <1>1, <3>1, <3>3, Moves
  <2>2. CASE <<i, "bak">> \in torn
    <3>1. prim[LunOf[i]] = "ok" /\ sec[LunOf[i]] # "ok"
      BY <2>2 DEF TornApart
    <3>2. pc = "sec_ok" => FALSE
      BY <1>1, <2>2 DEF TornApart, MayCall, CallOK, Control, RunsIn
    <3>3. LunOf[i] = lun => pc \notin {"prim_bad", "prim_ok"}
      BY <3>1 DEF Headers, HeadersAtStep
    <3>4. prim'[LunOf[i]] = prim[LunOf[i]]
      BY <1>1, <3>3, Moves
    <3>5. sec'[LunOf[i]] = sec[LunOf[i]] \/ sec'[LunOf[i]] # "ok"
      BY <1>1, <3>2, Moves
    <3> QED  BY <3>1, <3>4, <3>5
  <2> QED  BY <2>1, <2>2
<1>4. ASSUME pc' # "idle"
      PROVE  MayCall(stage)'
  <2>1. CASE \E s \in Stages : PrepareBootUpdate(s)
    <3>1. MayCall(stage') /\ torn' = torn
      BY <2>1 DEF PrepareBootUpdate
    <3> QED  BY <3>1 DEF MayCall
  <2>2. CASE pc # "idle" /\ stage' = stage
    <3>1. \A x \in torn' : x \in torn
      BY <2>2, TornGrows
    <3>2. MayCall(stage)
      BY <2>2 DEF TornApart
    <3> QED  BY <2>2, <3>1, <3>2 DEF MayCall
  <2> QED  BY <1>4, <2>1, <2>2, StageKept
<1> QED  BY <1>2, <1>3, <1>4 DEF TornApart

-----------------------------------------------------------------------------
(* XBL. *)

\* The boot LUN of an updater that resumes: it is switched on the first LUN of a
\* stage and stays until the next stage.
XblTorn(copy) == <<Xbl, copy>> \in torn

XblPhase ==
    /\ pc # "idle" => goal = stage
    /\ granted # NoStage => goal = granted
    /\ goal = UPDATE_MAIN =>
         /\ ~XblTorn("bak")
         /\ bootLun = "bak" \/ (~XblTorn("main") /\ \A l \in Luns : prim[l] = "ok")
    /\ goal = UPDATE_BACKUP =>
         /\ ~XblTorn("main")
         /\ bootLun = "main" \/ (~XblTorn("bak") /\ \A l \in Luns : sec[l] = "ok")
    /\ goal = UPDATE_FINALIZE =>
         bootLun = "main" /\ ~XblTorn("main") /\ ~XblTorn("bak")

\* Where the running stage has switched it.
XblSwitched ==
    /\ pc \notin {"idle", "open", "xbl"} /\ stage # UPDATE_FINALIZE => bootLun = XblTarget
    /\ pc # "idle" /\ ~isError /\ stage # UPDATE_FINALIZE =>
         \A l \in Luns : l < lun => bootLun = XblTarget
    /\ granted = UPDATE_MAIN => bootLun = "bak"
    /\ granted = UPDATE_BACKUP => bootLun = "main"

XblInv == HasXbl => XblPhase /\ XblSwitched

\* How the goal of an updater that resumes moves on.
LEMMA GoalMoves ==
  ASSUME Client = "resume", IInv, pc # "idle" => goal = stage, [Next]_vars, goal' # goal
  PROVE  \/ StageDone
         \/ /\ goal = UPDATE_FINALIZE /\ goal' = UPDATE_MAIN /\ granted' = NoStage
            /\ pc' = "idle" /\ ret' = "ok"
<1>1. CASE Updater \/ UNCHANGED vars
  <2>1. \A s \in Stages : PrepareBootUpdate(s) => goal' = goal
    BY DEF PrepareBootUpdate
  <2>2. ~Skip
    BY DEF Skip
  <2> QED  BY <1>1, <2>1, <2>2 DEF Updater, StartFlash, EndFlash, call, vars
<1>2. ASSUME NEW ok \in BOOLEAN, pc # "idle", Return(ok)
      PROVE  goal = UPDATE_FINALIZE /\ goal' = UPDATE_MAIN /\ granted' = NoStage
             /\ pc' = "idle" /\ ret' = "ok"
  <2>1. goal = stage
    BY <1>2
  <2> QED  BY <1>2, <2>1 DEF Return, Goals
<1>3. ASSUME NEW ok \in BOOLEAN, pc # "idle", LunDone(ok)
      PROVE  goal = UPDATE_FINALIZE /\ goal' = UPDATE_MAIN /\ granted' = NoStage
             /\ pc' = "idle" /\ ret' = "ok"
  <2>1. (ok /\ ~isError) \in BOOLEAN
    BY DEF IInv, CallOK
  <2>2. Return(ok /\ ~isError)
    BY <1>3 DEF LunDone
  <2> QED  BY <1>2, <1>3, <2>1, <2>2
<1>4. CASE NoLuns
  BY <1>2, <1>4 DEF NoLuns
<1>5. CASE Begin \/ SetXbl \/ XblNotFound \/ WriteSecHeader \/ WriteSecArray \/ WriteSecArrayShort
  BY <1>5 DEF Begin, SetXbl, XblNotFound, WriteSecHeader, WriteSecArray, WriteSecArrayShort,
              AfterChain, GoTo
<1>6. CASE OpenFails \/ AlreadySet \/ ChainRefused \/ SetPrimState \/ SetSecState \/ StepFails
  <2>1. primArrOk[lun] \in BOOLEAN \/ ~ChainRefused
    BY DEF ChainRefused, IInv, DiskOK, CallOK, Control
  <2>2. ((\E ok \in BOOLEAN : LunDone(ok)) \/ GoTo("sec_bad")) /\ pc # "idle"
    BY <1>6, <2>1 DEF OpenFails, AlreadySet, ChainRefused, SetPrimState, SetSecState, StepFails
  <2> QED  BY <1>3, <2>2 DEF GoTo
<1>7. CASE Crash
  BY <1>7 DEF Crash
<1> QED  BY <1>1, <1>4, <1>5, <1>6, <1>7 DEF Next, Steps

LEMMA XblTornMoves ==
  ASSUME IInv, XblPhase, [Next]_vars, NEW c \in Copies, XblTorn(c)', ~XblTorn(c)
  PROVE  /\ pc = "idle" /\ granted # NoStage /\ goal' = goal /\ bootLun' = bootLun
         /\ c = "main" => goal = UPDATE_MAIN /\ granted = UPDATE_MAIN
         /\ c = "bak" => goal = UPDATE_BACKUP /\ granted = UPDATE_BACKUP
<1>1. PICK i \in AllImages : StartFlash(i) /\ <<Xbl, c>> = <<i, Rewritten>>
  BY TornGrows DEF XblTorn
<1>2. granted \in {UPDATE_MAIN, UPDATE_BACKUP} /\ goal = granted
  BY <1>1 DEF StartFlash, IInv, CallOK, XblPhase
<1> QED  BY <1>1, <1>2 DEF StartFlash, Rewritten, UPDATE_MAIN, UPDATE_BACKUP

\* A LUN that reports no error has left the boot LUN where its stage wants it.
LEMMA XblTold ==
  ASSUME IInv, Headers, XblPhase, XblSwitched, stage # UPDATE_FINALIZE,
         AlreadySet \/ (pc \notin {"idle", "open", "xbl"})
  PROVE  bootLun = XblTarget
<1> USE DEF UPDATE_MAIN, UPDATE_BACKUP, UPDATE_FINALIZE
<1>1. CASE pc \notin {"idle", "open", "xbl"}
  BY <1>1 DEF XblSwitched
<1>2. CASE AlreadySet
  <2>1. lun \in Luns /\ stage \in Stages /\ stage = InternalStage(lun) - 1 /\ goal = stage
        /\ ~Unacceptable(lun)
    BY <1>2 DEF AlreadySet, IInv, CallOK, Control, RunsIn, XblPhase
  <2>2. prim[lun] \in HeaderStates /\ sec[lun] \in HeaderStates
    BY <2>1 DEF IInv, DiskOK
  <2>3. /\ stage = UPDATE_MAIN => prim[lun] # "ok"
        /\ stage = UPDATE_BACKUP => sec[lun] # "ok"
    BY <2>1, <2>2 DEF InternalStage, Unacceptable, HeaderStates
  <2> QED  BY <2>1, <2>3 DEF XblPhase, XblTarget, Stages
<1> QED  BY <1>1, <1>2

LEMMA NextPhase ==
  ASSUME HasXbl, Client = "resume", IInv, Headers, LoopDone, LoopDone',
         XblPhase, XblSwitched, [Next]_vars
  PROVE  XblPhase'
<1> USE DEF UPDATE_MAIN, UPDATE_BACKUP, UPDATE_FINALIZE
<1>1. pc' # "idle" => goal' = stage'
  <2> SUFFICES ASSUME pc' # "idle" PROVE goal' = stage'
    OBVIOUS
  <2>1. CASE \E s \in Stages : PrepareBootUpdate(s)
    BY <2>1 DEF PrepareBootUpdate
  <2>2. CASE pc # "idle" /\ stage' = stage /\ goal' = goal
    BY <2>2 DEF XblPhase
  <2> QED  BY <2>1, <2>2, StageKept
<1>2. StageDone => /\ granted \in {UPDATE_MAIN, UPDATE_BACKUP} /\ goal = granted
                   /\ goal' = goal + 1 /\ granted' = NoStage /\ pc' = "idle"
                   /\ MayCall(goal') /\ UNCHANGED <<gpts, bootLun, torn>>
  BY DEF StageDone, call, NextStage, IInv, CallOK, XblPhase
<1>3. granted' # NoStage => goal' = granted'
  <2> SUFFICES ASSUME granted' # NoStage PROVE goal' = granted'
    OBVIOUS
  <2>1. ASSUME NEW ok, pc # "idle", Return(ok)
        PROVE  goal' = granted'
    BY <2>1 DEF Return
  <2>2. ASSUME NEW ok, pc # "idle", LunDone(ok)
        PROVE  goal' = granted'
    BY <2>1, <2>2 DEF LunDone, LoopDone
  <2>3. CASE Updater \/ UNCHANGED vars
    BY <2>3 DEF Updater, PrepareBootUpdate, StartFlash, EndFlash, StageDone, Skip, vars, XblPhase
  <2>4. CASE NoLuns
    BY <2>1, <2>4 DEF NoLuns
  <2>5. CASE Begin \/ SetXbl \/ XblNotFound \/ WriteSecHeader \/ WriteSecArray \/ WriteSecArrayShort
    BY <2>5 DEF Begin, SetXbl, XblNotFound, WriteSecHeader, WriteSecArray, WriteSecArrayShort,
                AfterChain, GoTo, LoopDone
  <2>6. CASE OpenFails \/ AlreadySet \/ ChainRefused \/ SetPrimState \/ SetSecState \/ StepFails
    <3>1. ((\E ok : LunDone(ok)) \/ GoTo("sec_bad")) /\ pc # "idle"
      BY <2>6 DEF OpenFails, AlreadySet, ChainRefused, SetPrimState, SetSecState, StepFails
    <3> QED  BY <2>2, <3>1 DEF GoTo, LoopDone
  <2>7. CASE Crash
    BY <2>7 DEF Crash
  <2> QED  BY <2>3, <2>4, <2>5, <2>6, <2>7 DEF Next, Steps
<1>4. pc = "xbl" => stage = goal /\ stage \in {UPDATE_MAIN, UPDATE_BACKUP}
  BY DEF IInv, CallOK, Control, RunsIn, XblPhase
<1>5. \A c \in Copies : XblTorn(c)' /\ ~XblTorn(c) =>
        /\ pc = "idle" /\ granted # NoStage /\ goal' = goal /\ bootLun' = bootLun
        /\ c = "main" => goal = UPDATE_MAIN /\ granted = UPDATE_MAIN
        /\ c = "bak" => goal = UPDATE_BACKUP /\ granted = UPDATE_BACKUP
  BY XblTornMoves
<1>6. /\ granted = UPDATE_MAIN => bootLun = "bak"
      /\ granted = UPDATE_BACKUP => bootLun = "main"
  BY DEF XblSwitched
<1>7. "main" \in Copies /\ "bak" \in Copies /\ bootLun \in Copies /\ bootLun' \in Copies
  <2>1. XblTarget \in Copies
    BY DEF XblTarget, Copies
  <2> QED  BY <2>1, Moves DEF IInv, DiskOK, Copies
<1>8. CASE goal' = goal
  <2>1. goal = UPDATE_MAIN =>
          ~XblTorn("bak")' /\ (bootLun' = "bak" \/
            (~XblTorn("main")' /\ \A l \in Luns : prim'[l] = "ok"))
    <3> SUFFICES ASSUME goal = UPDATE_MAIN
                 PROVE  ~XblTorn("bak")' /\ (bootLun' = "bak" \/
                          (~XblTorn("main")' /\ \A l \in Luns : prim'[l] = "ok"))
      OBVIOUS
    <3>1. ~XblTorn("bak")'
      BY <1>5, <1>7 DEF XblPhase
    <3>2. CASE bootLun = "bak"
      <4>1. bootLun' = "bak"
        BY <1>4, <3>2, Moves DEF XblTarget
      <4> QED  BY <3>1, <4>1
    <3>3. CASE bootLun # "bak" /\ bootLun' # "bak"
      <4>1. ~XblTorn("main") /\ \A l \in Luns : prim[l] = "ok"
        BY <3>3 DEF XblPhase
      <4>2. ~XblTorn("main")'
        BY <1>5, <1>6, <1>7, <3>3, <4>1
      <4>3. pc \notin {"prim_bad", "prim_ok"}
        BY <3>3 DEF XblSwitched, XblTarget, XblPhase
      <4> QED  BY <3>1, <4>1, <4>2, <4>3, Moves
    <3> QED  BY <3>1, <3>2, <3>3
  <2>2. goal = UPDATE_BACKUP =>
          ~XblTorn("main")' /\ (bootLun' = "main" \/
            (~XblTorn("bak")' /\ \A l \in Luns : sec'[l] = "ok"))
    <3> SUFFICES ASSUME goal = UPDATE_BACKUP
                 PROVE  ~XblTorn("main")' /\ (bootLun' = "main" \/
                          (~XblTorn("bak")' /\ \A l \in Luns : sec'[l] = "ok"))
      OBVIOUS
    <3>1. ~XblTorn("main")'
      BY <1>5, <1>7 DEF XblPhase
    <3>2. CASE bootLun = "main"
      <4>1. bootLun' = "main"
        BY <1>4, <3>2, Moves DEF XblTarget
      <4> QED  BY <3>1, <4>1
    <3>3. CASE bootLun # "main" /\ bootLun' # "main"
      <4>1. ~XblTorn("bak") /\ \A l \in Luns : sec[l] = "ok"
        BY <3>3 DEF XblPhase
      <4>2. ~XblTorn("bak")'
        BY <1>5, <1>6, <1>7, <3>3, <4>1
      <4>3. pc \notin {"sec_hdr", "sec_bad", "sec_ok"}
        BY <3>3 DEF XblSwitched, XblTarget, XblPhase
      <4> QED  BY <3>1, <4>1, <4>2, <4>3, Moves
    <3> QED  BY <3>1, <3>2, <3>3
  <2>3. goal = UPDATE_FINALIZE =>
          bootLun' = "main" /\ ~XblTorn("main")' /\ ~XblTorn("bak")'
    BY <1>4, <1>5, <1>7, Moves DEF XblPhase
  <2> QED  BY <1>1, <1>3, <1>8, <2>1, <2>2, <2>3 DEF XblPhase
<1>9. CASE goal' # goal /\ StageDone
  <2>1. Xbl \in AllImages
    BY DEF AllImages
  <2>2. CASE granted = UPDATE_MAIN
    <3>1. goal = UPDATE_MAIN /\ goal' = UPDATE_BACKUP /\ torn' = torn /\ sec' = sec
      BY <1>2, <1>9, <2>2 DEF gpts
    <3>2. ~XblTorn("main")' /\ ~XblTorn("bak")'
      BY <1>2, <1>9, <2>1, <3>1 DEF MayCall, XblTorn, XblPhase
    <3>3. \A l \in Luns : sec'[l] = "ok"
      BY <2>2, <3>1 DEF LoopDone, Did, NoStage
    <3> QED  BY <1>1, <1>3, <3>1, <3>2, <3>3 DEF XblPhase
  <2>3. CASE granted = UPDATE_BACKUP
    <3>1. goal = UPDATE_BACKUP /\ goal' = UPDATE_FINALIZE /\ torn' = torn /\ bootLun' = bootLun
      BY <1>2, <1>9, <2>3
    <3>2. ~XblTorn("main")' /\ ~XblTorn("bak")'
      BY <1>2, <1>9, <2>1, <3>1 DEF MayCall, XblTorn, XblPhase
    <3> QED  BY <1>1, <1>3, <1>6, <2>3, <3>1, <3>2 DEF XblPhase
  <2> QED  BY <1>2, <1>9, <2>2, <2>3
<1>10. CASE goal' # goal /\ ~StageDone
  <2>1. goal = UPDATE_FINALIZE /\ goal' = UPDATE_MAIN /\ granted' = NoStage /\ ret' = "ok"
    BY <1>10, GoalMoves DEF XblPhase
  <2>2. ~XblTorn("main")' /\ ~XblTorn("bak")'
    BY <1>5, <1>7, <2>1 DEF XblPhase
  <2>3. \A l \in Luns : prim'[l] = "ok"
    <3>1. Previous(goal') = UPDATE_FINALIZE
      BY <2>1 DEF Previous
    <3> QED  BY <2>1, <3>1 DEF LoopDone, Did
  <2> QED  BY <1>1, <1>3, <2>1, <2>2, <2>3 DEF XblPhase
<1> QED  BY <1>8, <1>9, <1>10

\* A call returns, or turns to its next LUN, with the boot LUN switched.
LEMMA SwitchedReturn ==
  ASSUME CallOK, pc # "idle", NEW ok \in BOOLEAN, Return(ok),
         ok /\ stage # UPDATE_FINALIZE => bootLun' = XblTarget
  PROVE  XblSwitched'
<1>1. /\ pc' = "idle"
      /\ granted' # NoStage => ok /\ granted' = stage /\ stage # UPDATE_FINALIZE
  BY DEF Return
<1>2. /\ granted' = UPDATE_MAIN => bootLun' = "bak"
      /\ granted' = UPDATE_BACKUP => bootLun' = "main"
  BY <1>1 DEF XblTarget, NoStage, UPDATE_MAIN, UPDATE_BACKUP
<1> QED  BY <1>1, <1>2 DEF XblSwitched

LEMMA SwitchedAdvance ==
  ASSUME IInv, LoopDone, XblSwitched, pc # "idle", lun \in Luns, NEW ok \in BOOLEAN, LunDone(ok),
         ok /\ stage # UPDATE_FINALIZE => bootLun' = XblTarget
  PROVE  XblSwitched'
<1>1. isError \in BOOLEAN
  BY DEF IInv, CallOK
<1>2. CASE LunsAfter(lun) = {}
  <2>1. Return(ok /\ ~isError) /\ (ok /\ ~isError) \in BOOLEAN
    BY <1>1, <1>2 DEF LunDone
  <2> QED  BY <2>1, SwitchedReturn DEF IInv
<1>3. CASE LunsAfter(lun) # {}
  <2>1. pc' = "open" /\ stage' = stage /\ granted' = granted /\ (~isError' => ok)
    BY <1>1, <1>3 DEF LunDone
  <2>2. granted' = NoStage /\ XblTarget' = XblTarget
    BY <2>1 DEF LoopDone, XblTarget
  <2> QED  BY <2>1, <2>2 DEF XblSwitched, NoStage, UPDATE_MAIN, UPDATE_BACKUP
<1> QED  BY <1>2, <1>3

LEMMA NextSwitched ==
  ASSUME ~StatFails, HasXbl, NLuns > 0, IInv, Headers, LoopDone,
         XblPhase, XblSwitched, [Next]_vars
  PROVE  XblSwitched'
<1> USE DEF UPDATE_MAIN, UPDATE_BACKUP, UPDATE_FINALIZE, NoStage
<1>1. CASE NoLuns
  <2>1. Luns # {}
    <3>1. 1 \in Luns
      BY UpdateAssumption DEF Luns
    <3> QED  BY <3>1
  <2> QED  BY <1>1, <2>1 DEF NoLuns, LoopDone
<1>2. CASE OpenFails \/ StepFails
  <2>1. pc # "idle" /\ lun \in Luns /\ LunDone(FALSE)
    BY <1>2 DEF OpenFails, StepFails, IInv, CallOK, Control
  <2> QED  BY <2>1, SwitchedAdvance
<1>3. CASE AlreadySet
  <2>1. pc # "idle" /\ lun \in Luns /\ LunDone(TRUE) /\ bootLun' = bootLun
    BY <1>3 DEF AlreadySet, IInv, CallOK, Control
  <2> QED  BY <1>3, <2>1, XblTold, SwitchedAdvance
<1>4. CASE ChainRefused \/ (SetPrimState /\ pc = "prim_bad") \/ SetSecState
  <2>1. /\ pc \in {"sec_hdr", "prim_bad", "sec_bad", "sec_ok"} /\ bootLun' = bootLun
        /\ LunDone(TRUE) \/ (pc = "sec_hdr" /\ LunDone(primArrOk[lun]))
    BY <1>4 DEF ChainRefused, SetPrimState, SetSecState
  <2>2. lun \in Luns /\ primArrOk[lun] \in BOOLEAN /\ pc # "idle"
    BY <2>1 DEF IInv, DiskOK, CallOK, Control
  <2>3. PICK ok \in BOOLEAN : LunDone(ok)
    BY <2>1, <2>2
  <2>4. stage # UPDATE_FINALIZE => bootLun' = XblTarget
    BY <2>1, XblTold
  <2> QED  BY <2>1, <2>2, <2>3, <2>4, SwitchedAdvance
<1>5. CASE Begin \/ WriteSecHeader \/ WriteSecArray \/ WriteSecArrayShort \/ (SetPrimState /\ pc = "prim_ok")
  <2>1. /\ pc' # "idle" /\ lun' = lun /\ stage' = stage /\ isError' = isError
        /\ granted' = granted /\ bootLun' = bootLun /\ pc # "idle"
    BY <1>5 DEF Begin, FirstStep, WriteSecHeader, WriteSecArray, WriteSecArrayShort, AfterChain,
            SetPrimState, GoTo
  <2>2. XblTarget' = XblTarget
    BY <2>1 DEF XblTarget
  <2>3. \/ pc' = "xbl" \/ stage = UPDATE_FINALIZE
        \/ pc \notin {"idle", "open", "xbl"}
    BY <1>5 DEF Begin, FirstStep, WriteSecHeader, WriteSecArray, WriteSecArrayShort, SetPrimState, GoTo
  <2> QED  BY <2>1, <2>2, <2>3 DEF XblSwitched
<1>6. CASE SetXbl
  <2>1. /\ lun' = lun /\ stage' = stage /\ granted' = granted /\ bootLun' = XblTarget
        /\ granted = NoStage
    BY <1>6 DEF SetXbl, GoTo, LoopDone
  <2>2. XblTarget' = XblTarget
    BY <2>1 DEF XblTarget
  <2> QED  BY <2>1, <2>2 DEF XblSwitched
<1>7. CASE XblNotFound
  BY <1>7 DEF XblNotFound
<1>8. CASE Crash
  BY <1>8 DEF Crash, XblSwitched
<1>9. CASE \E s \in Stages : PrepareBootUpdate(s)
  <2>1. PICK s \in Stages : PrepareBootUpdate(s)
    BY <1>9
  <2>2. pc' = "open" /\ granted' = NoStage /\ lun' = IF Luns = {} THEN 0 ELSE Min(Luns)
    BY <2>1 DEF PrepareBootUpdate
  <2>3. \A l \in Luns : ~(l < lun')
    <3> TAKE l \in Luns
    <3>1. Luns \subseteq Nat
      BY DEF Luns
    <3>2. l \in Nat /\ lun' \in Nat /\ lun' =< l
      BY <2>2, <3>1, MinLeast
    <3> QED  BY <3>2
  <2> QED  BY <2>2, <2>3 DEF XblSwitched
<1>10. CASE (\E i \in AllImages : StartFlash(i) \/ EndFlash(i)) \/ StageDone \/ Skip
  <2>1. pc' = "idle" /\ bootLun' = bootLun /\ (granted' = granted \/ granted' = NoStage)
    BY <1>10 DEF StartFlash, EndFlash, StageDone, Skip, call
  <2> QED  BY <2>1 DEF XblSwitched
<1>11. CASE UNCHANGED vars
  BY <1>11 DEF vars, XblSwitched, XblTarget
<1> QED
  BY <1>1, <1>2, <1>3, <1>4, <1>5, <1>6, <1>7, <1>8, <1>9, <1>10, <1>11
     DEF Next, Steps, Updater, SetPrimState

LEMMA InitXbl ==
  ASSUME Init
  PROVE  XblInv
<1>1. XblPhase
  BY DEF Init, XblPhase, XblTorn, UPDATE_MAIN, UPDATE_BACKUP, UPDATE_FINALIZE
<1>2. XblSwitched
  BY DEF Init, XblSwitched, NoStage, UPDATE_MAIN, UPDATE_BACKUP
<1> QED  BY <1>1, <1>2 DEF XblInv

-----------------------------------------------------------------------------
(* The theorems. *)

\* The updater that the library can serve where XBL is on its own boot LUN: one that
\* repeats a failed stage, on a device with at least one LUN.  With another one the
\* properties below are false.
XblResumed == HasXbl => Client = "resume" /\ NLuns > 0

CrcInv == IInv /\ Headers /\ CrcOrder

LEMMA CrcInvariant == Spec => []CrcInv
<1>1. Init => Headers /\ CrcOrder
  BY InitHeaders, InitCrc
<1>2. IInv /\ Headers /\ [Next]_vars => Headers'
  BY NextHeaders
<1>3. IInv /\ Headers /\ CrcOrder /\ [Next]_vars => CrcOrder'
  BY NextCrc
<1> QED  BY <1>1, <1>2, <1>3, InductiveInvariant, PTL DEF Spec, CrcInv

ChainInv == IInv /\ Headers /\ Tables /\ ChainOrder

LEMMA ChainInvariant ==
  ASSUME ~ShortWrites
  PROVE  Spec => []ChainInv
<1>1. Init => Tables /\ ChainOrder
  BY InitTables, InitOrder
<1>2. IInv /\ Headers /\ Headers' /\ Tables /\ [Next]_vars => Tables'
  BY NextTables
<1>3. IInv /\ Headers /\ Tables /\ ChainOrder /\ [Next]_vars => ChainOrder'
  BY NextOrder
<1> QED  BY <1>1, <1>2, <1>3, CrcInvariant, PTL DEF Spec, ChainInv, CrcInv

\* The loop and the updater need the arrays only to say that they agree at the end.
LEMMA LoopInvariant ==
  ASSUME ~StatFails
  PROVE  Spec => [](LoopDone /\ TornApart)
<1>1. Init => LoopDone /\ TornApart
  BY InitLoop, InitTorn
<1>2. CrcInv /\ (~ShortWrites => ChainInv) /\ LoopDone /\ [Next]_vars => LoopDone'
  BY NextLoop DEF CrcInv, ChainInv
<1>3. CrcInv /\ LoopDone /\ TornApart /\ [Next]_vars => TornApart'
  BY NextTorn DEF CrcInv
<1>4. Spec => [](~ShortWrites => ChainInv)
  <2>1. CASE ShortWrites
    BY <2>1, PTL
  <2>2. CASE ~ShortWrites
    BY <2>2, ChainInvariant, PTL
  <2> QED  BY <2>1, <2>2
<1> QED  BY <1>1, <1>2, <1>3, <1>4, CrcInvariant, PTL DEF Spec

LEMMA XblInvariant ==
  ASSUME ~StatFails, XblResumed
  PROVE  Spec => []XblInv
<1>1. Init => XblInv
  BY InitXbl
<1>2. CrcInv /\ LoopDone /\ LoopDone' /\ XblInv /\ [Next]_vars => XblInv'
  BY NextPhase, NextSwitched DEF CrcInv, XblInv, XblResumed
<1> QED  BY <1>1, <1>2, CrcInvariant, LoopInvariant, PTL DEF Spec

\* A UPDATE_FINALIZE that returned 0 has left both tables of every LUN valid and
\* alike, whatever failed in the calls before it: the loop over the LUNs forgets no
\* error and every LUN that was passed in silence was done before.
THEOREM TablesAgreeHolds ==
  ASSUME ~ShortWrites, ~StatFails
  PROVE  Spec => []TablesAgreeAfterFinalize
<1>1. LoopDone => TablesAgreeAfterFinalize
  <2> SUFFICES ASSUME LoopDone, ret = "ok", granted = NoStage, goal = UPDATE_MAIN, NEW l \in Luns
               PROVE  PrimValid(l) /\ SecValid(l) /\ \A i \in On(l) : secArr[i] = "main"
    BY DEF TablesAgreeAfterFinalize
  <2>1. Did(l, UPDATE_FINALIZE)
    <3>1. Previous(goal) = UPDATE_FINALIZE
      BY DEF Previous
    <3> QED  BY <3>1 DEF LoopDone
  <2> QED  BY <2>1 DEF Did, PrimValid, SecValid
<1> QED  BY <1>1, LoopInvariant, PTL

\* Whatever failed before it, a stage that returned 0 has left every LUN with twins in
\* the state in which the next stage is the one to run, also when array writes are
\* silently cut: no order of retries and restarts leads an updater into a stage that
\* one of the LUNs refuses.
THEOREM ZeroOpensNextHolds ==
  ASSUME ~StatFails
  PROVE  Spec => []ZeroOpensNext
<1>1. IInv /\ LoopDone => ZeroOpensNext
  <2> SUFFICES ASSUME IInv, LoopDone, ret = "ok", NEW l \in Luns, On(l) # {}
               PROVE  /\ ~Unacceptable(l)
                      /\ InternalStage(l) = IF granted = NoStage THEN goal ELSE NextStage(granted)
    BY DEF ZeroOpensNext
  <2> DEFINE s == IF granted = NoStage THEN Previous(goal) ELSE granted
  <2>1. s \in Stages /\ NextStage(s) = IF granted = NoStage THEN goal ELSE NextStage(granted)
    BY DEF IInv, CallOK, Previous, NextStage, Stages, NoStage, UPDATE_MAIN, UPDATE_BACKUP,
           UPDATE_FINALIZE
  <2>2. Did(l, s)
    BY DEF LoopDone
  <2>3. /\ s = UPDATE_MAIN => prim[l] = "bad_signature" /\ sec[l] = "ok"
        /\ s = UPDATE_BACKUP => prim[l] = "ok" /\ sec[l] = "bad_signature"
        /\ s = UPDATE_FINALIZE => prim[l] = "ok" /\ sec[l] = "ok"
    BY <2>2 DEF Did
  <2> HIDE DEF s
  <2>4. ~Unacceptable(l) /\ InternalStage(l) = NextStage(s)
    BY <2>1, <2>3 DEF Unacceptable, InternalStage, NextStage, Stages, UPDATE_MAIN,
                      UPDATE_BACKUP, UPDATE_FINALIZE
  <2> QED  BY <2>1, <2>4
<1> QED  BY <1>1, InductiveInvariant, LoopInvariant, PTL

LEMMA ReadyInv ==
  ASSUME ChainInv, LoopDone, XblInv
  PROVE  ReadyForUpdate
<1> USE DEF UPDATE_MAIN, UPDATE_BACKUP, NoStage
<1>1. ASSUME NEW i \in Images
      PROVE  /\ LunOf[i] \in Luns /\ i \in On(LunOf[i])
             /\ BootCopy(i) = IF prim[LunOf[i]] = "ok" THEN "main" ELSE "bak"
  BY Booted, UpdateAssumption DEF ChainInv, On
<1>2. ASSUME granted = UPDATE_MAIN, NEW i \in AllImages
      PROVE  BootCopy(i) = "bak"
  <2>1. CASE i \in Images
    <3>1. prim[LunOf[i]] = "bad_signature"
      BY <1>1, <1>2, <2>1 DEF LoopDone, Did
    <3> QED  BY <1>1, <2>1, <3>1
  <2>2. CASE i = Xbl /\ HasXbl
    BY <1>2, <2>2 DEF XblInv, XblSwitched, BootCopy
  <2> QED  BY <2>1, <2>2 DEF AllImages
<1>3. ASSUME granted = UPDATE_BACKUP, NEW i \in AllImages
      PROVE  BootCopy(i) = "main"
  <2>1. CASE i \in Images
    <3>1. prim[LunOf[i]] = "ok"
      BY <1>1, <1>3, <2>1 DEF LoopDone, Did
    <3> QED  BY <1>1, <2>1, <3>1
  <2>2. CASE i = Xbl /\ HasXbl
    BY <1>3, <2>2 DEF XblInv, XblSwitched, BootCopy
  <2> QED  BY <2>1, <2>2 DEF AllImages
<1> QED  BY <1>2, <1>3 DEF ReadyForUpdate

\* When a stage returned 0 the device boots from none of the copies that the updater
\* goes on to rewrite, be it a stage that was run or one that was already set.
THEOREM ReadyForUpdateHolds ==
  ASSUME ~ShortWrites, ~StatFails, XblResumed
  PROVE  Spec => []ReadyForUpdate
  BY ReadyInv, ChainInvariant, LoopInvariant, XblInvariant, PTL

\* No image is ever booted from a copy that is half written, also when array writes
\* are silently cut: a secondary array that was cut does not fit its header.
THEOREM BootChainIntactHolds ==
  ASSUME ~StatFails, XblResumed
  PROVE  Spec => []BootChainIntact
<1>1. CrcInv /\ TornApart /\ XblInv => BootChainIntact
  <2> SUFFICES ASSUME CrcInv, TornApart, XblInv, NEW i \in AllImages,
                      <<i, BootCopy(i)>> \in torn
               PROVE  FALSE
    BY DEF BootChainIntact
  <2>1. CASE i \in Images
    <3>1. i # Xbl /\ LunOf[i] \in Luns /\ i \in On(LunOf[i])
      BY <2>1, UpdateAssumption DEF On
    <3>2. BootCopy(i) \in Copies
      BY DEF CrcInv, IInv, TornOK
    <3>3. BootCopy(i) = "main" => prim[LunOf[i]] = "ok" \/ secCrc[i] = "main"
      BY <3>1 DEF BootCopy, PrimValid, SecValid
    <3>4. BootCopy(i) = "bak" => prim[LunOf[i]] # "ok" \/ sec[LunOf[i]] = "ok"
      BY <3>1 DEF BootCopy, PrimValid, SecValid
    <3> QED  BY <2>1, <3>2, <3>3, <3>4 DEF TornApart, CrcInv, CrcOrder, Copies
  <2>2. CASE i = Xbl /\ HasXbl
    <3>1. XblTorn(bootLun) /\ bootLun \in {"main", "bak"} /\ goal \in Stages /\ XblPhase
      BY <2>2 DEF XblTorn, BootCopy, XblInv, CrcInv, IInv, DiskOK, CallOK, Copies
    <3> QED  BY <3>1 DEF XblPhase, Stages
  <2> QED  BY <2>1, <2>2 DEF AllImages
<1> QED  BY <1>1, CrcInvariant, LoopInvariant, XblInvariant, PTL

-----------------------------------------------------------------------------
(* The refinement of BootChain. *)

Boot == [i \in AllImages |-> BootCopy(i)]

BootedAsHeaders ==
    /\ \A i \in Images :
         /\ LunOf[i] \in Luns
         /\ i # Xbl
         /\ Boot[i] = IF prim[LunOf[i]] = "ok" THEN "main" ELSE "bak"
    /\ HasXbl => Boot[Xbl] = bootLun
    /\ bootLun \in Copies

LEMMA BootedNow == ChainInv => BootedAsHeaders
<1> SUFFICES ASSUME ChainInv PROVE BootedAsHeaders
  OBVIOUS
<1>1. \A i \in Images : i \in AllImages /\ LunOf[i] \in Luns /\ i # Xbl
  BY UpdateAssumption DEF AllImages
<1>2. HasXbl => Xbl \in AllImages
  BY DEF AllImages
<1>3. bootLun \in Copies /\ BootCopy(Xbl) = bootLun
  BY DEF ChainInv, IInv, DiskOK, BootCopy
<1>4. \A i \in Images : BootCopy(i) = IF prim[LunOf[i]] = "ok" THEN "main" ELSE "bak"
  BY Booted DEF ChainInv
<1> QED  BY <1>1, <1>2, <1>3, <1>4 DEF BootedAsHeaders, Boot

LEMMA BootedThen == ChainInv' => BootedAsHeaders'
  BY BootedNow, PTL

Unit == [i \in AllImages |-> IF i = Xbl THEN 0 ELSE LunOf[i]]

\* A step that moves one unit over to copies that are whole, or nothing at all.
LEMMA FlipStep ==
  ASSUME NEW i \in AllImages, NEW c \in Copies, torn' = torn,
         \A j \in AllImages : Unit[j] = Unit[i] => <<j, c>> \notin torn /\ Boot'[j] = c,
         \A j \in AllImages : Unit[j] # Unit[i] => Boot'[j] = Boot[j]
  PROVE  Chain!Next
<1>1. Boot' = [j \in AllImages |-> IF Unit[j] = Unit[i] THEN c ELSE Boot[j]]
  BY DEF Boot
<1>2. Chain!Flip(Unit[i], c)
  BY <1>1 DEF Chain!Flip, Unit, Boot
<1>3. c \in Chain!Copies
  BY DEF Copies, Chain!Copies
<1> QED  BY <1>2, <1>3 DEF Chain!Next, Unit

LEMMA UpdaterChain ==
  ASSUME IInv, ReadyForUpdate, Boot' = Boot, NEW i \in AllImages, StartFlash(i) \/ EndFlash(i)
  PROVE  Chain!Next
<1>1. Rewritten \in Chain!Copies
  BY DEF Rewritten, Chain!Copies
<1>2. CASE StartFlash(i)
  <2>1. granted \in {UPDATE_MAIN, UPDATE_BACKUP}
    BY <1>2 DEF StartFlash, IInv, CallOK
  <2>2. BootCopy(i) # Rewritten
    BY <2>1 DEF ReadyForUpdate, Rewritten, UPDATE_MAIN, UPDATE_BACKUP
  <2>3. Chain!StartFlash(i, Rewritten)
    BY <1>2, <2>2 DEF StartFlash, Chain!StartFlash, Boot
  <2> QED  BY <1>1, <2>3 DEF Chain!Next
<1>3. CASE EndFlash(i)
  <2>1. Chain!EndFlash(i, Rewritten)
    BY <1>3 DEF EndFlash, Chain!EndFlash, Boot
  <2> QED  BY <1>1, <2>1 DEF Chain!Next
<1> QED  BY <1>2, <1>3

\* A header that turns good or bad takes the images of its LUN along.
LEMMA HeaderChain ==
  ASSUME IInv, Headers, TornApart, BootedAsHeaders, BootedAsHeaders', torn' = torn,
         bootLun' = bootLun, pc \in {"prim_bad", "prim_ok"},
         \A l \in Luns : prim'[l] # prim[l] => l = lun, NEW k, k = lun
  PROVE  Chain!Next \/ Boot' = Boot
<1> USE DEF UPDATE_MAIN, UPDATE_BACKUP, UPDATE_FINALIZE
<1>1. /\ k \in Luns /\ pc # "idle" /\ k \in Nat \ {0}
      /\ pc = "prim_bad" => stage = UPDATE_MAIN /\ prim[k] = "ok" /\ sec[k] = "ok"
      /\ pc = "prim_ok" => stage = UPDATE_BACKUP /\ prim[k] # "ok"
  BY DEF IInv, CallOK, Control, RunsIn, Headers, HeadersAtStep, Luns
<1>2. \A j \in AllImages : j \in Images \/ (j = Xbl /\ HasXbl)
  BY DEF AllImages
<1>3. \A j \in AllImages : (j = Xbl \/ LunOf[j] # k) => Boot'[j] = Boot[j]
  BY <1>2 DEF BootedAsHeaders
<1>4. CASE (prim'[k] = "ok" <=> prim[k] = "ok") \/ \A j \in Images : LunOf[j] # k
  <2>1. \A j \in AllImages : Boot'[j] = Boot[j]
    BY <1>2, <1>3, <1>4 DEF BootedAsHeaders
  <2> QED  BY <2>1 DEF Boot
<1>5. ASSUME ~(prim'[k] = "ok" <=> prim[k] = "ok"), NEW i \in Images, LunOf[i] = k
      PROVE  Chain!Next
  <2>1. PICK c \in Copies : c = IF pc = "prim_bad" THEN "bak" ELSE "main"
    BY DEF Copies
  <2>2. i \in AllImages /\ Unit[i] = k
    BY <1>5 DEF AllImages, Unit, BootedAsHeaders
  <2>3. \A j \in AllImages : Unit[j] = k <=> j # Xbl /\ LunOf[j] = k
    BY <1>1 DEF Unit
  <2>4. ASSUME NEW j \in AllImages, Unit[j] = k
        PROVE  <<j, c>> \notin torn /\ Boot'[j] = c
    <3>1. j \in Images /\ LunOf[j] = k
      BY <1>2, <2>3, <2>4
    <3>2. Boot'[j] = c
      BY <1>1, <1>5, <2>1, <3>1 DEF BootedAsHeaders
    <3>3. <<j, c>> \notin torn
      BY <1>1, <2>1, <2>4, <3>1 DEF TornApart, MayCall
    <3> QED  BY <3>2, <3>3
  <2> QED  BY <1>3, <2>2, <2>3, <2>4, FlipStep
<1> QED  BY <1>4, <1>5

LEMMA ChainStep ==
  ASSUME ~ShortWrites, IInv, Headers, BootedAsHeaders, BootedAsHeaders',
         LoopDone, TornApart, XblInv, ReadyForUpdate, [Next]_vars
  PROVE  [Chain!Next]_<<Boot, torn>>
<1>1. \A j \in AllImages : j \in Images \/ (j = Xbl /\ HasXbl)
  BY DEF AllImages
<1>2. Boot' = Boot \/ pc \in {"prim_bad", "prim_ok"} \/ (bootLun' # bootLun /\ HasXbl)
  <2> SUFFICES ASSUME pc \notin {"prim_bad", "prim_ok"}, bootLun' = bootLun \/ ~HasXbl
               PROVE  Boot' = Boot
    OBVIOUS
  <2>1. \A j \in AllImages : Boot'[j] = Boot[j]
    BY <1>1, Moves DEF BootedAsHeaders
  <2> QED  BY <2>1 DEF Boot
<1>3. CASE pc \in {"prim_bad", "prim_ok"}
  <2>1. torn' = torn /\ bootLun' = bootLun /\ \A l \in Luns : prim'[l] # prim[l] => l = lun
    BY <1>3, Moves, TornMoves
  <2> QED  BY <1>3, <2>1, HeaderChain
<1>4. CASE bootLun' # bootLun /\ HasXbl
  <2>1. pc = "xbl" /\ bootLun' = XblTarget
    BY <1>4, Moves
  <2>2. torn' = torn /\ goal = stage /\ stage \in {UPDATE_MAIN, UPDATE_BACKUP}
    BY <1>4, <2>1, TornMoves DEF XblInv, XblPhase, IInv, CallOK, Control, RunsIn
  <2>3. Xbl \in AllImages /\ Unit[Xbl] = 0
    BY <1>4 DEF AllImages, Unit
  <2>4. \A j \in AllImages : Unit[j] = 0 <=> j = Xbl
    BY <1>1 DEF Unit, BootedAsHeaders, Luns
  <2>5. <<Xbl, XblTarget>> \notin torn /\ Boot'[Xbl] = XblTarget /\ XblTarget \in Copies
    BY <1>4, <2>1, <2>2
       DEF XblInv, XblPhase, XblTorn, XblTarget, BootedAsHeaders, Copies, UPDATE_MAIN,
           UPDATE_BACKUP, UPDATE_FINALIZE
  <2>6. \A j \in AllImages : j # Xbl => Boot'[j] = Boot[j]
    BY <1>1, <2>1, Moves DEF BootedAsHeaders
  <2> QED  BY <2>2, <2>3, <2>4, <2>5, <2>6, FlipStep
<1>5. CASE Boot' = Boot
  <2>1. CASE torn' = torn
    BY <1>5, <2>1
  <2>2. CASE torn' # torn
    BY <1>5, <2>2, TornMoves, UpdaterChain
  <2> QED  BY <2>1, <2>2
<1> QED  BY <1>2, <1>3, <1>4, <1>5

\* The library implements BootChain: every step flips the images of one LUN, or XBL,
\* together and to copies that are whole, and a copy is only written while the other
\* one is booted.
THEOREM BootChainImplemented ==
  ASSUME ~ShortWrites, ~StatFails, XblResumed
  PROVE  Spec => BootChainSpec
<1>1. Init /\ BootedAsHeaders => Chain!Init
  <2> SUFFICES ASSUME Init, BootedAsHeaders PROVE Chain!Init
    OBVIOUS
  <2>1. \A j \in AllImages : Boot[j] \in Copies
    BY DEF BootedAsHeaders, AllImages, Copies
  <2>2. Boot \in [AllImages -> Copies]
    BY <2>1 DEF Boot
  <2> QED  BY <2>2 DEF Init, Chain!Init, Boot, Copies, Chain!Copies
<1>2. ChainInv => IInv /\ Headers
  BY DEF ChainInv
<1>3. ChainInv /\ LoopDone /\ XblInv => ReadyForUpdate
  BY ReadyInv
<1>4. IInv /\ Headers /\ BootedAsHeaders /\ BootedAsHeaders' /\ LoopDone /\ TornApart /\ XblInv
      /\ ReadyForUpdate /\ [Next]_vars => [Chain!Next]_<<Boot, torn>>
  BY ChainStep
<1>5. BootChainSpec <=> Chain!Init /\ [][Chain!Next]_<<Boot, torn>>
  BY DEF BootChainSpec, Chain!Spec, Boot
<1> QED
  BY <1>1, <1>2, <1>3, <1>4, <1>5, BootedNow, BootedThen, ChainInvariant, LoopInvariant,
     XblInvariant, PTL DEF Spec

-----------------------------------------------------------------------------
(* An updater that follows the stages and meets no failure. *)

\* The headers of a LUN before stage s.
Before(l, s) ==
    /\ prim[l] = IF s = UPDATE_BACKUP THEN "bad_signature" ELSE "ok"
    /\ sec[l] = IF s = UPDATE_FINALIZE THEN "bad_signature" ELSE "ok"

\* An updater that follows the stages and meets no failure: the LUNs that are done
\* are where the next stage expects them, the others where this one does.
InStep ==
    /\ ret # "error" /\ ~isError
    /\ pc # "idle" => goal = stage
    /\ pc = "idle" =>
         \A l \in Luns : Before(l, IF granted = NoStage THEN goal ELSE NextStage(granted))
    /\ pc = "idle" /\ granted = NoStage => MayCall(goal)
    /\ pc # "idle" =>
         /\ listed = Luns
         /\ \A l \in Luns : l < lun => Before(l, NextStage(stage))
         /\ \A l \in Luns : l > lun => Before(l, stage)
         /\ lun # 0 /\ pc # "sec_bad" => Before(lun, stage)
         /\ pc = "sec_bad" => prim[lun] = "ok" /\ sec[lun] = "ok"
         /\ lun = 0 => Luns = {}

LEMMA InitInStep ==
  ASSUME Init
  PROVE  InStep
  BY DEF Init, InStep, Before, MayCall, NoStage, UPDATE_MAIN, UPDATE_BACKUP, UPDATE_FINALIZE

\* The headers before a stage are those that prepare_partitions reads it from.
LEMMA BeforeStage ==
  ASSUME NEW l, NEW s \in Stages, Before(l, s)
  PROVE  ~Unacceptable(l) /\ InternalStage(l) = s
  BY DEF Before, Unacceptable, InternalStage, Stages, UPDATE_MAIN, UPDATE_BACKUP, UPDATE_FINALIZE

\* A call that returns 0 leaves every LUN where the next stage expects it.
LEMMA ReturnInStep ==
  ASSUME CallOK, pc # "idle", Return(TRUE), NEW s, s = stage,
         \A l \in Luns : Before(l, NextStage(s))'
  PROVE  InStep'
<1> USE DEF NoStage, UPDATE_MAIN, UPDATE_BACKUP, UPDATE_FINALIZE
<1>1. s \in Stages
  BY DEF CallOK, Control, RunsIn
<1>2. /\ ret' = "ok" /\ ~isError' /\ pc' = "idle"
      /\ granted' = (IF s # UPDATE_FINALIZE THEN s ELSE NoStage)
      /\ goal' = (IF s = UPDATE_FINALIZE THEN UPDATE_MAIN ELSE s)
  BY DEF Return
<1>3. NextStage(s) = IF granted' = NoStage THEN goal' ELSE NextStage(granted')
  BY <1>1, <1>2 DEF NextStage, Stages
<1>4. granted' = NoStage => MayCall(goal)'
  BY <1>1, <1>2 DEF MayCall, Stages
<1>5. PICK n : n = NextStage(s)
  OBVIOUS
<1>6. \A l \in Luns : Before(l, IF granted = NoStage THEN goal ELSE NextStage(granted))'
  BY <1>3 DEF Before, NextStage
<1> QED  BY <1>2, <1>4, <1>6 DEF InStep

LEMMA AdvanceInStep ==
  ASSUME IInv, InStep, pc # "idle", lun \in Luns, LunDone(TRUE), NEW k, k = lun, NEW s, s = stage,
         \A l \in Luns \ {k} : prim'[l] = prim[l] /\ sec'[l] = sec[l],
         Before(k, NextStage(s))'
  PROVE  InStep'
<1>1. listed = Luns /\ ~isError /\ Luns \subseteq Nat \ {0} /\ k \in Nat
  BY DEF InStep, IInv, CallOK, Luns
<1>2. ASSUME NEW l \in Luns, l =< k
      PROVE  Before(l, NextStage(s))'
  <2>1. CASE l = k
    BY <2>1
  <2>2. CASE l # k
    <3>1. Before(l, NextStage(s))
      BY <1>1, <1>2, <2>2 DEF InStep
    <3> QED  BY <2>2, <3>1 DEF Before
  <2> QED  BY <2>1, <2>2
<1>3. CASE LunsAfter(lun) = {}
  <2>1. \A l \in Luns : l =< k
    BY <1>1, <1>3 DEF LunsAfter
  <2>2. (TRUE /\ ~isError) = TRUE
    BY <1>1
  <2>3. Return(TRUE)
    BY <1>3, <2>2 DEF LunDone
  <2> QED  BY <1>2, <2>1, <2>3, ReturnInStep DEF IInv
<1>4. CASE LunsAfter(lun) # {}
  <2>1. /\ pc' = "open" /\ lun' = Min(LunsAfter(lun)) /\ (isError' => isError)
        /\ listed' = listed /\ stage' = stage /\ ret' = ret /\ goal' = goal
    BY <1>1, <1>4 DEF LunDone
  <2>2. LunsAfter(lun) \subseteq Nat /\ LunsAfter(lun) \subseteq Luns
    BY <1>1 DEF LunsAfter
  <2>3. lun' \in LunsAfter(lun)
    BY <1>4, <2>1, <2>2, MinIn
  <2>4. lun' \in Luns /\ lun' \in Nat \ {0} /\ lun' > k
    BY <1>1, <2>3 DEF LunsAfter
  <2>5. \A l \in Luns : l < lun' => l =< k
    <3> TAKE l \in Luns
    <3>1. l \in LunsAfter(lun) => lun' =< l
      BY <2>1, <2>2, MinLeast
    <3> QED  BY <1>1, <2>4, <3>1 DEF LunsAfter
  <2>6. \A l \in Luns : l < lun' => Before(l, NextStage(s))'
    BY <1>2, <2>5
  <2>7. \A l \in Luns : l >= lun' => Before(l, s)'
    <3> SUFFICES ASSUME NEW l \in Luns, l >= lun' PROVE Before(l, s)'
      OBVIOUS
    <3>1. l > k /\ l # k
      BY <1>1, <2>4
    <3>2. Before(l, s)
      BY <3>1 DEF InStep
    <3> QED  BY <3>1, <3>2 DEF Before
  <2>8. /\ \A l \in Luns : l < lun' => Before(l, NextStage(stage))'
        /\ \A l \in Luns : l > lun' => Before(l, stage)'
        /\ Before(lun, stage)'
    <3>1. \A l \in Luns : l > lun' => l >= lun'
      BY <1>1, <2>4
    <3>2. lun' >= lun'
      BY <2>4
    <3>3. \A l \in Luns : l < lun' => Before(l, NextStage(stage))'
      BY <2>1, <2>6 DEF Before, NextStage
    <3>4. \A l \in Luns : l >= lun' => Before(l, stage)'
      BY <2>1, <2>7 DEF Before
    <3>5. Before(lun, stage)'
      BY <2>4, <3>2, <3>4
    <3> QED  BY <3>1, <3>3, <3>4, <3>5
  <2>9. goal = stage /\ ret # "error"
    BY DEF InStep
  <2> QED  BY <1>1, <2>1, <2>4, <2>8, <2>9 DEF InStep
<1> QED  BY <1>3, <1>4

\* A step that goes on with the same LUN and touches no header of another one.
LEMMA StayInStep ==
  ASSUME InStep, pc # "idle", NEW place, place # "idle", GoTo(place), NEW k, k = lun,
         k \in Luns, Luns \subseteq Nat, NEW s, s = stage,
         \A l \in Luns \ {k} : prim'[l] = prim[l] /\ sec'[l] = sec[l],
         IF place = "sec_bad" THEN prim'[k] = "ok" /\ sec'[k] = "ok"
                              ELSE pc # "sec_bad" /\ prim' = prim /\ sec' = sec
  PROVE  InStep'
<1>1. /\ pc' = place /\ lun' = k /\ stage' = s /\ listed' = listed /\ isError' = isError
      /\ ret' = ret /\ goal' = goal
  BY DEF GoTo
<1>2. \A l \in Luns : l < k => Before(l, NextStage(s))'
  BY DEF InStep, Before
<1>3. \A l \in Luns : l > k => Before(l, s)'
  BY DEF InStep, Before
<1>4. place # "sec_bad" /\ k # 0 => Before(k, s)'
  BY DEF InStep, Before
<1>5. /\ \A l \in Luns : l < lun' => Before(l, NextStage(stage))'
      /\ \A l \in Luns : l > lun' => Before(l, stage)'
      /\ lun' # 0 /\ pc' # "sec_bad" => Before(lun, stage)'
  BY <1>1, <1>2, <1>3, <1>4 DEF Before, NextStage
<1>6. goal = stage /\ ret # "error" /\ listed = Luns /\ (k = 0 => Luns = {}) /\ ~isError
  BY DEF InStep
<1> QED  BY <1>1, <1>5, <1>6 DEF InStep

\* Faults are counted, never taken back.
LEMMA FirstFault ==
  ASSUME IInv, [Next]_vars, faults' = 0
  PROVE  faults = 0
<1>1. faults \in Nat
  BY UpdateAssumption DEF IInv
<1>2. faults' = faults \/ \E b \in BOOLEAN : Fault(b)
  BY DEF Next, Steps, Updater, PrepareBootUpdate, StartFlash, EndFlash, StageDone, Skip,
         NoLuns, OpenFails, AlreadySet, Begin, SetXbl, XblNotFound, ChainRefused,
         WriteSecHeader, WriteSecArray, WriteSecArrayShort, SetPrimState, SetSecState,
         StepFails, Crash, vars
<1> QED  BY <1>1, <1>2 DEF Fault

LEMMA UpdaterInStep ==
  ASSUME Client # "any", IInv, InStep, faults = 0, faults' = 0, Updater
  PROVE  InStep'
<1> USE DEF NoStage, UPDATE_MAIN, UPDATE_BACKUP, UPDATE_FINALIZE
<1>1. CASE \E s \in Stages : PrepareBootUpdate(s)
  <2>1. PICK s \in Stages : PrepareBootUpdate(s)
    BY <1>1
  <2>2. /\ pc = "idle" /\ granted = NoStage /\ goal = s /\ goal' = s /\ stage' = s
        /\ pc' = "open" /\ ret' = "none" /\ isError' = FALSE /\ prim' = prim /\ sec' = sec
    BY <2>1 DEF PrepareBootUpdate, gpts
  <2>3. listed' = Luns
    BY <2>1 DEF PrepareBootUpdate, Fault
  <2>4. lun' = IF Luns = {} THEN 0 ELSE Min(Luns)
    BY <2>1, <2>3 DEF PrepareBootUpdate
  <2>5. Luns \subseteq Nat \ {0}
    BY DEF Luns
  <2>6. \A l \in Luns : Before(l, s)'
    BY <2>2 DEF InStep, Before
  <2>7. \A l \in Luns : ~(l < lun')
    <3> TAKE l \in Luns
    <3>1. l \in Nat /\ lun' \in Nat /\ lun' =< l
      BY <2>4, <2>5, MinLeast
    <3> QED  BY <3>1
  <2>8. lun' = 0 \/ lun' \in Luns
    BY <2>4, <2>5, MinIn
  <2>9. lun' = 0 => Luns = {}
    BY <2>4, <2>5, MinIn
  <2>10. /\ \A l \in Luns : l > lun' => Before(l, stage)'
         /\ lun' # 0 => Before(lun, stage)'
    BY <2>2, <2>6, <2>8 DEF Before
  <2> QED  BY <2>2, <2>3, <2>7, <2>9, <2>10 DEF InStep
<1>2. CASE \E i \in AllImages : StartFlash(i) \/ EndFlash(i)
  <2>1. /\ pc = "idle" /\ pc' = "idle" /\ granted # NoStage /\ granted' = granted
        /\ ret' = ret /\ isError' = isError /\ prim' = prim /\ sec' = sec
    BY <1>2 DEF StartFlash, EndFlash, call, gpts
  <2>2. \A l \in Luns : Before(l, NextStage(granted))'
    BY <2>1 DEF InStep, Before, NextStage
  <2> QED  BY <2>1, <2>2 DEF InStep
<1>3. CASE StageDone
  <2>1. /\ pc = "idle" /\ pc' = "idle" /\ granted # NoStage /\ granted' = NoStage
        /\ goal' = NextStage(granted) /\ MayCall(NextStage(granted)) /\ torn' = torn
        /\ ret' = ret /\ isError' = isError /\ prim' = prim /\ sec' = sec
    BY <1>3 DEF StageDone, call, gpts
  <2>2. \A l \in Luns : Before(l, goal)'
    BY <2>1 DEF InStep, Before, NextStage
  <2>3. MayCall(goal)'
    BY <2>1 DEF MayCall
  <2> QED  BY <2>1, <2>2, <2>3 DEF InStep
<1>4. CASE Skip
  BY <1>4 DEF Skip, InStep
<1> QED  BY <1>1, <1>2, <1>3, <1>4 DEF Updater

LEMMA NextInStep ==
  ASSUME Client # "any", \A l \in Luns : On(l) # {}, \A l \in Luns : primArrOk[l],
         IInv, InStep, faults' = 0, [Next]_vars
  PROVE  InStep'
<1> USE DEF NoStage, UPDATE_MAIN, UPDATE_BACKUP, UPDATE_FINALIZE
<1>1. faults = 0 /\ ~StepFails /\ ~Crash /\ ~XblNotFound /\ ~WriteSecArrayShort
  <2>1. faults = 0
    BY FirstFault
  <2>2. ~Fault(TRUE)
    BY <2>1 DEF Fault
  <2> QED  BY <2>1, <2>2 DEF StepFails, Crash, XblNotFound, WriteSecArrayShort
<1>2. PICK k, s : k = lun /\ s = stage
  OBVIOUS
<1>3. /\ pc # "idle" => s \in Stages
      /\ pc \notin {"idle", "open"} => k \in Luns
      /\ pc = "open" /\ lun # 0 => k \in Luns
      /\ Luns \subseteq Nat /\ 0 \notin Luns
  BY <1>2 DEF IInv, CallOK, Control, RunsIn, Luns
<1>4. CASE NoLuns
  <2>1. Luns = {} /\ pc # "idle" /\ Return(TRUE)
    BY <1>4 DEF NoLuns, InStep
  <2> QED  BY <2>1, ReturnInStep DEF IInv
<1>5. pc \notin {"idle", "sec_bad"} /\ lun # 0 => Before(k, s)
  BY <1>2 DEF InStep
<1>6. pc = "open" /\ lun # 0 => ~Unacceptable(lun) /\ InternalStage(lun) = stage
  BY <1>2, <1>3, <1>5, BeforeStage
<1>7. ~AlreadySet
  <2> SUFFICES ASSUME AlreadySet PROVE FALSE
    OBVIOUS
  <2>1. stage = stage - 1 /\ stage \in Nat
    BY <1>2, <1>3, <1>6 DEF AlreadySet, Stages
  <2> QED  BY <2>1
<1>8. ~OpenFails
  <2> SUFFICES ASSUME OpenFails PROVE FALSE
    OBVIOUS
  <2>1. Fault(TRUE)
    BY <1>6 DEF OpenFails
  <2> QED  BY <1>1, <2>1 DEF Fault
<1>9. ~ChainRefused
  BY <1>2, <1>3 DEF ChainRefused, WillWriteChain
<1>10. CASE Begin \/ SetXbl \/ WriteSecHeader \/ WriteSecArray
  <2>1. PICK place : place \notin {"idle", "sec_bad"} /\ GoTo(place)
    BY <1>10 DEF Begin, FirstStep, SetXbl, WriteSecHeader, WriteSecArray, AfterChain
  <2>2. pc \notin {"idle", "sec_bad"} /\ prim' = prim /\ sec' = sec /\ k \in Luns
    BY <1>2, <1>3, <1>10 DEF Begin, SetXbl, WriteSecHeader, WriteSecArray, gpts
  <2> QED  BY <1>2, <1>3, <2>1, <2>2, StayInStep
<1>11. CASE SetPrimState
  <2>1. /\ pc \in {"prim_bad", "prim_ok"} /\ k \in Luns /\ sec' = sec
        /\ prim' = [prim EXCEPT ![k] = StateTarget]
        /\ \A l \in Luns \ {k} : prim'[l] = prim[l] /\ sec'[l] = sec[l]
    BY <1>2, <1>3, <1>11 DEF SetPrimState, IInv, DiskOK
  <2>2. prim'[k] = StateTarget /\ Before(k, s)
    BY <1>2, <1>3, <1>5, <2>1 DEF IInv, DiskOK
  <2>3. CASE pc = "prim_bad"
    <3>1. s = UPDATE_MAIN /\ LunDone(TRUE)
      BY <1>2, <1>11, <2>3 DEF SetPrimState, IInv, CallOK, Control, RunsIn
    <3>2. Before(k, NextStage(s))'
      BY <2>1, <2>2, <2>3, <3>1 DEF Before, NextStage, StateTarget
    <3> QED  BY <1>2, <2>1, <3>1, <3>2, AdvanceInStep
  <2>4. CASE pc = "prim_ok"
    <3>1. s = UPDATE_BACKUP /\ GoTo("sec_bad")
      BY <1>2, <1>11, <2>4 DEF SetPrimState, IInv, CallOK, Control, RunsIn
    <3>2. prim'[k] = "ok" /\ sec'[k] = "ok"
      BY <2>1, <2>2, <2>4, <3>1 DEF Before, StateTarget
    <3> QED  BY <1>2, <1>3, <2>1, <3>1, <3>2, StayInStep
  <2> QED  BY <2>1, <2>3, <2>4
<1>12. CASE SetSecState
  <2>1. /\ pc \in {"sec_bad", "sec_ok"} /\ k \in Luns /\ prim' = prim /\ LunDone(TRUE)
        /\ sec' = [sec EXCEPT ![k] = StateTarget]
        /\ \A l \in Luns \ {k} : prim'[l] = prim[l] /\ sec'[l] = sec[l]
    BY <1>2, <1>3, <1>12 DEF SetSecState, IInv, DiskOK
  <2>2. sec'[k] = StateTarget
    BY <2>1 DEF IInv, DiskOK
  <2>3. prim[k] = "ok"
    BY <1>2, <1>3, <1>5, <2>1 DEF InStep, Before, IInv, CallOK, Control, RunsIn
  <2>4. s = IF pc = "sec_bad" THEN UPDATE_BACKUP ELSE UPDATE_FINALIZE
    BY <1>2, <2>1 DEF IInv, CallOK, Control, RunsIn
  <2>5. Before(k, NextStage(s))'
    BY <2>1, <2>2, <2>3, <2>4 DEF Before, NextStage, StateTarget
  <2> QED  BY <1>2, <2>1, <2>5, AdvanceInStep
<1>13. CASE Updater
  BY <1>1, <1>13, UpdaterInStep
<1>14. CASE UNCHANGED vars
  BY <1>14 DEF vars, InStep, Before, NextStage, MayCall
<1> QED
  BY <1>1, <1>4, <1>7, <1>8, <1>9, <1>10, <1>11, <1>12, <1>13, <1>14 DEF Next, Steps

\* Without faults and on undamaged tables an updater that follows the stages is never
\* refused, if every LUN has an image with a twin.  A LUN without one stays at
\* UPDATE_MAIN ("do not flag error", gpt-utils.cpp:847) and refuses UPDATE_BACKUP.
THEOREM NeverRefusedHolds ==
  ASSUME Client # "any", \A l \in Luns : On(l) # {}
  PROVE  Spec => []NeverRefused
<1> DEFINE Calm == faults = 0 /\ (\A l \in Luns : primArrOk[l]) => InStep
<1>1. Init => Calm
  BY InitInStep
<1>2. IInv /\ Calm /\ [Next]_vars => Calm'
  <2> SUFFICES ASSUME IInv, Calm, [Next]_vars, faults' = 0, \A l \in Luns : primArrOk'[l]
               PROVE  InStep'
    OBVIOUS
  <2>1. primArrOk' = primArrOk
    BY DEF Next, Steps, Updater, PrepareBootUpdate, StartFlash, EndFlash, StageDone, Skip,
           NoLuns, OpenFails, AlreadySet, Begin, SetXbl, XblNotFound, ChainRefused,
           WriteSecHeader, WriteSecArray, WriteSecArrayShort, SetPrimState, SetSecState,
           StepFails, Crash, CutWrite, gpts, vars
  <2>2. faults = 0
    BY FirstFault
  <2> QED  BY <2>1, <2>2, NextInStep
<1>3. Calm => NeverRefused
  BY DEF InStep, NeverRefused
<1> QED  BY <1>1, <1>2, <1>3, InductiveInvariant, PTL DEF Spec
=============================================================================
