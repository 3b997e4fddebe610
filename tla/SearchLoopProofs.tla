-------------------------- MODULE SearchLoopProofs --------------------------
(***************************************************************************)
(* The driver's search loop finds the best match, for every number of      *)
(* vectors and every assignment of scores, NaN included, and to the other  *)
(* ioctls START is a single step of the device.                            *)
(***************************************************************************)
EXTENDS SearchLoop, TLAPS

\* One iteration of the loop extends the answer from the first n scores to
\* the first n + 1 (the comparison dot > max_score of sppu_emu_run_search).
LEMMA OneMore ==
  ASSUME NEW n \in Nat, NEW s, \A j \in 0..n : s[j] \in Score,
         NEW idx, NEW best \in Int, IsBest(s, n, idx, best)
  PROVE  /\ Above(s[n], best) => IsBest(s, n + 1, n, s[n])
         /\ ~Above(s[n], best) => IsBest(s, n + 1, idx, best)
<1>. USE ScoreAssumption DEF Score, Above
<1>1. \A j \in 0..(n+1)-1 : j \in 0..n-1 \/ j = n
  OBVIOUS
<1>2. ASSUME Above(s[n], best) PROVE IsBest(s, n + 1, n, s[n])
  <2>1. s[n] \in Int /\ s[n] > best
    BY <1>2
  <2>2. best >= Floor
    BY DEF IsBest
  <2>3. \A j \in 0..n-1 : s[j] = NaN \/ (s[j] \in Int /\ s[j] <= best)
    <3>. SUFFICES ASSUME NEW j \in 0..n-1, s[j] # NaN
                  PROVE  s[j] \in Int /\ s[j] <= best
      OBVIOUS
    <3>1. s[j] \in Int
      OBVIOUS
    <3>2. ~Above(s[j], best)
      BY DEF IsBest
    <3>. QED
      BY <3>1, <3>2
  <2>. QED
    BY <2>1, <2>2, <2>3, <1>1 DEF IsBest
<1>3. ASSUME ~Above(s[n], best) PROVE IsBest(s, n + 1, idx, best)
  <2>1. CASE idx = NoIndex /\ best = Floor
             /\ \A j \in 0..n-1 : ~Above(s[j], Floor)
    BY <2>1, <1>1, <1>3 DEF IsBest
  <2>2. CASE /\ idx \in 0..n-1 /\ best = s[idx] /\ Above(best, Floor)
             /\ \A j \in 0..n-1 : ~Above(s[j], best)
             /\ \A j \in 0..idx-1 : Above(best, s[j]) \/ s[j] = NaN
    <3>1. idx \in 0..(n+1)-1
      BY <2>2
    <3>2. \A j \in 0..(n+1)-1 : ~Above(s[j], best)
      BY <2>2, <1>1, <1>3
    <3>. QED
      BY <2>2, <3>1, <3>2 DEF IsBest
  <2>. QED
    BY <2>1, <2>2 DEF IsBest
<1>. QED
  BY <1>2, <1>3

(***************************************************************************)
(* The loop invariant, with the facts that make it inductive: STATUS is    *)
(* BUSY, and CTRL what START wrote, exactly while START holds the lock.    *)
(***************************************************************************)
LoopInv ==
  /\ TypeOK
  /\ status = "BUSY" <=> pc = "loop"
  /\ pc = "loop" => ctrl = "START"
  /\ BestSoFar

\* The score of a vector of the bank.
LEMMA BankScored ==
  ASSUME vec_count \in 0..MaxVectors, dimension \in 0..MaxDimension,
         emu_mem \in [Slots -> Vector], emu_target \in Vector
  PROVE  BankScores \in [Slots -> Score]
BY DriverAssumption DEF BankScores

LEMMA LoopInvInit == Init => LoopInv
<1>. SUFFICES ASSUME Init PROVE LoopInv OBVIOUS
<1>1. 0 \in Slots /\ Floor \in Int BY DriverAssumption, ScoreAssumption DEF Slots
<1>2. [d \in Dims |-> 0] \in Vector BY DriverAssumption DEF Vector
<1>. QED
  BY <1>1, <1>2, DriverAssumption
     DEF Init, DriverInit, NoLocals, Unset, LoopInv, TypeOK, BestSoFar

\* The ioctls that change what a search works on.
LEMMA IoctlTypes ==
  ASSUME TypeOK, Ioctl
  PROVE  /\ ctrl' \in {"none", "START"} /\ status' = status
         /\ vec_count' \in 0..MaxVectors /\ dimension' \in 0..MaxDimension
         /\ UNCHANGED <<result_idx, result_score>>
         /\ emu_mem' \in [Slots -> Vector] /\ emu_target' \in Vector
<1>. USE DEF TypeOK
<1>. DEFINE Goal == /\ ctrl' \in {"none", "START"} /\ status' = status
                    /\ vec_count' \in 0..MaxVectors /\ dimension' \in 0..MaxDimension
                    /\ UNCHANGED <<result_idx, result_score>>
                    /\ emu_mem' \in [Slots -> Vector] /\ emu_target' \in Vector
<1>1. CASE Reset BY <1>1 DEF Reset
<1>2. ASSUME NEW count \in 0..MaxVectors, NEW dim \in 0..MaxDimension, SetParam(count, dim)
      PROVE  Goal
  BY <1>2 DEF SetParam
<1>3. ASSUME NEW old \in Vector, NEW data \in Vector, NEW dim \in 0..MaxDimension
      PROVE  Overwrite(old, data, dim) \in Vector
  BY DriverAssumption DEF Overwrite, Vector, Dims
<1>4. ASSUME NEW data \in Vector, NEW dim \in 0..MaxDimension, SetTarget(data, dim)
      PROVE  Goal
  BY <1>3, <1>4 DEF SetTarget
<1>5. ASSUME NEW index \in Slots, NEW data \in Vector, NEW dim \in 0..MaxDimension,
             LoadVec(index, data, dim)
      PROVE  Goal
  <2>1. Overwrite(emu_mem[index], data, dim) \in Vector BY <1>3
  <2>. QED BY <1>5, <2>1 DEF LoadVec
<1>. QED BY <1>1, <1>2, <1>4, <1>5 DEF Ioctl

LEMMA LoopInvNext == LoopInv /\ [Next]_vars => LoopInv'
<1>. SUFFICES ASSUME LoopInv, [Next]_vars PROVE LoopInv'
  OBVIOUS
<1>. USE DriverAssumption, ScoreAssumption
<1>0. TypeOK /\ BankScores \in [Slots -> Score] BY BankScored DEF LoopInv, TypeOK
<1>1. CASE Prepare
  <2>1. Ioctl /\ pc = "idle" /\ UNCHANGED <<pc, locals, before>> BY <1>1 DEF Prepare
  <2>. QED BY <1>0, <2>1, IoctlTypes DEF LoopInv, TypeOK, BestSoFar, locals
<1>2. CASE Begin
  <2>1. TypeOK' /\ status' = "BUSY" /\ pc' = "loop" /\ ctrl' = "START"
    BY <1>2 DEF Begin, LoopInv, TypeOK
  <2>2. i' <= vec_count' /\ IsBest(BankScores', i', best_index', max_score')
    BY <1>2 DEF Begin, LoopInv, TypeOK, IsBest
  <2>. QED
    BY <2>1, <2>2 DEF BestSoFar, LoopInv
<1>3. CASE Iterate
  <2>1. /\ i \in Nat /\ i + 1 <= vec_count /\ i \in Slots
        /\ \A j \in 0..i : BankScores[j] \in Score
        /\ max_score \in Int /\ IsBest(BankScores, i, best_index, max_score)
    BY <1>0, <1>3 DEF Iterate, LoopInv, TypeOK, BestSoFar, Slots
  <2>2. dot = BankScores[i] /\ BankScores' = BankScores
    BY <1>3, <2>1 DEF Iterate, dot, BankScores, device
  <2>3. IsBest(BankScores, i', best_index', max_score')
    <3>1. CASE Above(dot, max_score)
      BY <1>3, <2>1, <2>2, <3>1, OneMore DEF Iterate
    <3>2. CASE ~Above(dot, max_score)
      BY <1>3, <2>1, <2>2, <3>2, OneMore DEF Iterate
    <3>. QED
      BY <3>1, <3>2
  <2>4. TypeOK'
    <3>1. Above(dot, max_score) => dot \in Int
      BY <2>1, <2>2 DEF Above, Score
    <3>. QED
      BY <1>0, <1>3, <2>1, <3>1 DEF Iterate, TypeOK, device, Slots
  <2>. QED
    BY <1>3, <2>1, <2>2, <2>3, <2>4 DEF Iterate, LoopInv, BestSoFar, TypeOK, device
<1>4. CASE Publish
  <2>1. 0 \in 0..MaxVectors /\ NoIndex \in Slots \cup {NoIndex} OBVIOUS
  <2>. QED BY <1>0, <1>4, <2>1 DEF Publish, LoopInv, TypeOK, BestSoFar, Unset
<1>5. CASE UNCHANGED vars
  <2>1. BankScores' = BankScores BY <1>5 DEF vars, device, BankScores
  <2>. QED BY <1>5, <2>1 DEF vars, device, locals, LoopInv, TypeOK, BestSoFar
<1>. QED
  BY <1>1, <1>2, <1>3, <1>4, <1>5 DEF Next

LEMMA LoopInvariant == Spec => []LoopInv
BY LoopInvInit, LoopInvNext, PTL DEF Spec

\* Every variable of the search keeps its type.
THEOREM SearchTypeCorrect == Spec => []TypeOK
BY LoopInvariant, PTL DEF LoopInv

\* The loop invariant holds at every iteration.
THEOREM LoopKeepsBest == Spec => []BestSoFar
BY LoopInvariant, PTL DEF LoopInv

(***************************************************************************)
(* The refinement.  Begin and the iterations are no steps of the device    *)
(* the other ioctls see; Publish is its Start.                             *)
(***************************************************************************)
LEMMA InitIsDriverInit == Init => Device!DriverInit
BY DEF Init, DriverInit, Device!DriverInit, Device!Slots, Device!Dims, Slots, Dims

LEMMA PrepareIsIoctl == ASSUME Prepare PROVE Device!Ioctl
<1>1. Ioctl /\ pc = "idle" /\ pc' = "idle" BY DEF Prepare
<1>. USE DEF Device!Slots, Device!Dims, Device!Vector, Device!Overwrite,
             Slots, Dims, Vector, Overwrite
<1>2. Reset => Device!Reset BY <1>1 DEF Reset, Device!Reset
<1>3. \A count \in 0..MaxVectors, dim \in 0..MaxDimension :
        SetParam(count, dim) => Device!SetParam(count, dim)
  BY <1>1 DEF SetParam, Device!SetParam
<1>4. \A data, dim : SetTarget(data, dim) => Device!SetTarget(data, dim)
  BY <1>1 DEF SetTarget, Device!SetTarget
<1>5. \A index, data, dim : LoadVec(index, data, dim) => Device!LoadVec(index, data, dim)
  BY <1>1 DEF LoadVec, Device!LoadVec
<1>. QED BY <1>1, <1>2, <1>3, <1>4, <1>5 DEF Ioctl, Device!Ioctl

LEMMA PublishIsStart == ASSUME LoopInv, Publish PROVE Device!Start
<1>1. /\ i = vec_count /\ ctrl = "START" /\ pc' = "idle" /\ vec_count \in Nat
      /\ IsBest(BankScores, vec_count, result_idx', result_score')
  BY DriverAssumption DEF LoopInv, TypeOK, BestSoFar, Publish
<1>2. Device!BankScores = BankScores
  BY DEF BankScores, Device!BankScores, Slots, Device!Slots
<1>3. Device!IsBest(BankScores, vec_count, result_idx', result_score')
  BY <1>1 DEF IsBest, Device!IsBest, Above, Device!Above, NoIndex, Device!NoIndex
<1>4. /\ result_idx' \in {NoIndex} \cup 0..vec_count-1
      /\ result_score' = IF result_idx' = NoIndex THEN Floor ELSE BankScores[result_idx']
  BY <1>1 DEF IsBest, NoIndex
<1>. QED
  BY <1>1, <1>2, <1>3, <1>4 DEF Publish, Device!Start, NoIndex, Device!NoIndex

\* The whole search, done inside the START ioctl under the lock, is the one
\* step SppuDriver and SppuSession take it for, for every number of vectors,
\* dimension and score.
THEOREM StartIsAtomicStep == Spec => StartIsAtomic
<1>1. ASSUME LoopInv, [Next]_vars PROVE [Device!DriverNext]_Device!device
  <2>1. CASE Prepare BY <2>1, PrepareIsIoctl DEF Device!DriverNext
  <2>2. CASE Begin
    BY <2>2 DEF Begin, LoopInv, Device!device
  <2>3. CASE Iterate BY <2>3 DEF Iterate, device, Device!device
  <2>4. CASE Publish BY <1>1, <2>4, PublishIsStart DEF Device!DriverNext
  <2>5. CASE UNCHANGED vars BY <2>5 DEF vars, device, Device!device
  <2>. QED BY <1>1, <2>1, <2>2, <2>3, <2>4, <2>5 DEF Next
<1>. QED
  BY <1>1, LoopInvariant, InitIsDriverInit, PTL DEF Spec, StartIsAtomic, Device!DriverSpec
=============================================================================
