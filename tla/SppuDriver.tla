----------------------------- MODULE SppuDriver -----------------------------
(***************************************************************************)
(* The search ioctls of kernel_module/sppu_driver.c in emulation mode:     *)
(* the emulated register window, vector bank and target vector that every  *)
(* open file of /dev/sppu shares.  sppu_ioctl does its work on them under  *)
(* sppu.lock, so each ioctl is one action.  The module has the actions;    *)
(* SppuSession has the processes that call them.                           *)
(***************************************************************************)
EXTENDS BestMatch

CONSTANTS
  MaxVectors,     \* SPPU_MAX_VECTORS
  MaxDimension,   \* SPPU_MAX_DIMENSION
  Elem,           \* what an element of a vector may be; 0 is one of them
  Dot(_, _, _)    \* Dot(v, w, n): dot product of the first n elements

Slots  == 0..MaxVectors-1
Dims   == 0..MaxDimension-1
Vector == [Dims -> Elem]

\* The driver's loop over d reads the first dimension elements of the bank
\* and of the target, and nothing else.
ASSUME DriverAssumption ==
  /\ MaxVectors \in Nat \ {0} /\ MaxDimension \in Nat
  /\ 0 \in Elem
  /\ \A v, w \in Vector, n \in 0..MaxDimension : Dot(v, w, n) \in Score

ASSUME DotReadsPrefix ==
  \A v1, v2, w1, w2 \in Vector, n \in 0..MaxDimension :
    (\A d \in 0..n-1 : v1[d] = v2[d] /\ w1[d] = w2[d])
      => Dot(v1, w1, n) = Dot(v2, w2, n)

VARIABLES
  ctrl, status, vec_count, dimension, result_idx, result_score,  \* emu_regs
  emu_mem, emu_target

device == <<ctrl, status, vec_count, dimension, result_idx, result_score,
            emu_mem, emu_target>>

DriverTypeOK ==
  /\ ctrl \in {"none", "START"}
  /\ status \in {"READY", "DONE"}
  /\ vec_count \in 0..MaxVectors /\ dimension \in 0..MaxDimension
  /\ result_idx \in Slots \cup {NoIndex} /\ result_score \in Score
  /\ emu_mem \in [Slots -> Vector] /\ emu_target \in Vector

\* kzalloc and vzalloc: everything is zero.
DriverInit ==
  /\ ctrl = "none" /\ status = "READY"
  /\ vec_count = 0 /\ dimension = 0
  /\ result_idx = 0 /\ result_score = 0
  /\ emu_mem = [s \in Slots |-> [d \in Dims |-> 0]]
  /\ emu_target = [d \in Dims |-> 0]

\* SPPU_IOCTL_RESET writes CTRL twice.  In emulation a write to CTRL acts
\* only if it has the START bit, so nothing else changes, STATUS included.
Reset ==
  /\ ctrl' = "none"
  /\ UNCHANGED <<status, vec_count, dimension, result_idx, result_score,
                 emu_mem, emu_target>>

\* SPPU_IOCTL_SET_PARAM, with arguments it accepts.
SetParam(count, dim) ==
  /\ dim <= MaxDimension
  /\ vec_count' = count /\ dimension' = dim
  /\ UNCHANGED <<ctrl, status, result_idx, result_score, emu_mem, emu_target>>

\* memcpy of the first dim elements of data: the others keep their values.
Overwrite(old, data, dim) ==
  [d \in Dims |-> IF d < dim THEN data[d] ELSE old[d]]

\* SPPU_IOCTL_LOAD_VEC, with arguments it accepts.
LoadVec(index, data, dim) ==
  /\ index < MaxVectors /\ dim <= MaxDimension
  /\ emu_mem' = [emu_mem EXCEPT ![index] = Overwrite(@, data, dim)]
  /\ UNCHANGED <<ctrl, status, vec_count, dimension, result_idx, result_score,
                 emu_target>>

\* SPPU_IOCTL_SET_TARGET.
SetTarget(data, dim) ==
  /\ dim <= MaxDimension
  /\ emu_target' = Overwrite(emu_target, data, dim)
  /\ UNCHANGED <<ctrl, status, vec_count, dimension, result_idx, result_score,
                 emu_mem>>

\* Mutant: all elements of the bank are used, whatever the dimension.
BankScoresMutant == [s \in Slots |-> Dot(emu_mem[s], emu_target, MaxDimension)]

\* The dot product of each slot of the bank with the target.
BankScores == [s \in Slots |-> Dot(emu_mem[s], emu_target, dimension)]

\* Mutant: STATUS is not set to DONE.
StartMutant ==
  /\ ctrl' = "START"
  /\ result_idx' \in {NoIndex} \cup 0..vec_count-1
  /\ result_score' = IF result_idx' = NoIndex THEN Floor
                                              ELSE BankScores[result_idx']
  /\ IsBest(BankScores, vec_count, result_idx', result_score')
  /\ UNCHANGED <<status, vec_count, dimension, emu_mem, emu_target>>

\* SPPU_IOCTL_START: the write to CTRL runs the whole search before the
\* ioctl returns.  SearchLoop has the loop, and shows that this is what it
\* publishes.
Start ==
  /\ ctrl' = "START" /\ status' = "DONE"
  /\ result_idx' \in {NoIndex} \cup 0..vec_count-1
  /\ result_score' = IF result_idx' = NoIndex THEN Floor
                                              ELSE BankScores[result_idx']
  /\ IsBest(BankScores, vec_count, result_idx', result_score')
  /\ UNCHANGED <<vec_count, dimension, emu_mem, emu_target>>

\* The other ioctls of a search that change the device.
Ioctl ==
  \/ Reset
  \/ \E count \in 0..MaxVectors, dim \in 0..MaxDimension : SetParam(count, dim)
  \/ \E data \in Vector, dim \in 0..MaxDimension :
       SetTarget(data, dim) \/ \E index \in Slots : LoadVec(index, data, dim)

\* The device, whoever calls.
DriverNext == Ioctl \/ Start

DriverSpec == DriverInit /\ [][DriverNext]_device
=============================================================================
