----------------------------- MODULE SearchLoop -----------------------------
(***************************************************************************)
(* The START ioctl of kernel_module/sppu_driver.c in emulation mode, one   *)
(* step per iteration of the loop over the vectors in sppu_emu_run_search, *)
(* beside the other ioctls.  START holds sppu.lock from its write to CTRL  *)
(* to the last one to STATUS, and every ioctl takes that lock before it    *)
(* touches the device.                                                     *)
(***************************************************************************)
EXTENDS SppuDriver

VARIABLES
  pc,                         \* "loop": START holds the lock; else "idle"
  i, best_index, max_score,   \* the locals of the function
  before                      \* history: CTRL and STATUS when START took it

locals == <<i, best_index, max_score>>
vars   == <<device, pc, locals, before>>

Unset == [ctrl |-> "none", status |-> "READY"]

TypeOK ==
  /\ pc \in {"idle", "loop"}
  /\ ctrl \in {"none", "START"} /\ status \in {"READY", "BUSY", "DONE"}
  /\ before \in [ctrl : {"none", "START"}, status : {"READY", "DONE"}]
  /\ vec_count \in 0..MaxVectors /\ dimension \in 0..MaxDimension
  /\ result_idx \in Slots \cup {NoIndex} /\ result_score \in Int
  /\ emu_mem \in [Slots -> Vector] /\ emu_target \in Vector
  /\ i \in 0..MaxVectors
  /\ best_index \in Slots \cup {NoIndex} /\ max_score \in Int

NoLocals == i = 0 /\ best_index = NoIndex /\ max_score = Floor

Init == DriverInit /\ pc = "idle" /\ NoLocals /\ before = Unset

\* RESET, SET_PARAM, LOAD_VEC and SET_TARGET wait for the lock.
Prepare == pc = "idle" /\ Ioctl /\ UNCHANGED <<pc, locals, before>>

\* Mutant: best_index begins at 0.
BeginMutant ==
  /\ pc = "idle" /\ pc' = "loop"
  /\ before' = [ctrl |-> ctrl, status |-> status]
  /\ ctrl' = "START" /\ status' = "BUSY"
  /\ i' = 0 /\ best_index' = 0 /\ max_score' = Floor
  /\ UNCHANGED <<vec_count, dimension, result_idx, result_score, emu_mem,
                 emu_target>>

Begin ==
  /\ pc = "idle" /\ pc' = "loop"
  /\ before' = [ctrl |-> ctrl, status |-> status]
  /\ ctrl' = "START" /\ status' = "BUSY"
  /\ i' = 0 /\ best_index' = NoIndex /\ max_score' = Floor
  /\ UNCHANGED <<vec_count, dimension, result_idx, result_score, emu_mem,
                 emu_target>>

dot == Dot(emu_mem[i], emu_target, dimension)

\* Mutant: a vector that is not better is looked at again.
IterateStuckMutant ==
  /\ pc = "loop" /\ i < vec_count
  /\ IF Above(dot, max_score)
       THEN i' = i + 1 /\ max_score' = dot /\ best_index' = i
       ELSE UNCHANGED <<i, max_score, best_index>>
  /\ UNCHANGED <<device, pc, before>>

Iterate ==
  /\ pc = "loop" /\ i < vec_count
  /\ i' = i + 1
  /\ IF Above(dot, max_score)
       THEN max_score' = dot /\ best_index' = i
       ELSE UNCHANGED <<max_score, best_index>>
  /\ UNCHANGED <<device, pc, before>>

\* The function returns, and the ioctl gives the lock back.
Publish ==
  /\ pc = "loop" /\ i >= vec_count
  /\ pc' = "idle" /\ status' = "DONE"
  /\ result_idx' = best_index /\ result_score' = max_score
  /\ i' = 0 /\ best_index' = NoIndex /\ max_score' = Floor /\ before' = Unset
  /\ UNCHANGED <<ctrl, vec_count, dimension, emu_mem, emu_target>>

Next == Prepare \/ Begin \/ Iterate \/ Publish

Spec == Init /\ [][Next]_vars

\* The loop has no exit but its end: the function runs to completion.
FairSpec == Spec /\ WF_vars(Iterate \/ Publish)

(***************************************************************************)
(* Properties.                                                             *)
(***************************************************************************)

\* Between two iterations best_index and max_score are the answer for the
\* vectors seen so far.
BestSoFar ==
  pc = "loop" => i <= vec_count /\ IsBest(BankScores, i, best_index, max_score)

\* What other ioctls see of CTRL and STATUS is what was there before START
\* took the lock.
Device == INSTANCE SppuDriver
            WITH ctrl   <- IF pc = "loop" THEN before.ctrl ELSE ctrl,
                 status <- IF pc = "loop" THEN before.status ELSE status

\* To every other ioctl START is one step that publishes the first vector
\* with the largest dot product among the configured ones, and its score;
\* if none is above -1.0e9, or all are NaN, the index is (uint32_t)-1.
\* STATUS is never seen BUSY, nor DONE with an older result.
StartIsAtomic == Device!DriverSpec

\* The loop ends: the START ioctl returns with STATUS at DONE.
SearchTerminates == status = "BUSY" ~> status = "DONE"
=============================================================================
