-------------------------- MODULE SpecBackendProofs --------------------------
(***************************************************************************)
(* Safety of the SEU calls of libsppu and of the speculative backend, for  *)
(* every set of depths, offsets and branch counts and any number of polls. *)
(***************************************************************************)
EXTENDS SpecBackend, TLAPS

USE SeuAssumption, PollsAssumption

(***************************************************************************)
(* The emulated tree.                                                      *)
(***************************************************************************)

\* The depth register holds a depth of the model or 0, and clamps to one.
LEMMA ClampedDepth ==
  ASSUME DriverTypeOK
  PROVE  /\ clamped \in MinDepth..MaxDepth
         /\ <<clamped, seu_offset>> \in Entry
         /\ seu_depth \in Depths => clamped = seu_depth
BY DEF DriverTypeOK, clamped, Entry, MinDepth, MaxDepth

LEMMA BranchRange ==
  ASSUME NEW cfg \in Config PROVE EmuBranches(cfg) \in 1..Variants
BY DEF Config, EmuBranches, Variants

\* No tree is longer than the array it is written to.
LEMMA TreeLength ==
  ASSUME NEW b \in 1..Variants, NEW d \in MinDepth..MaxDepth
  PROVE  b * d \in 0..(Variants * MaxDepth)
<1>1. d = 5 \/ d = 6 \/ d = 7 \/ d = 8 BY DEF MinDepth, MaxDepth
<1>. QED BY <1>1 DEF Variants, MinDepth, MaxDepth

LEMMA FillTypes ==
  ASSUME DriverTypeOK, NEW b \in 1..Variants, Fill(b)
  PROVE  /\ seu_tree' \in [Index -> Entry]
         /\ tree_result' \in 0..(Variants * MaxDepth)
         /\ seu_status' = "DONE"
<1>1. tree_result' \in 0..(Variants * MaxDepth) BY ClampedDepth, TreeLength DEF Fill
<1>2. seu_tree' \in [Index -> Entry] BY ClampedDepth DEF Fill, DriverTypeOK
<1>. QED BY <1>1, <1>2 DEF Fill

\* The entries a prediction asked for are all written with its depth and
\* offset.
LEMMA FillsRequest ==
  ASSUME DriverTypeOK, seu_depth \in Depths, Fill(Variants)
  PROVE  \A i \in Index : i < Variants * seu_depth
                            => seu_tree'[i] = <<seu_depth, seu_offset>>
BY ClampedDepth DEF Fill

LEMMA StartTypes ==
  ASSUME DriverTypeOK, NEW cfg \in Config, NEW edge \in BOOLEAN, HwStart(cfg, edge)
  PROVE  /\ start_bit' \in BOOLEAN
         /\ seu_status' \in {"READY", "BUSY", "DONE"}
         /\ branch_valid' \in SUBSET Branches
         /\ r_config' \in Config /\ r_total' \in 0..31 /\ run' \in Request
         /\ entries_total' \in 0..31 /\ tree_of' \in Request
<1>1. Levels \in 0..4 BY DEF Levels, DriverTypeOK, MinDepth, MaxDepth
<1>2. EmuBranches(r_config) \in 0..16 BY BranchRange DEF DriverTypeOK, Variants
<1>3. (Levels * EmuBranches(r_config)) \in Nat BY <1>1, <1>2
<1>4. (Levels * EmuBranches(r_config)) % 32 \in 0..31 BY <1>3
<1>5. CASE edge /\ seu_status = "READY"
  BY <1>4, <1>5 DEF HwStart, DriverTypeOK, Request
<1>6. CASE ~(edge /\ seu_status = "READY")
  BY <1>6 DEF HwStart, DriverTypeOK
<1>. QED BY <1>5, <1>6

(***************************************************************************)
(* Every step keeps the types.                                             *)
(***************************************************************************)
PollsInv == pc \in {"build", "branches", "entries"} => polls < MaxPolls

LEMMA TypeInit == Init => TypeOK
<1>. SUFFICES ASSUME Init PROVE TypeOK OBVIOUS
<1>1. NoConfig \in Config BY DEF NoConfig, Config
<1>2. seu_tree \in [Index -> Entry] BY DEF Init, DriverInit, Entry
<1>3. tree_result \in 0..(Variants * MaxDepth) BY DEF Init, DriverInit, Variants, MaxDepth
<1>4. branch_valid \in SUBSET Branches /\ valid \in SUBSET Branches BY DEF Init, DriverInit
<1>5. start_bit \in BOOLEAN /\ from_ready \in BOOLEAN BY DEF Init, DriverInit
<1>6. entries_total \in 0..31 /\ r_total \in 0..31 /\ polls \in 0..MaxPolls
  BY DEF Init, DriverInit
<1>7. DriverTypeOK
  BY <1>1, <1>2, <1>3, <1>4, <1>5, <1>6 DEF Init, DriverInit, DriverTypeOK, Request
<1>. QED BY <1>4, <1>5, <1>6, <1>7 DEF Init, TypeOK, PCs

LEMMA PlanTypes ==
  ASSUME TypeOK, Predict \/ Speculate \/ GiveBack \/ Killed \/ BadAddress
  PROVE  TypeOK'
<1>. USE DEF TypeOK, DriverTypeOK, PCs
<1>1. CASE Predict
  BY <1>1 DEF Predict, Outdate, deviceRest, config, emulated, Request
<1>2. CASE Speculate
  BY <1>2 DEF Speculate, Outdate, deviceRest, config, emulated, Request
<1>3. CASE GiveBack
  BY <1>3 DEF GiveBack, device, asked, config, emulated, hardware
<1>4. CASE Killed
  BY <1>4 DEF Killed, device, asked, config, emulated, hardware
<1>5. CASE BadAddress
  BY <1>5 DEF BadAddress, FaultLocked, client, config, emulated, hardware
<1>. QED BY <1>1, <1>2, <1>3, <1>4, <1>5

LEMMA StartCallTypes == ASSUME TypeOK, CallStart PROVE TypeOK'
<1>1. UNCHANGED <<emulation, lock, seu_depth, seu_offset, depth, offset,
                  max_branches, polls, valid>>
  BY DEF CallStart, SeuStart, Locked, asked
<1>2. pc' \in PCs /\ from_ready' \in BOOLEAN BY DEF CallStart, PCs
<1>3. DriverTypeOK'
  <2>1. CASE emulation
    <3>1. Fill(Variants) /\ UNCHANGED <<branch_valid, tree_config, entries_total, hardware>>
      BY <2>1 DEF CallStart, SeuStart, EmuRunSeuTree
    <3>. QED BY <1>1, <3>1, FillTypes DEF TypeOK, DriverTypeOK, hardware, Variants
  <2>2. CASE ~emulation
    <3>1. HwStart(tree_config, TRUE) /\ UNCHANGED <<tree_config, emulated>>
      BY <2>2 DEF CallStart, SeuStart
    <3>2. tree_config \in Config BY DEF TypeOK, DriverTypeOK
    <3>. QED BY <1>1, <3>1, <3>2, StartTypes DEF TypeOK, DriverTypeOK, emulated
  <2>. QED BY <2>1, <2>2
<1>. QED BY <1>1, <1>2, <1>3 DEF TypeOK

LEMMA BuildCallTypes == ASSUME TypeOK, CallBuild PROVE TypeOK'
<1>. DEFINE cfg == [branches |-> max_branches % 16, auto |-> TRUE]
            mask == 0..(max_branches - 1)
<1>1. UNCHANGED <<emulation, lock, seu_depth, seu_offset, depth, offset,
                  max_branches, polls, valid>>
  BY DEF CallBuild, BuildTree, Locked, asked
<1>2. pc' \in PCs /\ from_ready' \in BOOLEAN BY DEF CallBuild, PCs
<1>3. max_branches \in 1..16 BY DEF TypeOK, Variants
<1>4. cfg \in Config BY <1>3 DEF Config
<1>5. EmuBranches(cfg) \in 1..Variants BY <1>4, BranchRange
<1>6. BuildTree(max_branches, mask) BY DEF CallBuild
<1>. HIDE DEF cfg, mask
<1>7. DriverTypeOK'
  <2>1. CASE emulation
    <3>1. EmuBuildTree(cfg, mask) /\ UNCHANGED <<entries_total, hardware>>
      BY <2>1, <1>6 DEF BuildTree, cfg
    <3>2. branch_valid' \in SUBSET Branches
      BY <1>5, <3>1 DEF EmuBuildTree, Branches, Variants
    <3>3. tree_config' \in Config /\ Fill(EmuBranches(cfg)) BY <1>4, <3>1 DEF EmuBuildTree
    <3>. QED BY <1>1, <1>5, <3>1, <3>2, <3>3, FillTypes
         DEF TypeOK, DriverTypeOK, hardware
  <2>2. CASE ~emulation
    <3>1. HwStart(cfg, ~start_bit) /\ tree_config' = cfg /\ UNCHANGED emulated
      BY <2>2, <1>6 DEF BuildTree, cfg
    <3>2. (~start_bit) \in BOOLEAN OBVIOUS
    <3>3. DriverTypeOK BY DEF TypeOK
    <3>4. /\ start_bit' \in BOOLEAN
          /\ seu_status' \in {"READY", "BUSY", "DONE"}
          /\ branch_valid' \in SUBSET Branches
          /\ r_config' \in Config /\ r_total' \in 0..31 /\ run' \in Request
          /\ entries_total' \in 0..31 /\ tree_of' \in Request
      BY <1>4, <3>1, <3>2, <3>3, StartTypes
    <3>. QED BY <1>1, <1>4, <3>1, <3>4 DEF TypeOK, DriverTypeOK, emulated
  <2>. QED BY <2>1, <2>2
<1>. QED BY <1>1, <1>2, <1>7 DEF TypeOK

LEMMA OtherCallTypes ==
  ASSUME TypeOK, PollsInv, CallConfigure \/ PollTree \/ UseTree \/ ReadFlags \/ ReadEntries
                   \/ Validate \/ CallAccept \/ CallRollback
  PROVE  TypeOK'
<1>. USE DEF TypeOK, DriverTypeOK, PCs
<1>1. CASE CallConfigure
  BY <1>1 DEF CallConfigure, SeuConfig, Locked, asked, emulated, hardware
<1>2. CASE PollTree \/ UseTree \/ Validate
  BY <1>2 DEF PollTree, UseTree, Validate, device, asked, config, emulated, hardware
<1>3. CASE ReadFlags
  BY <1>3 DEF ReadFlags, deviceButLock, asked, config, emulated, hardware
<1>4. CASE ReadEntries
  <2>1. polls' \in 0..MaxPolls BY <1>4 DEF ReadEntries, PollsInv
  <2>2. pc' \in PCs BY <1>4 DEF ReadEntries
  <2>3. valid' \in SUBSET Branches BY <1>4 DEF ReadEntries
  <2>4. DriverTypeOK' BY <1>4 DEF ReadEntries, deviceButLock, config, emulated, hardware
  <2>. QED BY <1>4, <2>1, <2>2, <2>3, <2>4 DEF ReadEntries, deviceButLock, asked
<1>5. CASE CallAccept
  BY <1>5 DEF CallAccept, Accept, Locked, asked, emulated, hardware, Config
<1>6. CASE CallRollback
  BY <1>6 DEF CallRollback, Rollback, Locked, asked, config, emulated, Request
<1>. QED BY <1>1, <1>2, <1>3, <1>4, <1>5, <1>6

LEMMA GeneratorTypes == ASSUME TypeOK, Generator PROVE TypeOK'
<1>. USE DEF TypeOK, DriverTypeOK, Generator, client
<1>1. CASE ApplyWeights
  BY <1>1 DEF ApplyWeights, config, emulated, hardware, Branches, Variants
<1>2. CASE Finish BY <1>2 DEF Finish, config, emulated, Request
<1>. QED BY <1>1, <1>2


(***************************************************************************)
(* What the program's place says of the device.                            *)
(***************************************************************************)

\* In emulation: the registers are the request's before the start, and the
\* tree is its own after it.
PredictInv ==
  /\ pc = "start" => seu_depth = depth /\ seu_offset = offset
  /\ emulation /\ pc \in {"poll", "predicted"} =>
       \A i \in Index : i < Variants * depth => seu_tree[i] = <<depth, offset>>

\* The emulated generator is never busy and never counts entries.
EmulationInv ==
  /\ emulation => entries_total = 0
  /\ pc = "offered" => ~emulation

\* In hardware mode START is only set while the SEU is not READY, so the next
\* write of it is an edge when it is; and the build that found it READY is
\* being generated or was generated last.
EdgeInv == ~emulation /\ seu_status = "READY" => ~start_bit

BuiltInv ==
  ~emulation /\ from_ready /\ pc \in {"branches", "entries", "offered"} =>
    IF seu_status = "BUSY" THEN run = "own" ELSE tree_of = "own"

LEMMA PollsStep == ASSUME TypeOK, PollsInv, Next PROVE PollsInv'
<1>. USE DEF TypeOK, PollsInv
<1>1. CASE Speculate BY <1>1 DEF Speculate
<1>2. CASE CallBuild BY <1>2 DEF CallBuild, asked
<1>3. CASE ReadFlags BY <1>3 DEF ReadFlags, asked
<1>4. CASE ReadEntries BY <1>4 DEF ReadEntries
<1>5. CASE Generator \/ BadAddress BY <1>5 DEF Generator, BadAddress, client
<1>6. CASE Predict \/ GiveBack \/ Killed \/ CallConfigure \/ CallStart \/ PollTree
             \/ UseTree \/ Validate \/ CallAccept \/ CallRollback
  BY <1>6 DEF Predict, GiveBack, Killed, CallConfigure, CallStart, PollTree,
              UseTree, Validate, CallAccept, CallRollback
<1>. QED BY <1>1, <1>2, <1>3, <1>4, <1>5, <1>6 DEF Next, Call

LEMMA PredictStep == ASSUME TypeOK, PredictInv, Next PROVE PredictInv'
<1>. USE DEF PredictInv
<1>1. CASE CallConfigure BY <1>1 DEF CallConfigure, SeuConfig, asked
<1>2. CASE CallStart
  <2>1. UNCHANGED <<depth, offset, emulation>> /\ pc' = "poll"
        /\ seu_depth = depth /\ seu_offset = offset
    BY <1>2 DEF CallStart, SeuStart, Locked, asked
  <2>2. seu_depth \in Depths /\ DriverTypeOK BY <2>1 DEF TypeOK
  <2>3. CASE emulation
    <3>1. Fill(Variants) BY <1>2, <2>3 DEF CallStart, SeuStart, EmuRunSeuTree
    <3>. QED BY <2>1, <2>2, <3>1, FillsRequest
  <2>4. CASE ~emulation BY <2>1, <2>4
  <2>. QED BY <2>3, <2>4
<1>3. CASE PollTree BY <1>3 DEF PollTree, device, emulated, asked
<1>4. CASE Generator
  BY <1>4 DEF Generator, ApplyWeights, Finish, client, config, emulated
<1>5. CASE BadAddress BY <1>5 DEF BadAddress, client
<1>6. CASE Predict \/ Speculate \/ GiveBack \/ Killed \/ UseTree \/ CallBuild
             \/ ReadFlags \/ ReadEntries \/ Validate \/ CallAccept \/ CallRollback
  <2>1. pc' \notin {"start", "poll", "predicted"}
    BY <1>6 DEF Predict, Speculate, GiveBack, Killed, UseTree, CallBuild,
                ReadFlags, ReadEntries, Validate, CallAccept, CallRollback
  <2>. QED BY <2>1
<1>. QED BY <1>1, <1>2, <1>3, <1>4, <1>5, <1>6 DEF Next, Call

LEMMA EmulationStep == ASSUME TypeOK, EmulationInv, Next PROVE EmulationInv'
<1>. USE DEF EmulationInv
<1>1. UNCHANGED emulation
  BY DEF Next, Call, Predict, Speculate, GiveBack, Killed, BadAddress, Generator,
     CallConfigure, CallStart, PollTree, UseTree, CallBuild, ReadFlags, ReadEntries,
     Validate, CallAccept, CallRollback, deviceRest, device, deviceButLock,
     FaultLocked, ApplyWeights, Finish, SeuConfig, SeuStart, BuildTree, Accept,
     Rollback, Locked
<1>2. emulation => UNCHANGED entries_total
  BY DEF Next, Call, Predict, Speculate, GiveBack, Killed, BadAddress, Generator,
     CallConfigure, CallStart, PollTree, UseTree, CallBuild, ReadFlags, ReadEntries,
     Validate, CallAccept, CallRollback, deviceRest, device, deviceButLock,
     FaultLocked, ApplyWeights, Finish, SeuConfig, SeuStart, BuildTree, Accept,
     Rollback
<1>3. CASE pc' # "offered" BY <1>1, <1>2, <1>3
<1>4. CASE ReadEntries BY <1>1, <1>4 DEF ReadEntries, deviceButLock
<1>5. CASE UNCHANGED pc BY <1>1, <1>2, <1>5
<1>. QED
  BY <1>3, <1>4, <1>5
  DEF Next, Call, Predict, Speculate, GiveBack, Killed, BadAddress, Generator, client,
     CallConfigure, CallStart, PollTree, UseTree, CallBuild, ReadFlags,
     Validate, CallAccept, CallRollback

LEMMA EdgeStep == ASSUME TypeOK, EdgeInv, Next PROVE EdgeInv'
<1>. USE DEF EdgeInv
<1>1. CASE CallStart
  <2>1. UNCHANGED emulation BY <1>1 DEF CallStart, SeuStart, Locked
  <2>2. CASE ~emulation
    <3>1. HwStart(tree_config, TRUE) BY <1>1, <2>2 DEF CallStart, SeuStart
    <3>2. seu_status' # "READY" BY <3>1 DEF HwStart
    <3>. QED BY <3>2
  <2>. QED BY <2>1, <2>2
<1>2. CASE CallBuild
  <2>1. UNCHANGED emulation BY <1>2 DEF CallBuild, BuildTree, Locked
  <2>2. CASE ~emulation
    <3>1. PICK cfg : HwStart(cfg, ~start_bit)
      BY <1>2, <2>2 DEF CallBuild, BuildTree
    <3>2. seu_status' # "READY" BY <2>2, <3>1 DEF HwStart
    <3>. QED BY <3>2
  <2>. QED BY <2>1, <2>2
<1>3. CASE CallRollback
  <2>1. start_bit' = FALSE BY <1>3 DEF CallRollback, Rollback
  <2>. QED BY <2>1
<1>4. CASE Generator
  BY <1>4 DEF Generator, ApplyWeights, Finish, hardware
<1>5. CASE Predict \/ Speculate \/ GiveBack \/ Killed \/ BadAddress \/ CallConfigure
             \/ PollTree \/ UseTree \/ ReadFlags \/ ReadEntries \/ Validate \/ CallAccept
  <2>1. UNCHANGED <<emulation, seu_status, start_bit>>
    BY <1>5 DEF Predict, Speculate, GiveBack, Killed, BadAddress, CallConfigure,
                PollTree, UseTree, ReadFlags, ReadEntries, Validate, CallAccept,
                deviceRest, device, deviceButLock, hardware, FaultLocked, SeuConfig,
                Accept, Locked
  <2>. QED BY <2>1
<1>. QED BY <1>1, <1>2, <1>3, <1>4, <1>5 DEF Next, Call

LEMMA BuiltStep == ASSUME TypeOK, EdgeInv, BuiltInv, Next PROVE BuiltInv'
<1>. USE DEF BuiltInv
<1>1. CASE CallBuild
  <2>1. UNCHANGED emulation /\ from_ready' = (seu_status = "READY")
    BY <1>1 DEF CallBuild, BuildTree, Locked
  <2>2. CASE ~emulation /\ seu_status = "READY"
    <3>1. PICK cfg : HwStart(cfg, ~start_bit)
      BY <1>1, <2>2 DEF CallBuild, BuildTree
    <3>2. ~start_bit BY <2>2 DEF EdgeInv
    <3>3. seu_status' = "BUSY" /\ run' = "own" BY <2>2, <3>1, <3>2 DEF HwStart
    <3>. QED BY <3>3
  <2>3. CASE emulation BY <2>1, <2>3
  <2>4. CASE seu_status # "READY"
    <3>1. ~from_ready' BY <2>1, <2>4
    <3>. QED BY <3>1
  <2>. QED BY <2>2, <2>3, <2>4
<1>2. CASE ReadFlags \/ ReadEntries
  <2>1. UNCHANGED <<emulation, from_ready, seu_status, run, tree_of>>
        /\ pc \in {"branches", "entries", "offered"}
    BY <1>2 DEF ReadFlags, ReadEntries, deviceButLock, hardware
  <2>. QED BY <2>1
<1>3. CASE Generator /\ ApplyWeights
  BY <1>3 DEF Generator, ApplyWeights, hardware, client
<1>4. CASE Generator /\ Finish
  <2>1. UNCHANGED <<emulation, from_ready, pc>> /\ tree_of' = run
        /\ seu_status = "BUSY" /\ seu_status' = "DONE"
    BY <1>4 DEF Generator, Finish, client
  <2>. QED BY <2>1
<1>5. CASE BadAddress BY <1>5 DEF BadAddress, FaultLocked, client, hardware
<1>6. CASE Predict \/ Speculate \/ GiveBack \/ Killed \/ CallConfigure \/ CallStart
             \/ PollTree \/ UseTree \/ Validate \/ CallAccept \/ CallRollback
  <2>1. pc' \notin {"branches", "entries", "offered"}
    BY <1>6 DEF Predict, Speculate, GiveBack, Killed, CallConfigure, CallStart,
                PollTree, UseTree, Validate, CallAccept, CallRollback
  <2>. QED BY <2>1
<1>7. Generator => ApplyWeights \/ Finish BY DEF Generator
<1>. QED BY <1>1, <1>2, <1>3, <1>4, <1>5, <1>6, <1>7 DEF Next, Call

(***************************************************************************)
(* The theorems.                                                           *)
(***************************************************************************)
IInv == TypeOK /\ PollsInv /\ PredictInv /\ EmulationInv /\ EdgeInv /\ BuiltInv

LEMMA InitInv == Init => IInv
BY TypeInit DEF Init, DriverInit, IInv, PollsInv, PredictInv, EmulationInv,
                EdgeInv, BuiltInv

LEMMA Stutter == ASSUME IInv, UNCHANGED vars PROVE IInv'
<1>1. UNCHANGED <<emulation, lock, config, seu_status, branch_valid, entries_total,
                  emulated, hardware, pc, depth, offset, max_branches, polls, valid,
                  from_ready>>
  BY DEF vars, device, client
<1>2. TypeOK' BY <1>1 DEF IInv, TypeOK, DriverTypeOK, config, emulated, hardware
<1>3. PollsInv' BY <1>1 DEF IInv, PollsInv
<1>4. PredictInv' BY <1>1 DEF IInv, PredictInv, config, emulated
<1>5. EmulationInv' BY <1>1 DEF IInv, EmulationInv
<1>6. EdgeInv' BY <1>1 DEF IInv, EdgeInv, hardware
<1>7. BuiltInv' BY <1>1 DEF IInv, BuiltInv, hardware
<1>. QED BY <1>2, <1>3, <1>4, <1>5, <1>6, <1>7 DEF IInv

LEMMA StepInv == IInv /\ [Next]_vars => IInv'
<1>. SUFFICES ASSUME IInv, Next PROVE IInv' BY Stutter
<1>1. TypeOK'
  BY PlanTypes, StartCallTypes, BuildCallTypes, OtherCallTypes, GeneratorTypes
  DEF IInv, Next, Call
<1>. QED
  BY <1>1, PollsStep, PredictStep, EmulationStep, EdgeStep, BuiltStep DEF IInv

THEOREM Invariance == Spec => []IInv
BY InitInv, StepInv, PTL DEF Spec

\* The registers, the tree array and the program's variables stay in their
\* ranges: no tree overruns the array, no count its five bits.
THEOREM TypeCorrect == Spec => []TypeOK
<1>1. IInv => TypeOK BY DEF IInv
<1>. QED BY <1>1, Invariance, PTL

\* A predicted tree is the one that was asked for, whatever filled the array
\* before it.
THEOREM Predictions == Spec => []PredictionIsOwn
<1>1. IInv => PredictionIsOwn BY DEF IInv, PredictInv, PredictionIsOwn
<1>. QED BY <1>1, Invariance, PTL

\* Hypotheses come from the build they are offered for, if it found the SEU
\* READY.
THEOREM Hypotheses == Spec => []HypothesesAreOwn
<1>1. IInv => HypothesesAreOwn BY DEF IInv, EmulationInv, BuiltInv, HypothesesAreOwn
<1>. QED BY <1>1, Invariance, PTL
=============================================================================
