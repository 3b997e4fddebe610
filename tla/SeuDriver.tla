------------------------------ MODULE SeuDriver ------------------------------
(***************************************************************************)
(* The SEU ioctls of kernel_module/sppu_driver.c in both of its modes.  In *)
(* emulation the driver computes the tree itself, under sppu.lock; in      *)
(* hardware mode it writes the registers of fpga/rtl/seu_tree.v, which is  *)
(* seen here through what those ioctls can tell of it (SeuTree and SppuTop *)
(* have the generator clock by clock).  A register write and its effect on *)
(* the control logic are one step: the bus takes longer than the edge.     *)
(***************************************************************************)
EXTENDS Naturals

MinDepth == 5
MaxDepth == 8
Variants == 16
Index    == 0..(Variants * MaxDepth - 1)
Branches == 0..(Variants - 1)

CONSTANTS
  Depths, Offsets,    \* what SEU_CONFIG is given
  BranchCounts        \* max_branches of a tree build

ASSUME SeuAssumption ==
  /\ Depths \subseteq MinDepth..MaxDepth
  /\ Offsets \subseteq Nat \ {0}
  /\ BranchCounts \subseteq 1..Variants

VARIABLES
  emulation,          \* the module parameter
  lock,               \* sppu.lock: "free", "held", or "stuck": its holder
                      \* returned without giving it back
  seu_depth, seu_offset, tree_config,   \* configuration registers
  seu_status,
  branch_valid,
  entries_total,      \* SEU_TREE_ENTRIES_TOTAL
  \* emulation
  seu_tree,           \* for each entry, the depth and offset it was made for
  tree_result,        \* SEU_TREE_RESULT
  \* hardware
  start_bit,          \* bit 0 of SEU_CTRL
  r_config, r_total,  \* latched by the generator
  run, tree_of        \* history: the request the generator serves, and the
                      \* one whose tree was finished last

config   == <<seu_depth, seu_offset, tree_config>>
emulated == <<seu_tree, tree_result>>
hardware == <<start_bit, r_config, r_total, run, tree_of>>
device   == <<emulation, lock, config, seu_status, branch_valid, entries_total,
              emulated, hardware>>

NoEntry == <<0, 0>>
Entry   == {NoEntry} \cup Depths \X (Offsets \cup {0})
             \cup {MinDepth} \X (Offsets \cup {0})
Config  == [branches : 0..15, auto : BOOLEAN]
Request == {"none", "old", "own"}

DriverTypeOK ==
  /\ emulation \in BOOLEAN /\ lock \in {"free", "held", "stuck"}
  /\ seu_depth \in Depths \cup {0} /\ seu_offset \in Offsets \cup {0}
  /\ tree_config \in Config
  /\ seu_status \in {"READY", "BUSY", "DONE"}
  /\ branch_valid \in SUBSET Branches
  /\ entries_total \in 0..31
  /\ seu_tree \in [Index -> Entry] /\ tree_result \in 0..(Variants * MaxDepth)
  /\ start_bit \in BOOLEAN /\ r_config \in Config /\ r_total \in 0..31
  /\ run \in Request /\ tree_of \in Request

NoConfig == [branches |-> 0, auto |-> FALSE]

DriverInit ==
  /\ emulation \in BOOLEAN /\ lock = "free"
  /\ seu_depth = 0 /\ seu_offset = 0 /\ tree_config = NoConfig
  /\ seu_status = "READY" /\ branch_valid = {} /\ entries_total = 0
  /\ seu_tree = [i \in Index |-> NoEntry] /\ tree_result = 0
  /\ start_bit = FALSE /\ r_config = NoConfig /\ r_total = 0
  /\ run = "none" /\ tree_of = "none"

(***************************************************************************)
(* Emulation: both tree functions clamp the depth register and write the   *)
(* first total entries of the tree, leaving the rest of it as it was.      *)
(***************************************************************************)
clamped == IF seu_depth < MinDepth THEN MinDepth
           ELSE IF seu_depth > MaxDepth THEN MaxDepth ELSE seu_depth

EmuBranches(cfg) == IF cfg.branches = 0 THEN Variants ELSE cfg.branches

\* Mutant: the loop is over the shallowest tree.
FillMutant(branches) ==
  /\ seu_tree' = [i \in Index |-> IF i < branches * MinDepth
                                    THEN <<clamped, seu_offset>> ELSE seu_tree[i]]
  /\ tree_result' = branches * clamped
  /\ seu_status' = "DONE"

Fill(branches) ==
  /\ seu_tree' = [i \in Index |-> IF i < branches * clamped
                                    THEN <<clamped, seu_offset>> ELSE seu_tree[i]]
  /\ tree_result' = branches * clamped
  /\ seu_status' = "DONE"

EmuRunSeuTree == Fill(Variants) /\ UNCHANGED <<branch_valid, tree_config>>

EmuBuildTree(cfg, mask) ==
  /\ Fill(EmuBranches(cfg))
  /\ branch_valid' = mask \cap 0..(EmuBranches(cfg) - 1)
  /\ tree_config' = cfg

(***************************************************************************)
(* Hardware: START is taken on its rising edge, and only from READY.  The  *)
(* number of entries is computed in five bits from the depth register and  *)
(* from the configuration latched for the tree before.                     *)
(***************************************************************************)
Levels == (IF seu_depth < 2 THEN 1 ELSE IF seu_depth > 4 THEN 3
           ELSE seu_depth - 1) + 1

\* Mutant: the count is kept in full.
HwStartMutant(cfg, edge) ==
  /\ start_bit' = TRUE
  /\ IF edge /\ seu_status = "READY"
       THEN /\ seu_status' = "BUSY" /\ branch_valid' = {}
            /\ r_config' = cfg /\ run' = "own"
            /\ r_total' = Levels * EmuBranches(r_config)
       ELSE UNCHANGED <<seu_status, branch_valid, r_config, run, r_total>>
  /\ UNCHANGED <<entries_total, tree_of>>

HwStart(cfg, edge) ==
  /\ start_bit' = TRUE
  /\ IF edge /\ seu_status = "READY"
       THEN /\ seu_status' = "BUSY" /\ branch_valid' = {}
            /\ r_config' = cfg /\ run' = "own"
            /\ r_total' = (Levels * EmuBranches(r_config)) % 32
       ELSE UNCHANGED <<seu_status, branch_valid, r_config, run, r_total>>
  /\ UNCHANGED <<entries_total, tree_of>>

\* The embedding search names branch 0 (see SeuTree), a while before done.
Validated == r_config.auto => branch_valid = {0}

ApplyWeights ==
  /\ seu_status = "BUSY" /\ ~Validated
  /\ branch_valid' = {0}
  /\ UNCHANGED <<emulation, lock, config, seu_status, entries_total, emulated,
                 hardware>>

Finish ==
  /\ seu_status = "BUSY" /\ Validated
  /\ seu_status' = "DONE" /\ entries_total' = r_total
  /\ tree_of' = run /\ run' = "none"
  /\ UNCHANGED <<emulation, lock, config, branch_valid, emulated, start_bit,
                 r_config, r_total>>

(***************************************************************************)
(* The ioctls.  All but GET_BRANCHES have given the lock back when they    *)
(* return, and in emulation nothing runs between two steps of a call.      *)
(***************************************************************************)
Locked == lock = "free" /\ UNCHANGED <<emulation, lock>>

\* Depths outside MinDepth..MaxDepth are refused before the lock.
SeuConfig(depth, offset) ==
  /\ Locked
  /\ seu_depth' = depth /\ seu_offset' = offset
  /\ UNCHANGED <<tree_config, seu_status, branch_valid, entries_total, emulated,
                 hardware>>

SeuStart ==
  /\ Locked /\ UNCHANGED <<seu_depth, seu_offset>>
  /\ IF emulation
       THEN EmuRunSeuTree /\ UNCHANGED <<entries_total, hardware>>
       ELSE HwStart(tree_config, TRUE) /\ UNCHANGED <<tree_config, emulated>>

BuildTree(branches, mask) ==
  LET cfg == [branches |-> branches % 16, auto |-> TRUE]
  IN  /\ Locked /\ UNCHANGED <<seu_depth, seu_offset>>
      /\ IF emulation
           THEN EmuBuildTree(cfg, mask) /\ UNCHANGED <<entries_total, hardware>>
           ELSE /\ HwStart(cfg, ~start_bit)
                /\ tree_config' = cfg /\ UNCHANGED emulated

Accept ==
  /\ Locked
  /\ tree_config' = [tree_config EXCEPT !.auto = TRUE]
  /\ UNCHANGED <<seu_depth, seu_offset, seu_status, branch_valid, entries_total,
                 emulated, hardware>>

\* Mutant: the second write of the hardware branch keeps START.
RollbackMutant ==
  /\ Locked
  /\ seu_status' = "READY" /\ branch_valid' = {}
  /\ run' = IF emulation THEN run ELSE "none"
  /\ UNCHANGED <<config, entries_total, emulated, start_bit, r_config, r_total,
                 tree_of>>

\* RESET stops the generator; the entry count and the latched configuration
\* survive it.
Rollback ==
  /\ Locked
  /\ seu_status' = "READY" /\ branch_valid' = {}
  /\ start_bit' = FALSE /\ run' = "none"
  /\ UNCHANGED <<config, entries_total, emulated, r_config, r_total, tree_of>>

\* A copy from or to user space that faults after the lock is taken, in
\* BUILD_TREE and GET_BRANCHES: -EFAULT at once.
FaultLocked ==
  /\ lock = "free" /\ lock' = "stuck"
  /\ UNCHANGED <<emulation, config, seu_status, branch_valid, entries_total,
                 emulated, hardware>>
=============================================================================
