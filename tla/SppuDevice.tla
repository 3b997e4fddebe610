----------------------------- MODULE SppuDevice ------------------------------
(***************************************************************************)
(* fpga/rtl/sppu_top.v as it is wired: its control logic with the three    *)
(* real engines and vector memory in the place of the handshakes that      *)
(* SppuTop has for them.  The dot-product engine and the DMA reader are    *)
(* those of SppuCompute, each on its own start wire; the tree generator is *)
(* SeuTree's, its write port is port C of the memory, and a write of the   *)
(* reader is what costs it a word.                                         *)
(***************************************************************************)
EXTENDS SppuCompute

CONSTANTS
  BusWrites,              \* writes to the control registers, see SppuTop
  TreeConfigs, Depths     \* what software writes to the SEU's, see SeuTree

VARIABLES
  \* the register file and the control logic
  aw_state, ctrl, seu_ctrl, int_mask,
  start_prev, seu_start_prev, status_reg, seu_status_reg,
  irq_pending_sppu, irq_pending_seu,
  \* the tree generator
  seu_state, seu_busy, seu_done, tree_status,
  r_config, r_depth,
  cur_variant, cur_level, cur_idx, total_entries,
  tree_count, entries_total, branch_valid,
  embed_start, embed_done, port, path_tokens,
  tree, lost

Top == INSTANCE SppuTop WITH dp_busy <- busy, dp_done <- done
Seu == INSTANCE SeuTree WITH
         state <- seu_state, busy <- seu_busy, done <- seu_done,
         Exposed <- 0..31

deviceVars == <<computeVars, Top!regs, Top!control, Top!irqs, Seu!vars>>

DeviceInit == ComputeInit /\ Top!Init /\ Seu!Init

\* What port C presents.  Where the tree area lies is left to SEU_TREE_ADDR.
TreeWrite == IF port = Seu!NoWrite THEN {NoTreeWrite} ELSE TreeArea

\* The two engines of a search, each with its own start wire.
SearchEngines ==
  \E dimension \in 0..MaxDimension, arready, rvalid \in BOOLEAN, c \in TreeWrite :
    /\ DpEdge(Top!dp_start, dimension)
    /\ DmaEdge(Top!dma_start, dimension, arready, rvalid, c)

\* Whether memory takes the word on port C at this edge, which it does if
\* port A presents none, and what port A's write does to the tree.  Which of
\* its words a write to the tree area hits, if any, SEU_TREE_ADDR decides.
TreeMemory ==
  \/ vmem_port = NoPortWrite /\ Seu!Stored
  \/ vmem_port # NoPortWrite /\ Seu!Dropped({})
  \/ /\ vmem_port # NoPortWrite /\ vmem_port.at \in TreeArea
     /\ \E i \in Seu!Index : Seu!Dropped({i})

\* The generator's share of an edge; seu_reset goes before everything.  At a
\* start nothing in memory counts as the run's.
SeuEdge(start, reset) ==
  \/ reset /\ Seu!SeuReset /\ TreeMemory
  \/ /\ ~reset
     /\ \/ start /\ \E config \in TreeConfigs, depth \in Depths :
                      Seu!Start(config, depth)
        \/ ((~start /\ Seu!Wait) \/ Seu!Working) /\ TreeMemory

\* One rising clock edge at which the bus presents w.
DeviceTick(w) ==
  /\ Top!WriteChannel(w)
  /\ Top!SearchControl /\ Top!SeuControl
  /\ Top!SearchIrq(w) /\ Top!SeuIrq(w)
  /\ SearchEngines
  /\ SeuEdge(Top!seu_start, Top!RESET \in seu_ctrl)

DeviceNext ==
  \/ DeviceTick(Top!Quiet)
  \/ aw_state = 0 /\ \E w \in BusWrites : DeviceTick(w)

DeviceSpec == DeviceInit /\ [][DeviceNext]_deviceVars
=============================================================================
