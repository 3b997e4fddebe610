------------------------------- MODULE SppuTop -------------------------------
(***************************************************************************)
(* fpga/rtl/sppu_top.v, one step per rising clock edge: the start-edge     *)
(* detectors, the two status machines, the start wires of the three        *)
(* engines and the interrupt flags, together with the write path of the    *)
(* register file that feeds them (a bus master that presents address and   *)
(* data in the same cycle, as fpga/sim/tb_sppu.v does).  The engines are   *)
(* seen through their handshake only, see EngineHandshake.                 *)
(*                                                                         *)
(* A 32-bit register is the set of the low bit numbers that are 1.         *)
(***************************************************************************)
EXTENDS Naturals

\* Bit numbers: START, RESET and INT_EN are the same in CTRL and SEU_CTRL.
START  == 0
RESET  == 1
INT_EN == 2

\* Bit numbers of INT_STATUS and INT_MASK.
COMPLETE == 0
SEU_DONE == 2

READY == 0
BUSY  == 1
DONE  == 2

Registers == {"CTRL", "INT_MASK", "INT_STATUS", "SEU_CTRL", "SEU_IRQ_STATUS"}
Writes    == [reg : Registers, bits : SUBSET (0..2)]

CONSTANT BusWrites      \* the writes the bus master may issue

ASSUME BusWritesAssumption == BusWrites \subseteq Writes

\* No write presented on the bus in this cycle.
Quiet == [reg |-> "none", bits |-> {}]

VARIABLES
  aw_state,                          \* write channel: 0 ready, 2 responding
  ctrl, seu_ctrl, int_mask,          \* software-written registers
  start_prev, seu_start_prev,        \* last cycle's START bits
  status_reg, seu_status_reg,
  irq_pending_sppu, irq_pending_seu,
  dp_busy, dp_done,                  \* dot-product engine
  dma_busy,                          \* DMA reader
  seu_busy, seu_done,                \* SEU tree generator
  tree_status                        \* its SEU_STATUS register

regs    == <<aw_state, ctrl, seu_ctrl, int_mask>>
control == <<start_prev, seu_start_prev, status_reg, seu_status_reg>>
irqs    == <<irq_pending_sppu, irq_pending_seu>>
engines == <<dp_busy, dp_done, dma_busy, seu_busy, seu_done,
             tree_status>>
vars    == <<regs, control, irqs, engines>>

Dp  == INSTANCE EngineHandshake WITH
         Abortable <- FALSE, busy <- dp_busy, done <- dp_done
Seu == INSTANCE EngineHandshake WITH
         Abortable <- TRUE, busy <- seu_busy, done <- seu_done

TypeOK ==
  /\ aw_state \in {0, 2}
  /\ ctrl \in SUBSET (0..2) /\ seu_ctrl \in SUBSET (0..2)
  /\ int_mask \in SUBSET (0..2)
  /\ start_prev \in BOOLEAN /\ seu_start_prev \in BOOLEAN
  /\ status_reg \in {READY, BUSY, DONE}
  /\ seu_status_reg \in {READY, BUSY, DONE}
  /\ irq_pending_sppu \in BOOLEAN /\ irq_pending_seu \in BOOLEAN
  /\ Dp!TypeOK /\ Seu!TypeOK /\ dma_busy \in BOOLEAN
  /\ tree_status \in {READY, BUSY, DONE}

\* The state rst_n leaves behind.
Init ==
  /\ aw_state = 0
  /\ ctrl = {} /\ seu_ctrl = {} /\ int_mask = {}
  /\ start_prev = FALSE /\ seu_start_prev = FALSE
  /\ status_reg = READY /\ seu_status_reg = READY
  /\ irq_pending_sppu = FALSE /\ irq_pending_seu = FALSE
  /\ Dp!Init /\ Seu!Init /\ dma_busy = FALSE
  /\ tree_status = READY

(***************************************************************************)
(* Combinational wires.                                                    *)
(***************************************************************************)
ctrl_start_pulse == START \in ctrl /\ ~start_prev
seu_start_pulse  == START \in seu_ctrl /\ ~seu_start_prev
dma_start        == ctrl_start_pulse /\ status_reg = READY
\* Mutant: the engine is started only from READY, as the DMA reader is.
dp_start_mutant  == ctrl_start_pulse /\ status_reg = READY
dp_start         == ctrl_start_pulse
seu_start        == seu_start_pulse /\ seu_status_reg = READY
\* Mutant: the SEU's interrupt is not on the line.
irq_mutant       == irq_pending_sppu
irq              == irq_pending_sppu \/ irq_pending_seu
int_status       == (IF irq_pending_sppu THEN {COMPLETE} ELSE {})
                      \cup (IF irq_pending_seu THEN {SEU_DONE} ELSE {})

\* Write w is taken at this edge and addresses register reg.
Hits(w, reg) == aw_state = 0 /\ w.reg = reg

(***************************************************************************)
(* The clocked processes.                                                  *)
(***************************************************************************)
Stored(w, reg, old) == IF Hits(w, reg) THEN w.bits ELSE old

WriteChannel(w) ==
  /\ aw_state' = IF aw_state = 0 /\ w # Quiet THEN 2 ELSE 0
  /\ ctrl'     = Stored(w, "CTRL", ctrl)
  /\ seu_ctrl' = Stored(w, "SEU_CTRL", seu_ctrl)
  /\ int_mask' = Stored(w, "INT_MASK", int_mask)

\* Mutant: START is taken as a level, not as an edge.
SearchControlLevelMutant ==
  /\ start_prev' = (START \in ctrl)
  /\ LET begins == START \in ctrl /\ ~dp_busy /\ ~dma_busy
     IN  \/ RESET \in ctrl /\ status_reg' = READY
         \/ RESET \notin ctrl /\ begins /\ status_reg' = BUSY
         \/ RESET \notin ctrl /\ ~begins /\ dp_done /\ status_reg' = DONE
         \/ RESET \notin ctrl /\ ~begins /\ ~dp_done /\ UNCHANGED status_reg

\* Mutant: RESET does not clear DONE.
SearchControlResetMutant ==
  /\ start_prev' = (START \in ctrl)
  /\ LET begins == ctrl_start_pulse /\ ~dp_busy /\ ~dma_busy
     IN  \/ begins /\ status_reg' = BUSY
         \/ ~begins /\ dp_done /\ status_reg' = DONE
         \/ ~begins /\ ~dp_done /\ UNCHANGED status_reg

SearchControl ==
  /\ start_prev' = (START \in ctrl)
  /\ LET begins == ctrl_start_pulse /\ ~dp_busy /\ ~dma_busy
     IN  \/ RESET \in ctrl /\ status_reg' = READY
         \/ RESET \notin ctrl /\ begins /\ status_reg' = BUSY
         \/ RESET \notin ctrl /\ ~begins /\ dp_done /\ status_reg' = DONE
         \/ RESET \notin ctrl /\ ~begins /\ ~dp_done /\ UNCHANGED status_reg

\* Mutant: SEU_RESET does not bring seu_status_reg back to READY.
SeuControlMutant ==
  /\ seu_start_prev' = (START \in seu_ctrl)
  /\ LET begins == seu_start_pulse /\ ~seu_busy
     IN  \/ begins /\ seu_status_reg' = BUSY
         \/ ~begins /\ seu_done /\ seu_status_reg' = DONE
         \/ ~begins /\ ~seu_done /\ UNCHANGED seu_status_reg

SeuControl ==
  /\ seu_start_prev' = (START \in seu_ctrl)
  /\ LET begins == seu_start_pulse /\ ~seu_busy
     IN  \/ RESET \in seu_ctrl /\ seu_status_reg' = READY
         \/ RESET \notin seu_ctrl /\ begins /\ seu_status_reg' = BUSY
         \/ RESET \notin seu_ctrl /\ ~begins /\ seu_done /\ seu_status_reg' = DONE
         \/ RESET \notin seu_ctrl /\ ~begins /\ ~seu_done /\ UNCHANGED seu_status_reg

\* Setting has priority over a write-1-to-clear that lands at the same edge.
SearchIrq(w) ==
  irq_pending_sppu' =
    \/ dp_done /\ COMPLETE \in int_mask
    \/ irq_pending_sppu /\ ~(Hits(w, "INT_STATUS") /\ COMPLETE \in w.bits)

\* Mutant: SEU_RESET clears the interrupt, too.
SeuIrqMutant(w) ==
  irq_pending_seu' =
    \/ seu_done /\ INT_EN \in seu_ctrl
    \/ /\ irq_pending_seu /\ RESET \notin seu_ctrl
       /\ ~(/\ Hits(w, "INT_STATUS") \/ Hits(w, "SEU_IRQ_STATUS")
            /\ SEU_DONE \in w.bits)

SeuIrq(w) ==
  irq_pending_seu' =
    \/ seu_done /\ INT_EN \in seu_ctrl
    \/ /\ irq_pending_seu
       /\ ~(/\ Hits(w, "INT_STATUS") \/ Hits(w, "SEU_IRQ_STATUS")
            /\ SEU_DONE \in w.bits)

\* Mutant: BUSY on every START edge, taken by the generator or not.
TreeStatusStartMutant ==
  \/ RESET \in seu_ctrl /\ tree_status' = READY
  \/ RESET \notin seu_ctrl /\ ~seu_busy /\ seu_start_pulse /\ tree_status' = BUSY
  \/ RESET \notin seu_ctrl /\ seu_busy /\ ~seu_busy' /\ tree_status' = DONE
  \/ /\ RESET \notin seu_ctrl
     /\ IF seu_busy THEN seu_busy' ELSE ~seu_start_pulse
     /\ UNCHANGED tree_status

\* Mutant: SEU_RESET leaves SEU_STATUS as it is.
TreeStatusResetMutant ==
  \/ ~seu_busy /\ seu_start /\ tree_status' = BUSY
  \/ seu_busy /\ ~seu_busy' /\ tree_status' = DONE
  \/ (IF seu_busy THEN seu_busy' ELSE ~seu_start) /\ UNCHANGED tree_status

\* SEU_STATUS as software reads it: the generator's own status register,
\* not seu_status_reg.
TreeStatus ==
  \/ RESET \in seu_ctrl /\ tree_status' = READY
  \/ RESET \notin seu_ctrl /\ ~seu_busy /\ seu_start /\ tree_status' = BUSY
  \/ RESET \notin seu_ctrl /\ seu_busy /\ ~seu_busy' /\ tree_status' = DONE
  \/ /\ RESET \notin seu_ctrl
     /\ IF seu_busy THEN seu_busy' ELSE ~seu_start
     /\ UNCHANGED tree_status

\* The done output of the DMA reader is connected to nothing, so only its
\* busy flag is kept.
Engines ==
  /\ Dp!Step(dp_start, FALSE)
  /\ dma_busy' \in IF dma_busy THEN BOOLEAN ELSE {dma_start}
  /\ Seu!Step(seu_start, RESET \in seu_ctrl)

\* One rising clock edge at which the bus presents w (Quiet: nothing).
Tick(w) ==
  /\ WriteChannel(w)
  /\ SearchControl
  /\ SeuControl
  /\ SearchIrq(w)
  /\ SeuIrq(w)
  /\ Engines
  /\ TreeStatus

\* Any bus master: a write whenever the channel can take one.
Next ==
  \/ Tick(Quiet)
  \/ aw_state = 0 /\ \E w \in BusWrites : Tick(w)

(***************************************************************************)
(* Fairness: the clock runs, and a busy dot-product or SEU engine comes to *)
(* its last state (their state machines are loops over bounded counters,   *)
(* see SppuDotprod).  Nothing is assumed of the DMA reader, which waits    *)
(* for the host's memory port.                                             *)
(***************************************************************************)
DpFinishes  == Next /\ Dp!Finish
SeuFinishes == Next /\ Seu!Finish

Fairness == WF_vars(Next) /\ WF_vars(DpFinishes) /\ WF_vars(SeuFinishes)

Spec == Init /\ [][Next]_vars

FairSpec == Spec /\ Fairness

(***************************************************************************)
(* Properties.                                                             *)
(***************************************************************************)

\* A search that software reads as BUSY is being worked on: the dot-product
\* engine is running, or has finished and its done pulse is on the wire, so
\* STATUS can never be stuck at BUSY with nothing left to change it.
\* (sppu_top.v status_reg against the engine's busy and done.)
BusyHasEngine == status_reg = BUSY => dp_busy \/ dp_done

\* A BUSY search leads to a completion of the dot-product engine whatever
\* software writes meanwhile, START, RESET and interrupt clears included.
BusySearchCompletes == status_reg = BUSY ~> dp_done

\* SEU_STATUS reads BUSY exactly while the generator runs, and STATUS and
\* SEU_STATUS do not mix: neither a search completion nor a search RESET
\* can change what the tree generator reports.
TreeStatusTracksEngine == tree_status = BUSY <=> seu_busy
=============================================================================
