--------------------------- MODULE SppuHostProofs ---------------------------
(***************************************************************************)
(* Safety of the FPGA control logic for every set of bus writes, and of    *)
(* the driver on it, for every interrupt mask and any set of processes,    *)
(* whether or not they reset first.                                        *)
(***************************************************************************)
EXTENDS SppuHost, TLAPS

(***************************************************************************)
(* What one clock edge does to the type of each group of registers.        *)
(***************************************************************************)

\* The write channel stores values of the right kind (sppu_regs.v).
LEMMA WriteChannelType ==
  ASSUME TypeOK, NEW w \in Writes \cup {Quiet}, WriteChannel(w)
  PROVE  /\ aw_state' \in {0, 2}
         /\ ctrl' \in SUBSET (0..2) /\ seu_ctrl' \in SUBSET (0..2)
         /\ int_mask' \in SUBSET (0..2)
<1>1. w.bits \in SUBSET (0..2)
  BY DEF Writes, Quiet
<1>. QED
  BY <1>1 DEF TypeOK, WriteChannel, Stored

\* The two status machines and the start-edge detectors (sppu_top.v).
LEMMA ControlType ==
  ASSUME TypeOK, SearchControl, SeuControl
  PROVE  /\ start_prev' \in BOOLEAN /\ seu_start_prev' \in BOOLEAN
         /\ status_reg' \in {READY, BUSY, DONE}
         /\ seu_status_reg' \in {READY, BUSY, DONE}
<1>1. start_prev' \in BOOLEAN /\ seu_start_prev' \in BOOLEAN
  BY DEF SearchControl, SeuControl
<1>2. status_reg' \in {READY, BUSY, DONE}
  BY DEF TypeOK, SearchControl
<1>3. seu_status_reg' \in {READY, BUSY, DONE}
  BY DEF TypeOK, SeuControl
<1>. QED
  BY <1>1, <1>2, <1>3

\* The engine flags stay Boolean (the handshake of the three engines).
LEMMA EngineType ==
  ASSUME TypeOK, Engines, TreeStatus
  PROVE  /\ Dp!TypeOK' /\ Seu!TypeOK' /\ dma_busy' \in BOOLEAN
         /\ tree_status' \in {READY, BUSY, DONE}
<1>1. ctrl_start_pulse \in BOOLEAN /\ dma_start \in BOOLEAN
      /\ dp_start \in BOOLEAN /\ seu_start \in BOOLEAN
  BY DEF ctrl_start_pulse, dma_start, dp_start, seu_start, seu_start_pulse
<1>2. Dp!TypeOK'
  BY <1>1 DEF Engines, Dp!Step, Dp!Abort, Dp!Idle, Dp!Work, Dp!Finish,
              Dp!TypeOK
<1>3. Seu!TypeOK'
  BY <1>1 DEF Engines, Seu!Step, Seu!Abort, Seu!Idle, Seu!Work, Seu!Finish,
              Seu!TypeOK
<1>4. dma_busy' \in BOOLEAN
  BY <1>1 DEF TypeOK, Engines
<1>5. tree_status' \in {READY, BUSY, DONE}
  BY DEF TypeOK, TreeStatus
<1>. QED
  BY <1>2, <1>3, <1>4, <1>5

\* One edge keeps every register within its type.
LEMMA TickType ==
  ASSUME TypeOK, NEW w \in Writes \cup {Quiet}, Tick(w)
  PROVE  TypeOK'
<1>1. irq_pending_sppu' \in BOOLEAN /\ irq_pending_seu' \in BOOLEAN
  BY DEF Tick, SearchIrq, SeuIrq
<1>. QED
  BY <1>1, WriteChannelType, ControlType, EngineType DEF Tick, TypeOK

\* Every step of SppuTop is a clock edge with some write, or none.
LEMMA NextIsTick ==
  ASSUME Next
  PROVE  \E w \in Writes \cup {Quiet} : Tick(w)
BY BusWritesAssumption DEF Next

\* Every register of sppu_top keeps its type.
THEOREM TypeCorrect == Spec => []TypeOK
<1>1. Init => TypeOK
  BY DEF Init, TypeOK, Dp!Init, Seu!Init, Dp!TypeOK, Seu!TypeOK
<1>2. TypeOK /\ [Next]_vars => TypeOK'
  <2>1. CASE Next
    BY <2>1, NextIsTick, TickType
  <2>2. CASE UNCHANGED vars
    BY <2>2 DEF vars, regs, control, irqs, engines, TypeOK, Dp!TypeOK, Seu!TypeOK
  <2>. QED
    BY <2>1, <2>2
<1>. QED
  BY <1>1, <1>2, PTL DEF Spec

(***************************************************************************)
(* STATUS reads BUSY only while the dot-product engine runs or its done    *)
(* pulse is on the wire.  The invariant is inductive: status_reg becomes   *)
(* BUSY only at an edge at which an idle engine takes the same start, and  *)
(* the engine leaves busy only by raising done, which the status machine   *)
(* sees at the very next edge.                                             *)
(***************************************************************************)
LEMMA TickBusy ==
  ASSUME TypeOK, BusyHasEngine, NEW w, Tick(w)
  PROVE  BusyHasEngine'
<1>. SUFFICES ASSUME status_reg' = BUSY PROVE dp_busy' \/ dp_done'
  BY DEF BusyHasEngine
<1>. DEFINE begins == ctrl_start_pulse /\ ~dp_busy /\ ~dma_busy
<1>1. SearchControl /\ Dp!Step(dp_start, FALSE)
  BY DEF Tick, Engines
<1>2. CASE begins
  BY <1>1, <1>2 DEF Dp!Step, Dp!Idle, Dp!Work, Dp!Finish, dp_start
<1>3. CASE ~begins
  <2>1. status_reg = BUSY /\ ~dp_done
    BY <1>1, <1>3 DEF SearchControl, READY, BUSY, DONE
  <2>2. dp_busy
    BY <2>1 DEF BusyHasEngine
  <2>. QED
    BY <1>1, <2>2 DEF Dp!Step, Dp!Idle, Dp!Work, Dp!Finish
<1>. QED
  BY <1>2, <1>3

THEOREM BusyHasEngineAlways == Spec => []BusyHasEngine
<1>1. Init => BusyHasEngine
  BY DEF Init, BusyHasEngine, READY, BUSY
<1>2. TypeOK /\ BusyHasEngine /\ [Next]_vars => BusyHasEngine'
  <2>1. ASSUME TypeOK, BusyHasEngine, Next PROVE BusyHasEngine'
    BY <2>1, NextIsTick, TickBusy
  <2>2. ASSUME BusyHasEngine, UNCHANGED vars PROVE BusyHasEngine'
    BY <2>2 DEF vars, control, engines, BusyHasEngine
  <2>. QED
    BY <2>1, <2>2
<1>. QED
  BY <1>1, <1>2, TypeCorrect, PTL DEF Spec

(***************************************************************************)
(* SEU_STATUS reads BUSY exactly while the tree generator runs, whatever   *)
(* software writes: starts in any state, and resets in the middle of a     *)
(* run.                                                                    *)
(***************************************************************************)
LEMMA TickTree ==
  ASSUME TypeOK, TreeStatusTracksEngine, NEW w, Tick(w)
  PROVE  TreeStatusTracksEngine'
<1>1. Seu!Step(seu_start, RESET \in seu_ctrl) /\ TreeStatus
  BY DEF Tick, Engines
<1>2. CASE RESET \in seu_ctrl
  BY <1>1, <1>2 DEF Seu!Step, Seu!Abort, TreeStatus, TreeStatusTracksEngine,
                    READY, BUSY, DONE
<1>3. CASE RESET \notin seu_ctrl /\ seu_busy
  BY <1>1, <1>3 DEF Seu!Step, Seu!Idle, Seu!Work, Seu!Finish, TreeStatus,
                    TreeStatusTracksEngine, READY, BUSY, DONE
<1>4. CASE RESET \notin seu_ctrl /\ ~seu_busy
  <2>1. seu_busy' = seu_start
    BY <1>1, <1>4 DEF Seu!Step, Seu!Idle, Seu!Work, Seu!Finish
  <2>2. seu_start \in BOOLEAN
    BY DEF seu_start, seu_start_pulse
  <2>. QED
    BY <1>1, <1>4, <2>1, <2>2 DEF TreeStatus, TreeStatusTracksEngine,
                                  READY, BUSY, DONE
<1>. QED
  BY <1>2, <1>3, <1>4

THEOREM TreeStatusCorrect == Spec => []TreeStatusTracksEngine
<1>1. Init => TreeStatusTracksEngine
  BY DEF Init, Seu!Init, TreeStatusTracksEngine, READY, BUSY
<1>2. TypeOK /\ TreeStatusTracksEngine /\ [Next]_vars => TreeStatusTracksEngine'
  <2>1. ASSUME TypeOK, TreeStatusTracksEngine, Next
        PROVE  TreeStatusTracksEngine'
    BY <2>1, NextIsTick, TickTree
  <2>2. ASSUME TreeStatusTracksEngine, UNCHANGED vars
        PROVE  TreeStatusTracksEngine'
    BY <2>2 DEF vars, engines, TreeStatusTracksEngine
  <2>. QED
    BY <2>1, <2>2
<1>. QED
  BY <1>1, <1>2, TypeCorrect, PTL DEF Spec

(***************************************************************************)
(* One clock cycle.                                                        *)
(***************************************************************************)

\* The history stays in its range.
LEMMA FollowTypes ==
  ASSUME NEW outdates, NEW begins, NEW ends, NEW run \in Runs, NEW result \in Runs,
         NEW run1, NEW result1, Follow(outdates, begins, ends, run, result, run1, result1)
  PROVE  run1 \in Runs /\ result1 \in Runs
BY DEF Follow, Outdated, Runs

LEMMA CycleTypes ==
  ASSUME HostTypeOK, NEW w \in Writes \cup {Quiet}, Cycle(w)
  PROVE  /\ TypeOK' /\ search_run' \in Runs /\ search_result' \in Runs
         /\ seu_run' \in Runs /\ seu_result' \in Runs
<1>1. TypeOK /\ search_run \in Runs /\ search_result \in Runs
      /\ seu_run \in Runs /\ seu_result \in Runs
  BY DEF HostTypeOK
<1>2. TypeOK' BY <1>1, TickType DEF Cycle
<1>3. search_run' \in Runs /\ search_result' \in Runs BY <1>1, FollowTypes DEF Cycle
<1>4. seu_run' \in Runs /\ seu_result' \in Runs BY <1>1, FollowTypes DEF Cycle
<1>. QED BY <1>2, <1>3, <1>4

LEMMA RaisedTypes == Raised \in SUBSET {COMPLETE, SEU_DONE}
BY DEF Raised

LEMMA UnreportedTypes == ASSUME HostTypeOK, Unreported PROVE unseen' \in SUBSET {COMPLETE, SEU_DONE}
BY RaisedTypes DEF HostTypeOK, Unreported

\* What the processes and the handler write.
LEMMA WriteTypes ==
  /\ Quiet \in Writes \cup {Quiet}
  /\ \A bits \in SUBSET (0..2) :
       \A reg \in Registers : Write(reg, bits) \in Writes \cup {Quiet}
BY DEF Writes, Write

LEMMA Bits ==
  /\ {} \in SUBSET (0..2) /\ {RESET} \in SUBSET (0..2) /\ {INT_EN} \in SUBSET (0..2)
  /\ {START, INT_EN} \in SUBSET (0..2) /\ {INT_EN, START} \in SUBSET (0..2)
  /\ SearchMask \in SUBSET (0..2)
  /\ \A bit \in {COMPLETE, SEU_DONE} : {bit} \in SUBSET (0..2)
BY HostAssumption DEF START, RESET, INT_EN, COMPLETE, SEU_DONE

(***************************************************************************)
(* Every step is one cycle with a write of the process that steps; only    *)
(* the handler clears interrupts.                                          *)
(***************************************************************************)
HostWrites ==
  [reg : {"CTRL", "INT_MASK", "SEU_CTRL"}, bits : SUBSET (0..2)] \cup {Quiet}

LEMMA ClearWrites ==
  /\ Handled \in {COMPLETE, SEU_DONE}
  /\ Write("INT_STATUS", {Handled}) \in Writes
BY Bits, WriteTypes DEF Handled, Registers, Write, Writes

LEMMA SearchSteps ==
  ASSUME SearchStep \/ Abandon
  PROVE  /\ \E w \in HostWrites : Cycle(w)
         /\ Unreported
         /\ UNCHANGED others
<1>. USE Bits DEF HostWrites, Write, rest
<1>1. CASE OpenDevice BY <1>1 DEF OpenDevice
<1>2. CASE WriteReset BY <1>2 DEF WriteReset
<1>3. CASE ReleaseReset BY <1>3 DEF ReleaseReset
<1>4. CASE WriteMask BY <1>4 DEF WriteMask
<1>5. CASE WriteStart BY <1>5 DEF WriteStart
<1>6. CASE PollDone \/ GetResult \/ Abandon BY <1>6 DEF PollDone, GetResult, Abandon
<1>. QED BY <1>1, <1>2, <1>3, <1>4, <1>5, <1>6 DEF SearchStep

LEMMA SeuSteps ==
  ASSUME SeuStep \/ AbandonTree
  PROVE  /\ \E w \in HostWrites : Cycle(w)
         /\ Unreported
         /\ UNCHANGED seuRest
<1>. USE Bits DEF HostWrites, Write, seuWaits
<1>1. CASE EnableSeuIrq BY <1>1 DEF EnableSeuIrq
<1>2. CASE StartSeu BY <1>2 DEF StartSeu
<1>3. CASE PollTree \/ UseTree \/ AbandonTree
  BY <1>3 DEF PollTree, UseTree, AbandonTree
<1>4. CASE Rollback BY <1>4 DEF Rollback
<1>5. CASE ReleaseSeuReset BY <1>5 DEF ReleaseSeuReset
<1>. QED BY <1>1, <1>2, <1>3, <1>4, <1>5 DEF SeuStep

LEMMA HostWritesAreWrites == HostWrites \subseteq Writes \cup {Quiet}
BY DEF HostWrites, Writes, Registers

(***************************************************************************)
(* Types.                                                                  *)
(***************************************************************************)
ProcessTypes ==
  /\ lock \in {"free"} \cup Users
  /\ search_pc \in {"idle", "reset", "release", "mask", "start", "wait", "got"}
  /\ seu_pc \in {"idle", "start", "wait", "got", "release"}
  /\ irq_pc \in {"idle", "clear", "flag"}
  /\ isr \in SUBSET {COMPLETE, SEU_DONE}
  /\ done_flag \in BOOLEAN /\ seu_done_flag \in BOOLEAN
  /\ behind \in BOOLEAN /\ rolled_back \in BOOLEAN

\* Only processes that run ever leave their first step, so that the lock is
\* only ever theirs.
UsersRun ==
  /\ search_pc # "idle" => "search" \in Users
  /\ seu_pc # "idle" => "seu" \in Users

LEMMA SearchProcess ==
  ASSUME ProcessTypes, UsersRun, SearchStep \/ Abandon
  PROVE  ProcessTypes' /\ UsersRun'
<1>. USE DEF ProcessTypes, UsersRun, others, rest
<1>1. CASE OpenDevice
  <2>1. behind' \in BOOLEAN BY <1>1 DEF OpenDevice
  <2>. QED BY <1>1, <2>1 DEF OpenDevice
<1>2. CASE WriteReset BY <1>2 DEF WriteReset
<1>3. CASE ReleaseReset BY <1>3 DEF ReleaseReset
<1>4. CASE WriteMask BY <1>4 DEF WriteMask
<1>5. CASE WriteStart BY <1>5 DEF WriteStart
<1>6. CASE PollDone BY <1>6 DEF PollDone
<1>7. CASE GetResult BY <1>7 DEF GetResult
<1>8. CASE Abandon BY <1>8 DEF Abandon
<1>. QED BY <1>1, <1>2, <1>3, <1>4, <1>5, <1>6, <1>7, <1>8 DEF SearchStep

LEMMA SeuProcess ==
  ASSUME ProcessTypes, UsersRun, SeuStep \/ AbandonTree
  PROVE  ProcessTypes' /\ UsersRun'
<1>. USE DEF ProcessTypes, UsersRun, seuRest, seuWaits
<1>1. CASE EnableSeuIrq BY <1>1 DEF EnableSeuIrq
<1>2. CASE StartSeu BY <1>2 DEF StartSeu
<1>3. CASE PollTree BY <1>3 DEF PollTree
<1>4. CASE UseTree BY <1>4 DEF UseTree
<1>5. CASE Rollback BY <1>5 DEF Rollback
<1>6. CASE ReleaseSeuReset BY <1>6 DEF ReleaseSeuReset
<1>7. CASE AbandonTree BY <1>7 DEF AbandonTree
<1>. QED BY <1>1, <1>2, <1>3, <1>4, <1>5, <1>6, <1>7 DEF SeuStep

LEMMA Handler ==
  ASSUME ProcessTypes, UsersRun, IrqStep PROVE ProcessTypes' /\ UsersRun'
<1>. USE DEF ProcessTypes, UsersRun, irqRest
<1>1. CASE ReadIntStatus
  <2>1. int_status \in SUBSET {COMPLETE, SEU_DONE} BY DEF int_status
  <2>. QED BY <1>1, <2>1 DEF ReadIntStatus
<1>2. CASE ClearInterrupt BY <1>2 DEF ClearInterrupt
<1>3. CASE SetFlag
  <2>1. done_flag' \in BOOLEAN /\ seu_done_flag' \in BOOLEAN BY <1>3 DEF SetFlag
  <2>2. isr' \in SUBSET {COMPLETE, SEU_DONE} BY <1>3 DEF SetFlag
  <2>3. irq_pc' \in {"idle", "clear"} BY <1>3 DEF SetFlag
  <2>. QED BY <1>3, <2>1, <2>2, <2>3 DEF SetFlag
<1>. QED BY <1>1, <1>2, <1>3 DEF IrqStep

\* Every step is a clock cycle.
LEMMA EveryStepIsCycle ==
  ASSUME HostNext PROVE \E w \in Writes \cup {Quiet} : Cycle(w)
<1>1. CASE Clock BY <1>1 DEF Clock
<1>2. CASE SearchStep \/ Abandon BY <1>2, SearchSteps, HostWritesAreWrites
<1>3. CASE SeuStep \/ AbandonTree BY <1>3, SeuSteps, HostWritesAreWrites
<1>4. CASE IrqStep
  BY <1>4, ClearWrites DEF IrqStep, ReadIntStatus, ClearInterrupt, SetFlag
<1>. QED BY <1>1, <1>2, <1>3, <1>4 DEF HostNext

LEMMA UnseenTypes ==
  ASSUME HostTypeOK, HostNext PROVE unseen' \in SUBSET {COMPLETE, SEU_DONE}
<1>1. CASE SetFlag BY <1>1, RaisedTypes DEF SetFlag, HostTypeOK
<1>2. CASE Unreported BY <1>2, UnreportedTypes
<1>. QED
  BY <1>1, <1>2, SearchSteps, SeuSteps
  DEF HostNext, Clock, IrqStep, ReadIntStatus, ClearInterrupt

HostTypes == HostTypeOK /\ UsersRun

LEMMA HostTypesStep == ASSUME HostTypes, HostNext PROVE HostTypes'
<1>1. ProcessTypes BY DEF HostTypes, HostTypeOK, ProcessTypes
<1>2. ProcessTypes' /\ UsersRun'
  <2>1. CASE Clock
    BY <2>1, <1>1 DEF Clock, processes, ProcessTypes, UsersRun, HostTypes
  <2>. QED BY <1>1, <2>1, SearchProcess, SeuProcess, Handler DEF HostNext, HostTypes
<1>3. PICK w \in Writes \cup {Quiet} : Cycle(w) BY EveryStepIsCycle
<1>4. /\ TypeOK' /\ search_run' \in Runs /\ search_result' \in Runs
      /\ seu_run' \in Runs /\ seu_result' \in Runs
  BY <1>3, CycleTypes DEF HostTypes
<1>5. unseen' \in SUBSET {COMPLETE, SEU_DONE} BY UnseenTypes DEF HostTypes
<1>. QED BY <1>2, <1>4, <1>5 DEF HostTypes, HostTypeOK, ProcessTypes

LEMMA HostTypesStutter == ASSUME HostTypes, UNCHANGED hostVars PROVE HostTypes'
<1>1. UNCHANGED <<vars, processes, history>> BY DEF hostVars
<1>2. TypeOK'
  BY <1>1 DEF HostTypes, HostTypeOK, vars, regs, control, irqs, engines, TypeOK,
              Dp!TypeOK, Seu!TypeOK
<1>. QED BY <1>1, <1>2 DEF HostTypes, HostTypeOK, UsersRun, processes, history

LEMMA HostTypesInit == HostInit => HostTypes
<1>. SUFFICES ASSUME HostInit PROVE HostTypes OBVIOUS
<1>1. TypeOK BY DEF HostInit, Init, TypeOK, Dp!Init, Seu!Init, Dp!TypeOK, Seu!TypeOK
<1>. QED BY <1>1 DEF HostInit, HostTypes, HostTypeOK, UsersRun, Runs

LEMMA HostTypesAlways == HostSpec => []HostTypes
<1>1. HostTypes /\ [HostNext]_hostVars => HostTypes' BY HostTypesStep, HostTypesStutter
<1>. QED BY <1>1, HostTypesInit, PTL DEF HostSpec

\* The variables of the device, the driver and the processes stay in their
\* ranges; the lock is never held by a process that does not run.
THEOREM HostTypeCorrect == HostSpec => []HostTypeOK
<1>1. HostTypes => HostTypeOK BY DEF HostTypes
<1>. QED BY <1>1, HostTypesAlways, PTL

(***************************************************************************)
(* No completion is lost.                                                  *)
(***************************************************************************)

\* A cycle raises what it must, and only a write of INT_STATUS (or of its
\* alias) lowers a bit, and of the bits written only.
LEMMA PendingBits ==
  ASSUME NEW w, Cycle(w)
  PROVE  /\ Raised \subseteq int_status'
         /\ w.reg \notin {"INT_STATUS", "SEU_IRQ_STATUS"} => int_status \subseteq int_status'
         /\ int_status \ w.bits \subseteq int_status'
<1>1. SearchIrq(w) /\ SeuIrq(w) BY DEF Cycle, Tick
<1>2. COMPLETE \in Raised \/ (COMPLETE \in int_status /\ (w.reg # "INT_STATUS" \/ COMPLETE \notin w.bits))
        => irq_pending_sppu'
  BY <1>1 DEF SearchIrq, Raised, int_status, Hits, COMPLETE, SEU_DONE
<1>3. SEU_DONE \in Raised \/ (SEU_DONE \in int_status
            /\ (w.reg \notin {"INT_STATUS", "SEU_IRQ_STATUS"} \/ SEU_DONE \notin w.bits))
        => irq_pending_seu'
  BY <1>1 DEF SeuIrq, Raised, int_status, Hits, COMPLETE, SEU_DONE
<1>. QED BY <1>2, <1>3 DEF int_status, Raised

LEMMA NoLossStep == ASSUME HostTypeOK, NoLostCompletion, HostNext PROVE NoLostCompletion'
<1>1. ASSUME NEW w \in HostWrites, Cycle(w), Unreported, UNCHANGED <<irq_pc, isr>>
      PROVE  NoLostCompletion'
  <2>1. w.reg \notin {"INT_STATUS", "SEU_IRQ_STATUS"} BY DEF HostWrites, Quiet
  <2>. QED BY <1>1, <2>1, PendingBits DEF NoLostCompletion, Unreported, Handled
<1>2. CASE Clock
  <2>1. Quiet \in HostWrites BY DEF HostWrites
  <2>. QED BY <1>1, <1>2, <2>1 DEF Clock, processes
<1>3. CASE SearchStep \/ Abandon BY <1>1, <1>3, SearchSteps DEF others
<1>4. CASE SeuStep \/ AbandonTree BY <1>1, <1>4, SeuSteps DEF seuRest
<1>5. CASE ReadIntStatus
  <2>1. Cycle(Quiet) /\ Unreported /\ irq_pc = "idle" BY <1>5 DEF ReadIntStatus
  <2>2. Quiet.reg \notin {"INT_STATUS", "SEU_IRQ_STATUS"} BY DEF Quiet
  <2>. QED BY <2>1, <2>2, PendingBits DEF NoLostCompletion, Unreported
<1>6. CASE ClearInterrupt
  <2>1. Cycle(Write("INT_STATUS", {Handled})) /\ Unreported
        /\ irq_pc = "clear" /\ irq_pc' = "flag" /\ isr' = isr
    BY <1>6 DEF ClearInterrupt
  <2>2. Handled' = Handled BY <2>1 DEF Handled
  <2>3. Write("INT_STATUS", {Handled}).bits = {Handled} BY DEF Write
  <2>4. int_status \ {Handled} \subseteq int_status' /\ Raised \subseteq int_status'
    BY <2>1, <2>3, PendingBits
  <2>. QED BY <2>1, <2>2, <2>4 DEF NoLostCompletion, Unreported
<1>7. CASE SetFlag
  <2>1. Cycle(Quiet) /\ unseen' = (unseen \ {Handled}) \cup Raised BY <1>7 DEF SetFlag
  <2>2. Quiet.reg \notin {"INT_STATUS", "SEU_IRQ_STATUS"} BY DEF Quiet
  <2>. QED BY <2>1, <2>2, PendingBits DEF NoLostCompletion
<1>. QED BY <1>2, <1>3, <1>4, <1>5, <1>6, <1>7 DEF HostNext, IrqStep

\* A completion whose interrupt is enabled is pending, or is being reported,
\* until the driver's flag is set: whatever the search and the SEU process
\* do at the same time, and although the handler takes no lock.
THEOREM CompletionsKept == HostSpec => []NoLostCompletion
<1>1. HostInit => NoLostCompletion BY DEF HostInit, NoLostCompletion
<1>2. HostTypeOK /\ NoLostCompletion /\ [HostNext]_hostVars => NoLostCompletion'
  <2>1. ASSUME NoLostCompletion, UNCHANGED hostVars PROVE NoLostCompletion'
    BY <2>1 DEF hostVars, vars, irqs, processes, history, NoLostCompletion,
                int_status, Handled
  <2>. QED BY <2>1, NoLossStep
<1>. QED BY <1>1, <1>2, HostTypeCorrect, PTL DEF HostSpec

(***************************************************************************)
(* The first tree predicted since a rollback is fresh.  The invariant      *)
(* follows the generator through the cycles of that prediction: at rest,   *)
(* asked but not yet started, at work, and finished.  What SEU_CTRL holds, *)
(* and that a reset puts the generator to rest, is true of any prediction. *)
(***************************************************************************)
AtRest   == ~seu_busy /\ ~seu_done /\ tree_status = READY /\ seu_status_reg = READY
Asked    == AtRest /\ ~seu_start_prev
AtWork   == seu_busy /\ tree_status = BUSY /\ seu_start_prev /\ seu_run = "current"
Finished == ~seu_busy /\ tree_status = DONE /\ seu_start_prev /\ seu_result = "current"

Started == START \in seu_ctrl /\ RESET \notin seu_ctrl

FirstPrediction ==
  /\ seu_pc \in {"idle", "start"} => Asked /\ START \notin seu_ctrl
  /\ seu_pc = "wait" => Asked \/ AtWork \/ Finished
  /\ seu_pc = "got" => Finished

SeuInv ==
  /\ seu_pc \in {"wait", "got"} => Started
  /\ seu_pc = "release" =>
       START \notin seu_ctrl /\ RESET \in seu_ctrl /\ (aw_state = 2 \/ Asked)
  /\ rolled_back => FirstPrediction

\* What a cycle does to SEU_CTRL and its edge detector.
LEMMA SeuRegister ==
  ASSUME NEW w, Cycle(w)
  PROVE  /\ w.reg # "SEU_CTRL" => seu_ctrl' = seu_ctrl
         /\ w.reg = "SEU_CTRL" /\ aw_state = 0 => seu_ctrl' = w.bits
         /\ seu_start_prev' <=> START \in seu_ctrl
BY DEF Cycle, Tick, WriteChannel, Stored, Hits, SeuControl

\* SEU_RESET stops the generator wherever it is.
LEMMA ResetRests == ASSUME NEW w, Cycle(w), RESET \in seu_ctrl PROVE AtRest'
BY DEF Cycle, Tick, Engines, Seu!Step, Seu!Abort, SeuControl, TreeStatus, AtRest,
       READY, BUSY, DONE

\* Without START it stays at rest.
LEMMA StaysAtRest ==
  ASSUME NEW w, Cycle(w), AtRest, START \notin seu_ctrl PROVE AtRest'
<1>1. CASE RESET \in seu_ctrl BY <1>1, ResetRests
<1>2. CASE RESET \notin seu_ctrl
  <2>1. ~seu_start_pulse /\ ~seu_start BY DEF seu_start, seu_start_pulse
  <2>2. ~seu_busy' /\ ~seu_done'
    BY <1>2, <2>1 DEF Cycle, Tick, Engines, Seu!Step, Seu!Idle, Seu!Work, Seu!Finish, AtRest
  <2>3. seu_status_reg' = READY
    BY <1>2, <2>1 DEF Cycle, Tick, SeuControl, AtRest
  <2>4. tree_status' = READY
    BY <1>2, <2>1 DEF Cycle, Tick, TreeStatus, AtRest
  <2>. QED BY <2>2, <2>3, <2>4 DEF AtRest
<1>. QED BY <1>1, <1>2

\* The edge of START is taken at the next cycle.
LEMMA StartsWork ==
  ASSUME NEW w, Cycle(w), Asked, Started PROVE AtWork'
<1>1. seu_start /\ seu_start_pulse
  BY DEF seu_start, seu_start_pulse, Asked, AtRest, Started
<1>2. seu_busy'
  BY <1>1 DEF Cycle, Tick, Engines, Seu!Step, Seu!Idle, Seu!Work, Seu!Finish,
              Asked, AtRest, Started
<1>3. tree_status' = BUSY
  BY <1>1, <1>2 DEF Cycle, Tick, TreeStatus, Asked, AtRest, Started
<1>4. seu_run' = "current"
  BY <1>2 DEF Cycle, Follow, Asked, AtRest
<1>. QED BY <1>2, <1>3, <1>4, SeuRegister DEF AtWork, Started

\* The generator goes on, or finishes the run it serves.
LEMMA WorksOn ==
  ASSUME NEW w, Cycle(w), w.reg # "SEU_CTRL", AtWork, Started
  PROVE  AtWork' \/ Finished'
<1>1. ~Starts(w, "SEU_CTRL") BY DEF Starts, Hits
<1>2. seu_start_prev' BY SeuRegister DEF Started
<1>3. CASE seu_busy'
  <2>1. tree_status' = BUSY BY <1>3 DEF Cycle, Tick, TreeStatus, AtWork, Started
  <2>2. seu_run' = "current"
    BY <1>1, <1>3 DEF Cycle, Follow, AtWork, Seu!Finish
  <2>. QED BY <1>2, <1>3, <2>1, <2>2 DEF AtWork
<1>4. CASE ~seu_busy'
  <2>1. Seu!Finish
    BY <1>4 DEF Cycle, Tick, Engines, Seu!Step, Seu!Idle, Seu!Work, Seu!Finish,
                AtWork, Started
  <2>2. tree_status' = DONE BY <1>4 DEF Cycle, Tick, TreeStatus, AtWork, Started
  <2>3. seu_result' = "current" BY <1>1, <2>1 DEF Cycle, Follow, AtWork
  <2>. QED BY <1>2, <1>4, <2>2, <2>3 DEF Finished
<1>. QED BY <1>3, <1>4

\* START that is not written anew starts nothing.
LEMMA StaysFinished ==
  ASSUME NEW w, Cycle(w), w.reg # "SEU_CTRL", Finished, Started PROVE Finished'
<1>1. ~Starts(w, "SEU_CTRL") /\ ~seu_start
  BY DEF Starts, Hits, seu_start, seu_start_pulse, Finished
<1>2. ~seu_busy'
  BY <1>1 DEF Cycle, Tick, Engines, Seu!Step, Seu!Idle, Seu!Work, Seu!Finish,
              Finished, Started
<1>3. tree_status' = DONE
  BY <1>1, <1>2 DEF Cycle, Tick, TreeStatus, Finished, Started
<1>4. seu_result' = "current"
  BY <1>1 DEF Cycle, Follow, Finished, Seu!Finish
<1>. QED BY <1>2, <1>3, <1>4, SeuRegister DEF Finished, Started

\* A cycle in which the SEU process does nothing.
LEMMA SeuWaits ==
  ASSUME SeuInv, NEW w, Cycle(w), w.reg # "SEU_CTRL",
         seu_pc' = seu_pc, rolled_back' = rolled_back
  PROVE  SeuInv'
<1>1. seu_ctrl' = seu_ctrl /\ (seu_start_prev' <=> START \in seu_ctrl) BY SeuRegister
<1>2. seu_pc \in {"wait", "got"} => Started' BY <1>1 DEF SeuInv, Started
<1>3. seu_pc = "release" => START \notin seu_ctrl' /\ RESET \in seu_ctrl' /\ Asked'
  BY <1>1, ResetRests DEF SeuInv, Asked
<1>4. ASSUME rolled_back PROVE FirstPrediction'
  <2>1. seu_pc \in {"idle", "start"} => Asked' /\ START \notin seu_ctrl'
    BY <1>1, <1>4, StaysAtRest DEF SeuInv, FirstPrediction, Asked
  <2>2. seu_pc = "wait" => AtWork' \/ Finished'
    BY <1>4, StartsWork, WorksOn, StaysFinished DEF SeuInv, FirstPrediction
  <2>3. seu_pc = "got" => Finished'
    BY <1>4, StaysFinished DEF SeuInv, FirstPrediction
  <2>. QED BY <2>1, <2>2, <2>3 DEF FirstPrediction
<1>. QED BY <1>2, <1>3, <1>4 DEF SeuInv

LEMMA SeuStepInv == ASSUME SeuInv, SeuStep \/ AbandonTree PROVE SeuInv'
<1>. USE DEF START, RESET, INT_EN, SeuInv, FirstPrediction
<1>1. CASE EnableSeuIrq
  <2>1. Cycle(Write("SEU_CTRL", {INT_EN})) /\ aw_state = 0 /\ seu_pc = "idle"
        /\ seu_pc' = "start" /\ rolled_back' = rolled_back
    BY <1>1 DEF EnableSeuIrq
  <2>2. seu_ctrl' = {INT_EN} BY <2>1, SeuRegister DEF Write
  <2>3. rolled_back => Asked' BY <2>1, StaysAtRest, SeuRegister DEF Asked
  <2>. QED BY <2>1, <2>2, <2>3
<1>2. CASE StartSeu
  <2>1. Cycle(Write("SEU_CTRL", {INT_EN, START})) /\ aw_state = 0
        /\ seu_pc = "start" /\ seu_pc' = "wait" /\ rolled_back' = rolled_back
    BY <1>2 DEF StartSeu
  <2>2. seu_ctrl' = {INT_EN, START} BY <2>1, SeuRegister DEF Write
  <2>3. rolled_back => Asked' BY <2>1, StaysAtRest, SeuRegister DEF Asked
  <2>. QED BY <2>1, <2>2, <2>3 DEF Started
<1>3. CASE PollTree
  <2>1. Cycle(Quiet) /\ seu_pc = "wait" /\ seu_pc' = "got" /\ tree_status = DONE
        /\ rolled_back' = rolled_back
    BY <1>3 DEF PollTree
  <2>2. Quiet.reg # "SEU_CTRL" BY DEF Quiet
  <2>3. Started /\ (rolled_back => Finished)
    BY <2>1 DEF Asked, AtRest, AtWork, READY, BUSY, DONE
  <2>4. Started' BY <2>1, <2>2, <2>3, SeuRegister DEF Started
  <2>5. rolled_back => Finished' BY <2>1, <2>2, <2>3, StaysFinished
  <2>. QED BY <2>1, <2>4, <2>5
<1>4. CASE UseTree \/ AbandonTree
  BY <1>4 DEF UseTree, AbandonTree
<1>5. CASE Rollback
  <2>1. Cycle(Write("SEU_CTRL", {RESET})) /\ aw_state = 0 /\ seu_pc' = "release"
    BY <1>5 DEF Rollback
  <2>2. seu_ctrl' = {RESET} BY <2>1, SeuRegister DEF Write
  <2>3. aw_state' = 2
    BY <2>1 DEF Cycle, Tick, WriteChannel, Write, Quiet
  <2>. QED BY <2>1, <2>2, <2>3
<1>6. CASE ReleaseSeuReset
  <2>1. Cycle(Write("SEU_CTRL", {})) /\ aw_state = 0 /\ seu_pc = "release"
        /\ seu_pc' = "idle"
    BY <1>6 DEF ReleaseSeuReset
  <2>2. seu_ctrl' = {} BY <2>1, SeuRegister DEF Write
  <2>3. Asked' BY <2>1, ResetRests, SeuRegister DEF Asked
  <2>. QED BY <2>1, <2>2, <2>3
<1>. QED BY <1>1, <1>2, <1>3, <1>4, <1>5, <1>6 DEF SeuStep

\* The first prediction since a rollback, or since power-on, sees DONE only
\* for the tree its own START generated, whatever was predicted or given up
\* before that rollback: what the search process and the handler write in
\* between, and how long the generator and the bus take, makes no difference.
THEOREM TreesFresh == HostSpec => []FreshTree
<1>1. HostInit => SeuInv
  BY DEF HostInit, Init, Seu!Init, SeuInv, FirstPrediction, Asked, AtRest
<1>2. SeuInv /\ [HostNext]_hostVars => SeuInv'
  <2>. SUFFICES ASSUME SeuInv, [HostNext]_hostVars PROVE SeuInv' OBVIOUS
  <2>1. Quiet.reg # "SEU_CTRL" BY DEF Quiet
  <2>2. CASE Clock BY <2>1, <2>2, SeuWaits DEF Clock, processes
  <2>3. CASE SearchStep \/ Abandon
    BY <2>1, <2>3, SeuWaits DEF SearchStep, OpenDevice, WriteReset, ReleaseReset,
       WriteMask, WriteStart, PollDone, GetResult, Abandon, Write, others, rest
  <2>4. CASE SeuStep \/ AbandonTree BY <2>4, SeuStepInv
  <2>5. CASE IrqStep
    BY <2>1, <2>5, SeuWaits
    DEF IrqStep, ReadIntStatus, ClearInterrupt, SetFlag, Write, irqRest
  <2>6. CASE UNCHANGED hostVars
    BY <2>6 DEF hostVars, vars, regs, control, engines, processes, history, SeuInv,
                FirstPrediction, Started, Asked, AtRest, AtWork, Finished
  <2>. QED BY <2>2, <2>3, <2>4, <2>5, <2>6 DEF HostNext
<1>3. SeuInv => FreshTree BY DEF SeuInv, FirstPrediction, Finished, FreshTree
<1>. QED BY <1>1, <1>2, <1>3, PTL DEF HostSpec

(***************************************************************************)
(* A result is fresh if the search process resets first.  The engine       *)
(* cannot be stopped, so the invariant speaks of a search that found it at *)
(* rest; the same phases as above.                                         *)
(***************************************************************************)
DpAtRest   == ~dp_busy /\ ~dp_done
DpAsked    == DpAtRest /\ status_reg = READY /\ ~start_prev
DpAtWork   == dp_busy /\ status_reg # DONE /\ start_prev /\ search_run = "current"
DpFinished == ~dp_busy /\ start_prev /\ search_result = "current"

\* What CTRL holds at each step of the process: START is an edge only in the
\* cycle after it was written.
CtrlInv ==
  /\ search_pc \in {"idle", "reset"} => (START \in ctrl => start_prev)
  /\ search_pc = "release" => START \notin ctrl /\ RESET \in ctrl
  /\ search_pc \in {"mask", "start"} => START \notin ctrl /\ RESET \notin ctrl
  /\ search_pc \in {"wait", "got"} => START \in ctrl /\ RESET \notin ctrl
  /\ search_pc = "got" => start_prev

SearchInv ==
  ~behind =>
    /\ search_pc = "reset" => DpAtRest
    /\ search_pc = "release" => DpAtRest /\ (aw_state = 2 \/ DpAsked)
    /\ search_pc \in {"mask", "start"} => DpAsked
    /\ search_pc = "wait" => DpAsked \/ DpAtWork \/ DpFinished
    /\ search_pc = "got" => DpFinished

LEMMA SearchRegister ==
  ASSUME NEW w, Cycle(w)
  PROVE  /\ w.reg # "CTRL" => ctrl' = ctrl
         /\ w.reg = "CTRL" /\ aw_state = 0 => ctrl' = w.bits
         /\ start_prev' <=> START \in ctrl
         /\ RESET \in ctrl => status_reg' = READY
BY DEF Cycle, Tick, WriteChannel, Stored, Hits, SearchControl

\* Without an edge of START the engine stays at rest.
LEMMA DpStaysAtRest ==
  ASSUME NEW w, Cycle(w), DpAtRest, START \in ctrl => start_prev
  PROVE  /\ DpAtRest'
         /\ status_reg = READY => status_reg' = READY
<1>1. ~ctrl_start_pulse /\ ~dp_start BY DEF dp_start, ctrl_start_pulse
<1>2. DpAtRest'
  BY <1>1 DEF Cycle, Tick, Engines, Dp!Step, Dp!Idle, Dp!Work, Dp!Finish, DpAtRest
<1>3. status_reg = READY => status_reg' = READY
  BY <1>1 DEF Cycle, Tick, SearchControl, DpAtRest
<1>. QED BY <1>2, <1>3

LEMMA DpStartsWork ==
  ASSUME NEW w, Cycle(w), DpAsked, START \in ctrl, RESET \notin ctrl PROVE DpAtWork'
<1>1. dp_start BY DEF dp_start, ctrl_start_pulse, DpAsked
<1>2. dp_busy'
  BY <1>1 DEF Cycle, Tick, Engines, Dp!Step, Dp!Idle, Dp!Work, Dp!Finish,
              DpAsked, DpAtRest
<1>3. status_reg' # DONE
  BY DEF Cycle, Tick, SearchControl, DpAsked, DpAtRest, READY, BUSY, DONE
<1>4. search_run' = "current"
  BY <1>1 DEF Cycle, Follow, DpAsked, DpAtRest
<1>. QED BY <1>2, <1>3, <1>4, SearchRegister DEF DpAtWork

\* No done pulse, no DONE: the status follows the engine by a cycle.
LEMMA DpWorksOn ==
  ASSUME NEW w, Cycle(w), w.reg # "CTRL", DpAtWork, ~dp_done, START \in ctrl, RESET \notin ctrl
  PROVE  DpAtWork' \/ DpFinished'
<1>1. ~Starts(w, "CTRL") BY DEF Starts, Hits
<1>2. start_prev' BY SearchRegister
<1>3. ~ctrl_start_pulse /\ status_reg' = status_reg
  BY DEF Cycle, Tick, SearchControl, ctrl_start_pulse, DpAtWork
<1>4. CASE dp_busy'
  <2>1. search_run' = "current"
    BY <1>1, <1>4 DEF Cycle, Follow, DpAtWork, Dp!Finish
  <2>. QED BY <1>2, <1>3, <1>4, <2>1 DEF DpAtWork
<1>5. CASE ~dp_busy'
  <2>1. Dp!Finish
    BY <1>5 DEF Cycle, Tick, Engines, Dp!Step, Dp!Idle, Dp!Work, Dp!Finish, DpAtWork
  <2>2. search_result' = "current" BY <1>1, <2>1 DEF Cycle, Follow, DpAtWork
  <2>. QED BY <1>2, <1>5, <2>2 DEF DpFinished
<1>. QED BY <1>4, <1>5

LEMMA DpStaysFinished ==
  ASSUME NEW w, Cycle(w), w.reg # "CTRL", DpFinished, START \in ctrl
  PROVE  DpFinished'
<1>1. ~Starts(w, "CTRL") /\ ~dp_start
  BY DEF Starts, Hits, dp_start, ctrl_start_pulse, DpFinished
<1>2. ~dp_busy'
  BY <1>1 DEF Cycle, Tick, Engines, Dp!Step, Dp!Idle, Dp!Work, Dp!Finish, DpFinished
<1>3. search_result' = "current"
  BY <1>1 DEF Cycle, Follow, DpFinished, Dp!Finish
<1>. QED BY <1>2, <1>3, SearchRegister DEF DpFinished

\* busy and done are never high together.
PulseInv == ~(dp_busy /\ dp_done)

LEMMA PulseStep == ASSUME PulseInv, NEW w, Cycle(w) PROVE PulseInv'
BY DEF PulseInv, Cycle, Tick, Engines, Dp!Step, Dp!Idle, Dp!Work, Dp!Finish

SearchPhases == CtrlInv /\ SearchInv /\ PulseInv

\* A cycle in which the search process does nothing.
LEMMA SearchWaits ==
  ASSUME SearchPhases, NEW w, Cycle(w), w.reg # "CTRL",
         UNCHANGED <<search_pc, behind>>
  PROVE  SearchPhases'
<1>. USE DEF SearchPhases
<1>1. ctrl' = ctrl /\ (start_prev' <=> START \in ctrl)
      /\ (RESET \in ctrl => status_reg' = READY)
  BY SearchRegister
<1>2. CtrlInv' BY <1>1 DEF CtrlInv
<1>3. SearchInv'
  <2>. SUFFICES ASSUME ~behind PROVE SearchInv' BY DEF SearchInv
  <2>1. CASE search_pc = "reset"
    BY <2>1, DpStaysAtRest DEF SearchInv, CtrlInv
  <2>2. CASE search_pc = "release"
    BY <2>2, <1>1, DpStaysAtRest DEF SearchInv, CtrlInv, DpAsked
  <2>3. CASE search_pc \in {"mask", "start"}
    BY <2>3, <1>1, DpStaysAtRest DEF SearchInv, CtrlInv, DpAsked
  <2>4. CASE search_pc = "wait"
    <3>1. START \in ctrl /\ RESET \notin ctrl BY <2>4 DEF CtrlInv
    <3>2. DpAtWork => ~dp_done BY DEF PulseInv, DpAtWork
    <3>3. DpAsked \/ DpAtWork \/ DpFinished BY <2>4 DEF SearchInv
    <3>4. DpAtWork' \/ DpFinished'
      BY <3>1, <3>2, <3>3, DpStartsWork, DpWorksOn, DpStaysFinished
    <3>. QED BY <2>4, <3>4 DEF SearchInv
  <2>5. CASE search_pc = "got"
    BY <2>5, DpStaysFinished DEF SearchInv, CtrlInv
  <2>6. CASE search_pc \notin {"reset", "release", "mask", "start", "wait", "got"}
    BY <2>6 DEF SearchInv
  <2>. QED BY <2>1, <2>2, <2>3, <2>4, <2>5, <2>6
<1>4. PulseInv' BY PulseStep
<1>. QED BY <1>2, <1>3, <1>4

LEMMA SearchStepPhases ==
  ASSUME ResetsFirst, SearchPhases, SearchStep \/ Abandon PROVE SearchPhases'
<1>. USE DEF SearchPhases, START, RESET, INT_EN
<1>0. Quiet.reg # "CTRL" BY DEF Quiet
<1>1. CASE OpenDevice
  <2>1. Cycle(Quiet) /\ search_pc = "idle" /\ search_pc' = "reset"
        /\ (behind' = (dp_busy \/ dp_done))
    BY <1>1 DEF OpenDevice
  <2>2. CtrlInv' BY <1>0, <2>1, SearchRegister DEF CtrlInv
  <2>3. ~behind' => DpAtRest' BY <2>1, DpStaysAtRest DEF CtrlInv, DpAtRest
  <2>. QED BY <2>1, <2>2, <2>3, PulseStep DEF SearchInv
<1>2. CASE WriteReset
  <2>1. Cycle(Write("CTRL", {RESET})) /\ aw_state = 0 /\ search_pc = "reset"
        /\ search_pc' = "release" /\ behind' = behind
    BY <1>2 DEF WriteReset, rest
  <2>2. ctrl' = {RESET} BY <2>1, SearchRegister DEF Write
  <2>3. aw_state' = 2 BY <2>1 DEF Cycle, Tick, WriteChannel, Write, Quiet
  <2>4. ~behind => DpAtRest' BY <2>1, DpStaysAtRest DEF CtrlInv, SearchInv
  <2>. QED BY <2>1, <2>2, <2>3, <2>4, PulseStep DEF CtrlInv, SearchInv
<1>3. CASE ReleaseReset
  <2>1. Cycle(Write("CTRL", {})) /\ aw_state = 0 /\ search_pc = "release"
        /\ search_pc' = "mask" /\ behind' = behind
    BY <1>3 DEF ReleaseReset, rest
  <2>2. ctrl' = {} BY <2>1, SearchRegister DEF Write
  <2>3. ~behind => DpAsked'
    BY <2>1, DpStaysAtRest, SearchRegister DEF CtrlInv, SearchInv, DpAsked
  <2>. QED BY <2>1, <2>2, <2>3, PulseStep DEF CtrlInv, SearchInv
<1>4. CASE WriteMask
  <2>1. Cycle(Write("INT_MASK", SearchMask)) /\ search_pc = "mask"
        /\ search_pc' = "start" /\ behind' = behind
    BY <1>4 DEF WriteMask, rest
  <2>2. ctrl' = ctrl /\ ~start_prev' BY <2>1, SearchRegister DEF Write, CtrlInv
  <2>3. ~behind => DpAsked'
    BY <2>1, <2>2, DpStaysAtRest DEF CtrlInv, SearchInv, DpAsked
  <2>. QED BY <2>1, <2>2, <2>3, PulseStep DEF CtrlInv, SearchInv
<1>5. CASE WriteStart
  <2>1. Cycle(Write("CTRL", {START, INT_EN})) /\ aw_state = 0 /\ search_pc = "start"
        /\ search_pc' = "wait" /\ behind' = behind
    BY <1>5 DEF WriteStart, rest
  <2>2. ctrl' = {START, INT_EN} /\ ~start_prev'
    BY <2>1, SearchRegister DEF Write, CtrlInv
  <2>3. ~behind => DpAsked'
    BY <2>1, <2>2, DpStaysAtRest DEF CtrlInv, SearchInv, DpAsked
  <2>. QED BY <2>1, <2>2, <2>3, PulseStep DEF CtrlInv, SearchInv
<1>6. CASE PollDone
  <2>1. Cycle(Quiet) /\ search_pc = "wait" /\ search_pc' = "got"
        /\ behind' = behind /\ status_reg = DONE
    BY <1>6 DEF PollDone, rest
  <2>2. CtrlInv' BY <1>0, <2>1, SearchRegister DEF CtrlInv
  <2>3. ~behind => DpFinished
    BY <2>1 DEF SearchInv, DpAsked, DpAtWork, READY, DONE
  <2>4. ~behind => DpFinished' BY <1>0, <2>1, <2>3, DpStaysFinished DEF CtrlInv
  <2>. QED BY <2>1, <2>2, <2>4, PulseStep DEF SearchInv
<1>7. CASE GetResult \/ Abandon
  <2>1. Cycle(Quiet) /\ search_pc \in {"wait", "got"} /\ search_pc' = "idle"
    BY <1>7 DEF GetResult, Abandon
  <2>2. CtrlInv' BY <1>0, <2>1, SearchRegister DEF CtrlInv
  <2>. QED BY <2>1, <2>2, PulseStep DEF SearchInv
<1>. QED BY <1>1, <1>2, <1>3, <1>4, <1>5, <1>6, <1>7 DEF SearchStep

LEMMA PhasesStep ==
  ASSUME ResetsFirst, SearchPhases, [HostNext]_hostVars PROVE SearchPhases'
<1>1. Quiet.reg # "CTRL" BY DEF Quiet
<1>2. CASE Clock BY <1>1, <1>2, SearchWaits DEF Clock, processes
<1>3. CASE SearchStep \/ Abandon BY <1>3, SearchStepPhases
<1>4. CASE SeuStep \/ AbandonTree
  BY <1>1, <1>4, SearchWaits DEF SeuStep, EnableSeuIrq, StartSeu, PollTree, UseTree,
     Rollback, ReleaseSeuReset, AbandonTree, Write, seuRest, seuWaits
<1>5. CASE IrqStep
  BY <1>1, <1>5, SearchWaits
  DEF IrqStep, ReadIntStatus, ClearInterrupt, SetFlag, Write, irqRest
<1>6. CASE UNCHANGED hostVars
  BY <1>6 DEF hostVars, vars, regs, control, engines, processes, history, SearchPhases,
              CtrlInv, SearchInv, PulseInv, DpAsked, DpAtRest, DpAtWork, DpFinished
<1>. QED BY <1>2, <1>3, <1>4, <1>5, <1>6 DEF HostNext

LEMMA PhasesInit == HostInit => SearchPhases
BY DEF HostInit, Init, Dp!Init, SearchPhases, CtrlInv, SearchInv, PulseInv

LEMMA PhasesAlways == HostSpec => [](ResetsFirst => SearchPhases)
<1>1. HostInit => (ResetsFirst => SearchPhases) BY PhasesInit
<1>2. (ResetsFirst => SearchPhases) /\ [HostNext]_hostVars
        => (ResetsFirst => SearchPhases)'
  BY PhasesStep
<1>. QED BY <1>1, <1>2, PTL DEF HostSpec

\* A process that resets first gets the result of its own search, if it
\* began it with the engine at rest.
THEOREM ResultsFresh == HostSpec => [](ResetsFirst => FreshResult)
<1>1. SearchPhases => FreshResult
  BY DEF SearchPhases, SearchInv, DpFinished, FreshResult
<1>. QED BY <1>1, PhasesAlways, PTL

(***************************************************************************)
(* The driver, its processes and its handler together are one of the bus   *)
(* masters SppuTop speaks of: they write only when the channel is ready,   *)
(* and nothing that SppuTop does not expect.                               *)
(***************************************************************************)
Device == INSTANCE SppuTop WITH BusWrites <- Writes

DeviceSpec == Device!Spec

LEMMA SameConstants ==
  /\ Device!START = START /\ Device!RESET = RESET /\ Device!INT_EN = INT_EN
  /\ Device!COMPLETE = COMPLETE /\ Device!SEU_DONE = SEU_DONE
  /\ Device!READY = READY /\ Device!BUSY = BUSY /\ Device!DONE = DONE
  /\ Device!Quiet = Quiet
BY DEF START, RESET, INT_EN, COMPLETE, SEU_DONE, READY, BUSY, DONE, Quiet,
       Device!START, Device!RESET, Device!INT_EN, Device!COMPLETE,
       Device!SEU_DONE, Device!READY, Device!BUSY, Device!DONE, Device!Quiet

LEMMA SameWires ==
  /\ Device!ctrl_start_pulse = ctrl_start_pulse
  /\ Device!seu_start_pulse = seu_start_pulse
  /\ Device!dma_start = dma_start /\ Device!dp_start = dp_start
  /\ Device!seu_start = seu_start
BY SameConstants
   DEF ctrl_start_pulse, seu_start_pulse, dma_start, dp_start, seu_start,
       Device!ctrl_start_pulse, Device!seu_start_pulse, Device!dma_start,
       Device!dp_start, Device!seu_start

LEMMA SameEngines == Device!Engines <=> Engines
<1>1. ASSUME NEW start, NEW abort
      PROVE  Device!Dp!Step(start, abort) <=> Dp!Step(start, abort)
  BY DEF Dp!Step, Dp!Idle, Dp!Work, Dp!Finish, Dp!Abort, Device!Dp!Step,
         Device!Dp!Idle, Device!Dp!Work, Device!Dp!Finish, Device!Dp!Abort
<1>2. ASSUME NEW start, NEW abort
      PROVE  Device!Seu!Step(start, abort) <=> Seu!Step(start, abort)
  BY DEF Seu!Step, Seu!Idle, Seu!Work, Seu!Finish, Seu!Abort, Device!Seu!Step,
         Device!Seu!Idle, Device!Seu!Work, Device!Seu!Finish, Device!Seu!Abort
<1>. QED BY <1>1, <1>2, SameConstants, SameWires DEF Engines, Device!Engines

LEMMA SameTick == ASSUME NEW w PROVE Device!Tick(w) <=> Tick(w)
<1>. USE SameConstants, SameWires
<1>1. Device!WriteChannel(w) <=> WriteChannel(w)
  BY DEF WriteChannel, Stored, Hits, Device!WriteChannel, Device!Stored, Device!Hits
<1>2. Device!SearchControl <=> SearchControl
  BY DEF SearchControl, Device!SearchControl
<1>3. Device!SeuControl <=> SeuControl
  BY DEF SeuControl, Device!SeuControl
<1>4. (Device!SearchIrq(w) <=> SearchIrq(w)) /\ (Device!SeuIrq(w) <=> SeuIrq(w))
  BY DEF SearchIrq, SeuIrq, Hits, Device!SearchIrq, Device!SeuIrq, Device!Hits
<1>5. Device!TreeStatus <=> TreeStatus
  BY DEF TreeStatus, Device!TreeStatus
<1>. QED BY <1>1, <1>2, <1>3, <1>4, <1>5, SameEngines DEF Tick, Device!Tick

\* No step presents a write that the channel would miss.
LEMMA WritesWhenReady ==
  ASSUME HostNext
  PROVE  \E w \in Writes \cup {Quiet} : Cycle(w) /\ (w # Quiet => aw_state = 0)
<1>. USE Bits, WriteTypes DEF Registers
<1>1. CASE SearchStep \/ Abandon
  BY <1>1 DEF SearchStep, OpenDevice, WriteReset, ReleaseReset, WriteMask,
     WriteStart, PollDone, GetResult, Abandon
<1>2. CASE SeuStep \/ AbandonTree
  BY <1>2 DEF SeuStep, EnableSeuIrq, StartSeu, PollTree, UseTree, Rollback,
     ReleaseSeuReset, AbandonTree
<1>3. CASE IrqStep
  BY <1>3, ClearWrites DEF IrqStep, ReadIntStatus, ClearInterrupt, SetFlag
<1>4. CASE Clock BY <1>4 DEF Clock
<1>. QED BY <1>1, <1>2, <1>3, <1>4 DEF HostNext

\* Whatever the processes and the handler do, the device takes the steps of
\* SppuTop: what holds of it under any bus master holds under the driver.
THEOREM DriverIsBusMaster == HostSpec => DeviceSpec
<1>1. HostInit => Device!Init
  BY SameConstants DEF HostInit, Init, Dp!Init, Seu!Init, Device!Init,
     Device!Dp!Init, Device!Seu!Init
<1>2. [HostNext]_hostVars => [Device!Next]_(Device!vars)
  <2>1. ASSUME HostNext PROVE Device!Next
    <3>1. PICK w \in Writes \cup {Quiet} : Tick(w) /\ (w # Quiet => aw_state = 0)
      BY <2>1, WritesWhenReady DEF Cycle
    <3>2. Device!Tick(w) BY <3>1, SameTick
    <3>. QED BY <3>1, <3>2, SameConstants DEF Device!Next
  <2>2. UNCHANGED hostVars => UNCHANGED Device!vars
    BY DEF hostVars, vars, regs, control, irqs, engines, Device!vars,
       Device!regs, Device!control, Device!irqs, Device!engines
  <2>. QED BY <2>1, <2>2
<1>. QED BY <1>1, <1>2, PTL DEF HostSpec, DeviceSpec, Device!Spec

\* While the driver works, too, a search that reads as BUSY has an engine
\* behind it, and SEU_STATUS reads BUSY exactly while the generator runs:
\* sppu_wait_result and sppu_predict_tree never poll for something that no
\* engine is going to end.
THEOREM StatusUnderDriver ==
  HostSpec => [](BusyHasEngine /\ TreeStatusTracksEngine)
<1>. DEFINE P == BusyHasEngine /\ TreeStatusTracksEngine
<1>1. HostInit => P
  BY DEF HostInit, Init, Seu!Init, BusyHasEngine, TreeStatusTracksEngine, READY, BUSY
<1>2. HostTypeOK /\ P /\ [HostNext]_hostVars => P'
  <2>1. ASSUME HostTypeOK, P, HostNext PROVE P'
    <3>1. PICK w : Tick(w) BY <2>1, EveryStepIsCycle DEF Cycle
    <3>2. TypeOK BY <2>1 DEF HostTypeOK
    <3>. QED BY <2>1, <3>1, <3>2, TickBusy, TickTree
  <2>2. ASSUME P, UNCHANGED hostVars PROVE P'
    BY <2>2 DEF hostVars, vars, control, engines, BusyHasEngine, TreeStatusTracksEngine
  <2>. QED BY <2>1, <2>2
<1>. HIDE DEF P
<1>3. HostSpec => []P BY <1>1, <1>2, HostTypeCorrect, PTL DEF HostSpec
<1>. QED BY <1>3 DEF P
=============================================================================
