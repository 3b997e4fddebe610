------------------------------ MODULE SppuHost ------------------------------
(***************************************************************************)
(* The hardware mode of kernel_module/sppu_driver.c and the waiting loops  *)
(* of sdk/src/libsppu.c on top of the FPGA control logic (SppuTop): a      *)
(* process that runs searches, a process that has trees predicted, and the *)
(* interrupt handler.  Every step of a process takes one clock cycle of    *)
(* the device; between two of its steps the device and the others may run  *)
(* for any number of cycles.                                               *)
(***************************************************************************)
EXTENDS SppuTop

CONSTANTS
  Users,         \* the processes that run, a subset of {"search", "seu"}
  SearchMask,    \* what SPPU_IOCTL_START writes to INT_MASK: bit 2 alone
                 \* (SPPU_CTRL_INT_EN) in the code
  ResetsFirst,   \* the search process calls sppu_reset before each search
  Abandons       \* a wait may time out, or its process be killed

ASSUME HostAssumption ==
  /\ Users \subseteq {"search", "seu"}
  /\ SearchMask \in SUBSET (0..2)
  /\ {ResetsFirst, Abandons} \subseteq BOOLEAN

VARIABLES
  lock,                  \* holder of sppu.lock: "free" or one of Users
  search_pc, seu_pc,     \* where each process is
  irq_pc, isr,           \* the handler, and the INT_STATUS value it read
  done_flag, seu_done_flag

(***************************************************************************)
(* History variables.  The runs of an engine are told apart only by        *)
(* whether they serve the latest START the process wrote ("current") or an *)
(* earlier one ("old").  No step depends on them.                          *)
(***************************************************************************)
VARIABLES
  search_run, search_result,    \* the run in the engine; the run whose
  seu_run, seu_result,          \* result it holds
  behind,                       \* the search began while the engine was still
                                \* at work on one the process gave up
  rolled_back,                  \* no prediction has ended since the last
                                \* rollback, or since power-on
  unseen                        \* completions with their interrupt enabled
                                \* that no handler has yet reported

processes == <<lock, search_pc, seu_pc, irq_pc, isr, done_flag, seu_done_flag>>
history   == <<search_run, search_result, seu_run, seu_result, behind,
               rolled_back, unseen>>
hostVars  == <<vars, processes, history>>

Runs == {"none", "old", "current"}

HostTypeOK ==
  /\ TypeOK
  /\ lock \in {"free"} \cup Users
  /\ search_pc \in {"idle", "reset", "release", "mask", "start", "wait", "got"}
  /\ seu_pc \in {"idle", "start", "wait", "got", "release"}
  /\ irq_pc \in {"idle", "clear", "flag"}
  /\ isr \in SUBSET {COMPLETE, SEU_DONE}
  /\ done_flag \in BOOLEAN /\ seu_done_flag \in BOOLEAN
  /\ {search_run, search_result, seu_run, seu_result} \subseteq Runs
  /\ behind \in BOOLEAN /\ rolled_back \in BOOLEAN
  /\ unseen \in SUBSET {COMPLETE, SEU_DONE}

HostInit ==
  /\ Init
  /\ lock = "free" /\ search_pc = "idle" /\ seu_pc = "idle"
  /\ irq_pc = "idle" /\ isr = {}
  /\ done_flag = FALSE /\ seu_done_flag = FALSE
  /\ search_run = "none" /\ search_result = "none"
  /\ seu_run = "none" /\ seu_result = "none"
  /\ behind = FALSE /\ rolled_back = TRUE /\ unseen = {}

(***************************************************************************)
(* One clock cycle with write w, and what it does to the history.          *)
(***************************************************************************)
Write(reg, bits) == [reg |-> reg, bits |-> bits]

Starts(w, reg) == Hits(w, reg) /\ START \in w.bits

Outdated(run) == IF run = "current" THEN "old" ELSE run

\* The history of an engine when its process writes a new START (outdates),
\* the engine takes a start (begins), or it finishes a run (ends).
Follow(outdates, begins, ends, run, result, run1, result1) ==
  LET r == IF outdates THEN Outdated(run) ELSE run
      s == IF outdates THEN Outdated(result) ELSE result
  IN  /\ run1    = IF begins THEN "current" ELSE IF ends THEN "none" ELSE r
      /\ result1 = IF ends THEN r ELSE s

Cycle(w) ==
  /\ Tick(w)
  /\ Follow(Starts(w, "CTRL"), dp_start /\ ~dp_busy, Dp!Finish,
            search_run, search_result, search_run', search_result')
  /\ Follow(Starts(w, "SEU_CTRL"), ~seu_busy /\ seu_busy', Seu!Finish,
            seu_run, seu_result, seu_run', seu_result')

\* Completions that raise an interrupt at this edge.
Raised == (IF dp_done /\ COMPLETE \in int_mask THEN {COMPLETE} ELSE {})
            \cup (IF seu_done /\ INT_EN \in seu_ctrl THEN {SEU_DONE} ELSE {})

Unreported == unseen' = unseen \cup Raised

(***************************************************************************)
(* The search process: sppu_open, the RESET and START ioctls under         *)
(* sppu.lock, the polling loop of sppu_wait_result, GET_RESULT.            *)
(***************************************************************************)
others == <<seu_pc, irq_pc, isr, seu_done_flag, rolled_back>>
rest   == <<others, behind>>

OpenDevice ==
  /\ search_pc = "idle" /\ "search" \in Users
  /\ search_pc' = IF ResetsFirst THEN "reset" ELSE "mask"
  /\ done_flag' = FALSE
  /\ behind' = (dp_busy \/ dp_done)
  /\ Cycle(Quiet) /\ Unreported /\ UNCHANGED <<lock, others>>

WriteReset ==
  /\ search_pc = "reset" /\ lock = "free" /\ aw_state = 0
  /\ search_pc' = "release" /\ lock' = "search"
  /\ Cycle(Write("CTRL", {RESET})) /\ Unreported
  /\ UNCHANGED <<done_flag, rest>>

ReleaseReset ==
  /\ search_pc = "release" /\ aw_state = 0
  /\ search_pc' = "mask" /\ lock' = "free" /\ done_flag' = FALSE
  /\ Cycle(Write("CTRL", {})) /\ Unreported /\ UNCHANGED rest

WriteMask ==
  /\ search_pc = "mask" /\ lock = "free" /\ aw_state = 0
  /\ search_pc' = "start" /\ lock' = "search"
  /\ Cycle(Write("INT_MASK", SearchMask)) /\ Unreported
  /\ UNCHANGED <<done_flag, rest>>

\* Mutant: the spin lock is not released.
WriteStartMutant ==
  /\ search_pc = "start" /\ aw_state = 0
  /\ search_pc' = "wait"
  /\ Cycle(Write("CTRL", {START, INT_EN})) /\ Unreported
  /\ UNCHANGED <<lock, done_flag, rest>>

WriteStart ==
  /\ search_pc = "start" /\ aw_state = 0
  /\ search_pc' = "wait" /\ lock' = "free"
  /\ Cycle(Write("CTRL", {START, INT_EN})) /\ Unreported
  /\ UNCHANGED <<done_flag, rest>>

\* A poll that reads anything else sleeps and polls again: no change.
PollDone ==
  /\ search_pc = "wait" /\ lock = "free" /\ status_reg = DONE
  /\ search_pc' = "got"
  /\ Cycle(Quiet) /\ Unreported /\ UNCHANGED <<lock, done_flag, rest>>

GetResult ==
  /\ search_pc = "got" /\ lock = "free"
  /\ search_pc' = "idle"
  /\ Cycle(Quiet) /\ Unreported /\ UNCHANGED <<lock, done_flag, rest>>

Abandon ==
  /\ Abandons /\ search_pc = "wait"
  /\ search_pc' = "idle"
  /\ Cycle(Quiet) /\ Unreported /\ UNCHANGED <<lock, done_flag, rest>>

(***************************************************************************)
(* The SEU process: sppu_predict_tree, that is SEU_START, which writes     *)
(* SEU_CTRL twice, and a polling loop that ends with a tree or a timeout;  *)
(* and sppu_seu_rollback, a call of its own that a caller may make or not  *)
(* between two predictions.                                                *)
(***************************************************************************)
seuRest  == <<search_pc, irq_pc, isr, done_flag, seu_done_flag, behind>>
seuWaits == <<lock, seuRest>>

EnableSeuIrq ==
  /\ seu_pc = "idle" /\ "seu" \in Users /\ lock = "free" /\ aw_state = 0
  /\ seu_pc' = "start" /\ lock' = "seu"
  /\ Cycle(Write("SEU_CTRL", {INT_EN})) /\ Unreported
  /\ UNCHANGED <<seuRest, rolled_back>>

StartSeu ==
  /\ seu_pc = "start" /\ aw_state = 0
  /\ seu_pc' = "wait" /\ lock' = "free"
  /\ Cycle(Write("SEU_CTRL", {INT_EN, START})) /\ Unreported
  /\ UNCHANGED <<seuRest, rolled_back>>

\* SEU_GET_TREE reads the status; anything but DONE sleeps and polls again.
PollTree ==
  /\ seu_pc = "wait" /\ lock = "free" /\ tree_status = DONE
  /\ seu_pc' = "got"
  /\ Cycle(Quiet) /\ Unreported /\ UNCHANGED <<seuWaits, rolled_back>>

\* sppu_predict_tree returns the tree.  It leaves the SEU at DONE.
UseTree ==
  /\ seu_pc = "got"
  /\ seu_pc' = "idle" /\ rolled_back' = FALSE
  /\ Cycle(Quiet) /\ Unreported /\ UNCHANGED seuWaits

\* It returns ETIMEDOUT, or its process is killed: the generator goes on.
AbandonTree ==
  /\ Abandons /\ seu_pc = "wait"
  /\ seu_pc' = "idle" /\ rolled_back' = FALSE
  /\ Cycle(Quiet) /\ Unreported /\ UNCHANGED seuWaits

Rollback ==
  /\ seu_pc = "idle" /\ "seu" \in Users /\ lock = "free" /\ aw_state = 0
  /\ seu_pc' = "release" /\ lock' = "seu"
  /\ Cycle(Write("SEU_CTRL", {RESET})) /\ Unreported
  /\ UNCHANGED <<seuRest, rolled_back>>

ReleaseSeuReset ==
  /\ seu_pc = "release" /\ aw_state = 0
  /\ seu_pc' = "idle" /\ lock' = "free" /\ rolled_back' = TRUE
  /\ Cycle(Write("SEU_CTRL", {})) /\ Unreported /\ UNCHANGED seuRest

(***************************************************************************)
(* sppu_irq_handler: read INT_STATUS once; for each of the two bits that   *)
(* was set, clear it in the device, then set the driver's flag.  It takes  *)
(* no lock.                                                                *)
(***************************************************************************)
irqRest == <<lock, search_pc, seu_pc, behind, rolled_back>>

\* The bit the handler deals with next.
Handled == IF COMPLETE \in isr THEN COMPLETE ELSE SEU_DONE

\* Mutant: the handler reads CTRL, the register at offset 0.
ReadIntStatusMutant ==
  /\ irq_pc = "idle" /\ irq
  /\ irq_pc' = "clear" /\ isr' = ctrl
  /\ Cycle(Quiet) /\ Unreported
  /\ UNCHANGED <<irqRest, done_flag, seu_done_flag>>

ReadIntStatus ==
  /\ irq_pc = "idle" /\ irq
  /\ irq_pc' = "clear" /\ isr' = int_status
  /\ Cycle(Quiet) /\ Unreported
  /\ UNCHANGED <<irqRest, done_flag, seu_done_flag>>

ClearInterrupt ==
  /\ irq_pc = "clear" /\ aw_state = 0
  /\ irq_pc' = "flag"
  /\ Cycle(Write("INT_STATUS", {Handled})) /\ Unreported
  /\ UNCHANGED <<irqRest, isr, done_flag, seu_done_flag>>

SetFlag ==
  /\ irq_pc = "flag"
  /\ isr' = isr \ {Handled}
  /\ irq_pc' = IF isr' = {} THEN "idle" ELSE "clear"
  /\ done_flag' = (done_flag \/ Handled = COMPLETE)
  /\ seu_done_flag' = (seu_done_flag \/ Handled = SEU_DONE)
  /\ Cycle(Quiet)
  /\ unseen' = (unseen \ {Handled}) \cup Raised
  /\ UNCHANGED irqRest

(***************************************************************************)
(* The system.                                                             *)
(***************************************************************************)
Clock == UNCHANGED <<processes, behind, rolled_back>> /\ Cycle(Quiet) /\ Unreported

SearchStep == \/ OpenDevice \/ WriteReset \/ ReleaseReset \/ WriteMask
              \/ WriteStart \/ PollDone \/ GetResult
SeuStep    == \/ EnableSeuIrq \/ StartSeu \/ PollTree \/ UseTree
              \/ Rollback \/ ReleaseSeuReset
IrqStep    == ReadIntStatus \/ ClearInterrupt \/ SetFlag

HostNext == \/ Clock \/ SearchStep \/ Abandon
            \/ SeuStep \/ AbandonTree \/ IrqStep

HostSpec == HostInit /\ [][HostNext]_hostVars

(***************************************************************************)
(* Fairness: the clock runs and the two engines finish, as in SppuTop; a   *)
(* process that can take its next step infinitely often does, since the    *)
(* spin lock and the write channel are always released again; so does the  *)
(* handler, which the interrupt controller calls while irq is high.        *)
(* Nothing is assumed of giving up, nor that a process begins a search, a  *)
(* prediction or a rollback.                                               *)
(***************************************************************************)
HostFairness ==
  /\ WF_hostVars(Clock)
  /\ WF_hostVars(Dp!Finish /\ Clock)
  /\ WF_hostVars(Seu!Finish /\ Clock)
  /\ SF_hostVars(search_pc # "idle" /\ SearchStep)
  /\ SF_hostVars(seu_pc # "idle" /\ SeuStep)
  /\ SF_hostVars(IrqStep)

HostFairSpec == HostSpec /\ HostFairness

(***************************************************************************)
(* Properties.                                                             *)
(***************************************************************************)

\* When sppu_wait_result has seen DONE, the result registers hold the
\* result of the search this process started last: never that of an earlier
\* search, and never nothing.  (STATUS, the START edge and the engine.)
\* Excepted is a search that begins while the engine is at work on one that
\* was given up: RESET does not stop the engine, its completion passes for
\* the new search's, and so the next search may begin behind as well.
FreshResult == search_pc = "got" => search_result = "current" \/ behind

\* When the first sppu_predict_tree since the SEU was rolled back, or since
\* power-on, has seen DONE, the tree in memory is the one its own SEU_START
\* generated, even if the rollback came upon a generator at work for a
\* prediction that was given up.  (SEU_STATUS, seu_status_reg, the START edge
\* and the generator.)  Excepted are the predictions that follow without a
\* rollback: their START starts nothing, and they read the tree before.
FreshTree == seu_pc = "got" /\ rolled_back => seu_result = "current"

\* A completion whose interrupt is enabled is never lost: until the handler
\* has set the driver's flag for it, either its pending bit keeps irq high,
\* or the handler has cleared the bit and is about to set the flag.
NoLostCompletion ==
  \A bit \in unseen :
    \/ bit \in int_status
    \/ irq_pc = "flag" /\ Handled = bit

\* A search that software finds DONE has told the driver so by interrupt:
\* its flag is set or on its way ("IRQ-driven completion").
DoneIsSignalled ==
  search_pc = "got" =>
    \/ done_flag
    \/ COMPLETE \in int_status
    \/ irq_pc # "idle" /\ COMPLETE \in isr

\* A started search ends: sppu_wait_result waits no more, although it has no
\* other end than DONE (timeout_ms = 0), whatever the SEU process, the
\* interrupt handler and a DMA transfer that never completes do meanwhile.
SearchEnds == []<>(search_pc # "wait")

\* A tree prediction ends in the same way, with or without a rollback
\* before it, and also when it follows one that was given up.
PredictionEnds == []<>(seu_pc # "wait")

\* A completion whose interrupt is enabled does not stay unreported: the
\* handler comes to set the flag of the driver, even if the next search or
\* tree is already at work.  (With the INT_MASK the driver writes, the
\* completions that interrupt are those of the SEU.)
CompletionReported ==
  \A bit \in {COMPLETE, SEU_DONE} :
    []<>(bit \in unseen => irq_pc = "flag" /\ Handled = bit)
=============================================================================
