------------------------------ MODULE QemuGuest ------------------------------
(***************************************************************************)
(* The hardware mode of kernel_module/sppu_driver.c on the virtual device  *)
(* of qemu/sppu_qemu.c: a process at its ioctls, the interrupt handler on  *)
(* another CPU, and the driver being loaded, bound, unbound and unloaded   *)
(* around them (DriverLifecycle).  Register accesses are served one at a   *)
(* time by the virtual machine; between two of them anything may happen.   *)
(* (The device's PCI id, 5780, is not the driver's, 5781: it is bound      *)
(* through new_id in sysfs, and may be unbound in the same way.)           *)
(***************************************************************************)
EXTENDS DriverLifecycle, QemuDevice

VARIABLES
  ioctl,                 \* the second half of an ioctl that is under way,
                         \* or "lost": it accessed registers not mapped
  handler, isr,          \* the handler, and the INT_STATUS value it read
  irq_off,               \* the kernel has disabled the interrupt
  done_flag

interrupt == <<handler, isr, irq_off>>
vars      == <<lifecycle, device, interrupt, ioctl, done_flag>>

GuestTypeOK ==
  /\ ioctl \in {"none", "reset", "start", "seu_start", "lost"}
  /\ handler \in {"idle", "clear", "flag"}
  /\ isr \in SUBSET {COMPLETE, SEU_DONE}
  /\ irq_off \in BOOLEAN /\ done_flag \in BOOLEAN

TypeOK == LifecycleTypeOK /\ DeviceTypeOK /\ GuestTypeOK

Init ==
  /\ LifecycleInit /\ DeviceInit
  /\ ioctl = "none" /\ handler = "idle" /\ isr = {}
  /\ irq_off = FALSE /\ done_flag = FALSE

(***************************************************************************)
(* The driver is loaded, bound, unbound and unloaded.                      *)
(***************************************************************************)
LoadModule ==
  /\ Load /\ done_flag' = FALSE
  /\ UNCHANGED <<device, interrupt, ioctl>>

OpenDevice ==
  /\ Open /\ done_flag' = FALSE
  /\ UNCHANGED <<device, interrupt, ioctl>>

CloseDevice ==
  /\ Release /\ ioctl = "none"
  /\ UNCHANGED <<device, interrupt, ioctl, done_flag>>

\* The interrupt is enabled again when a handler is installed.
InstallHandler ==
  /\ RequestIrq
  /\ irq_off' = (irq_off /\ ~requested')
  /\ UNCHANGED <<device, handler, isr, ioctl, done_flag>>

\* The device keeps its state over an unbind; the probe's last writes are
\* RESET, 0, and the value STATUS then has.
ResetDevice ==
  /\ ProbeDone /\ DeviceReset
  /\ UNCHANGED <<interrupt, ioctl, done_flag>>

\* Mutant: free_irq does not wait for a running handler.
SynchronizeIrqMutant ==
  /\ Synchronize(FALSE)
  /\ UNCHANGED <<device, interrupt, ioctl, done_flag>>

SynchronizeIrq ==
  /\ Synchronize(handler # "idle")
  /\ UNCHANGED <<device, interrupt, ioctl, done_flag>>

\* Nothing keeps the registers mapped for an ioctl under way.
UnmapRegisters ==
  /\ Unmap
  /\ ioctl' = IF ioctl = "none" THEN "none" ELSE "lost"
  /\ UNCHANGED <<device, interrupt, done_flag>>

Elsewhere == UNCHANGED <<device, interrupt, ioctl, done_flag>>

Administer ==
  \/ LoadModule \/ (Unload /\ Elsewhere)
  \/ (InitStep /\ Elsewhere) \/ (ExitStep /\ Elsewhere)
  \/ OpenDevice \/ CloseDevice
  \/ (Probe /\ Elsewhere) \/ (Enable /\ Elsewhere)
  \/ (RequestRegions /\ Elsewhere)
  \/ (MapBar0 /\ Elsewhere) \/ (MapBar2 /\ Elsewhere)
  \/ (AllocVectors /\ Elsewhere) \/ InstallHandler \/ ResetDevice
  \/ (ErrRegions /\ Elsewhere) \/ (ErrDisable /\ Elsewhere)
  \/ (Remove /\ Elsewhere) \/ (FreeIrq /\ Elsewhere) \/ SynchronizeIrq
  \/ (FreeVectors /\ Elsewhere) \/ UnmapRegisters
  \/ (ReleaseRegions /\ Elsewhere) \/ (Disable /\ Elsewhere)

(***************************************************************************)
(* The ioctls that drive the device, under sppu.lock.                      *)
(***************************************************************************)
Begin(next) ==
  /\ file /\ ~emulation /\ module # "out" /\ ioctl = "none" /\ bar0
  /\ ioctl' = next
  /\ UNCHANGED <<lifecycle, interrupt, done_flag>>

ResetRegisters == Begin("reset") /\ DeviceReset
WriteIntMask   == Begin("start") /\ EnableInterrupt
WriteIrqEn     == Begin("seu_start") /\ EnableTreeInterrupt
BuildTree      == Begin("none") /\ StartTree
Rollback       == Begin("none") /\ ResetTree

\* Before the device is bound, and after it is removed, an open file still
\* reaches sppu_ioctl, which does not test bar0.
NoRegisters ==
  /\ file /\ ~emulation /\ module # "out" /\ ioctl = "none" /\ ~bar0
  /\ ioctl' = "lost"
  /\ UNCHANGED <<lifecycle, device, interrupt, done_flag>>

ResetFlag ==
  /\ ioctl = "reset" /\ ioctl' = "none"
  /\ done_flag' = FALSE
  /\ UNCHANGED <<lifecycle, device, interrupt>>

WriteStart ==
  /\ ioctl = "start" /\ ioctl' = "none"
  /\ StartSearch
  /\ UNCHANGED <<lifecycle, interrupt, done_flag>>

WriteSeuStart ==
  /\ ioctl = "seu_start" /\ ioctl' = "none"
  /\ StartTree
  /\ UNCHANGED <<lifecycle, interrupt, done_flag>>

BeginIoctl == \/ ResetRegisters \/ WriteIntMask \/ WriteIrqEn
              \/ BuildTree \/ Rollback \/ NoRegisters
EndIoctl   == ResetFlag \/ WriteStart \/ WriteSeuStart

(***************************************************************************)
(* sppu_irq_handler, called as long as the line is high.                   *)
(***************************************************************************)
Called == line /\ requested /\ ~irq_off /\ handler = "idle"

ReadIntStatus ==
  /\ Called /\ int_status # {}
  /\ handler' = "clear" /\ isr' = int_status
  /\ UNCHANGED <<lifecycle, device, ioctl, irq_off, done_flag>>

\* IRQ_NONE, and again: the kernel gives the interrupt up ("nobody cared").
NobodyCared ==
  /\ Called /\ int_status = {}
  /\ irq_off' = TRUE
  /\ UNCHANGED <<lifecycle, device, ioctl, handler, isr, done_flag>>

Handled == IF COMPLETE \in isr THEN COMPLETE ELSE SEU_DONE

ClearInterrupt ==
  /\ handler = "clear" /\ handler' = "flag"
  /\ Clear(Handled)
  /\ UNCHANGED <<lifecycle, ioctl, isr, irq_off, done_flag>>

\* Mutant: only one of two pending bits is flagged, the SEU's first.
SetFlagMutant ==
  /\ handler = "flag"
  /\ isr' = {} /\ handler' = "idle"
  /\ done_flag' = (done_flag \/ isr = {COMPLETE})
  /\ UNCHANGED <<lifecycle, device, ioctl, irq_off>>

SetFlag ==
  /\ handler = "flag"
  /\ isr' = isr \ {Handled}
  /\ handler' = IF isr' = {} THEN "idle" ELSE "clear"
  /\ done_flag' = (done_flag \/ Handled = COMPLETE)
  /\ UNCHANGED <<lifecycle, device, ioctl, irq_off>>

IrqStep == ReadIntStatus \/ NobodyCared \/ ClearInterrupt \/ SetFlag

Next == Administer \/ BeginIoctl \/ EndIoctl \/ IrqStep

Spec == Init /\ [][Next]_vars

\* The interrupt controller calls the handler; a call, sppu_exit, and a
\* probe or remove run on.  Nothing is assumed of the administrator, nor
\* that the process calls anything.
FairSpec ==
  /\ Spec
  /\ WF_vars(IrqStep) /\ WF_vars(EndIoctl)
  /\ WF_vars(ExitStep /\ Elsewhere)
  /\ WF_vars(Administer /\ pci \notin {"none", "bound"} /\ pci' # pci)
  /\ WF_vars(Remove /\ Elsewhere /\ at = "unregistered")

(***************************************************************************)
(* Properties (NothingLeaks and FileHasMemory are DriverLifecycle's).      *)
(***************************************************************************)

\* No handler runs, and none can be called, without the registers it reads:
\* probe installs it last, remove waits for it before it unmaps them.
RunningHandlerHasRegisters == HandlerHasRegisters(handler # "idle")

\* A completion reaches the flag sppu_hw_wait_done sleeps on, unless the
\* device is reset or removed first, or the kernel has given the interrupt
\* up: the line stays high when SEU_DONE is cleared alone, and over a reset.
CompletionReported ==
  requested /\ COMPLETE \in int_status
    ~> \/ done_flag
       \/ irq_off \/ ~requested
       \/ ioctl = "reset" \/ pci = "reset"

\* rmmod returns: sppu_exit waits for a probe under way and for the remove
\* of a bound device, and that for a running handler, and none of them waits
\* for anything that waits for it.
UnloadEnds == module = "unloading" ~> module = "out"
=============================================================================
