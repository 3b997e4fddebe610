--------------------------- MODULE QemuGuestProofs ---------------------------
(***************************************************************************)
(* Safety of the driver on the virtual device, however it is loaded,       *)
(* bound, unbound and unloaded, and whatever call fails.                   *)
(***************************************************************************)
EXTENDS QemuGuest, TLAPS

(***************************************************************************)
(* The life cycle.  Three invariants, inductive together: the parts of the *)
(* character device at each step of init and exit, what the driver core    *)
(* may be doing then, and what is held at each step of probe and remove.   *)
(***************************************************************************)
PartsInPlace ==
  /\ module \in {"out", "live"} <=> at = "none"
  /\ module = "out" \/ at \in {"region", "end"} => chr = {}
  /\ at \in {"cdev", "err_unregister"} => chr \subseteq {"region"}
  /\ at \in {"class", "err_cdev"} => chr \subseteq {"region", "cdev"}
  /\ at \in {"device", "err_class"} => chr \subseteq {"region", "cdev", "class"}

ModesApart ==
  /\ at = "memory" => emulation
  /\ at \in {"register", "registered"} => ~emulation
  /\ emu => emulation /\ (module = "live" \/ at = "free")
  /\ module = "live" /\ emulation => emu
  /\ module = "unloading" => ~file
  /\ registered => ~emulation /\ (module = "live" \/ at \in {"registered", "unregister"})
  /\ pci # "none" => registered \/ at = "unregistered"

HeldByStep ==
  /\ enabled => pci \notin {"none", "enable"}
  /\ regions => pci \notin {"none", "enable", "regions", "err_disable", "disable"}
  /\ bar2    => pci \in {"vectors", "request", "reset", "bound", "free_irq",
                         "synchronize", "free_vectors", "unmap"}
  /\ bar0    => pci \in {"bar2", "vectors", "request", "reset", "bound",
                         "free_irq", "synchronize", "free_vectors", "unmap"}
  /\ vectors => pci \in {"request", "reset", "bound", "free_irq", "synchronize",
                         "free_vectors"}
  /\ requested => pci \in {"reset", "bound", "free_irq"} /\ irq = IRQ
  /\ pci = "request" => irq = IRQ
  /\ pci \in {"bar2", "vectors", "request", "reset", "bound", "free_irq",
              "synchronize", "free_vectors", "unmap"} => bar0 /\ enabled
  /\ pci \in {"regions", "bar0"} => enabled

ModuleInv == ModuleTypeOK /\ PartsInPlace /\ ModesApart
BusInv    == BusTypeOK /\ HeldByStep

\* Steps of init and exit leave the bus alone.
LEMMA BusUnchanged == ASSUME BusInv, UNCHANGED pciVars PROVE BusInv'
BY DEF BusInv, HeldByStep, BusTypeOK, pciVars

\* The steps of sppu_init keep it.
LEMMA InitStepInv == ASSUME ModuleInv, InitStep PROVE ModuleInv'
<1>. USE DEF ModuleInv, ModuleTypeOK, PartsInPlace, ModesApart, Rest, pciVars, Create
<1>1. CASE AllocRegion    BY <1>1 DEF AllocRegion
<1>2. CASE AddCdev        BY <1>2 DEF AddCdev
<1>3. CASE CreateClass    BY <1>3 DEF CreateClass
<1>4. CASE CreateDevice   BY <1>4 DEF CreateDevice
<1>5. CASE AllocMemory    BY <1>5 DEF AllocMemory
<1>6. CASE RegisterDriver
  <2>1. CASE registered' = TRUE /\ at' = "registered" BY <1>6, <2>1 DEF RegisterDriver
  <2>2. CASE registered' = registered /\ at' = "destroy" BY <1>6, <2>2 DEF RegisterDriver
  <2>. QED BY <1>6, <2>1, <2>2 DEF RegisterDriver
<1>7. CASE InitDone       BY <1>7 DEF InitDone
<1>. QED BY <1>1, <1>2, <1>3, <1>4, <1>5, <1>6, <1>7 DEF InitStep

\* The steps of sppu_exit, and of the error paths, keep it.
LEMMA ExitStepInv == ASSUME ModuleInv, ExitStep PROVE ModuleInv'
<1>. USE DEF ModuleInv, ModuleTypeOK, PartsInPlace, ModesApart, Rest, pciVars, Destroy
<1>1. CASE FreeMemory       BY <1>1 DEF FreeMemory
<1>2. CASE UnregisterDriver BY <1>2 DEF UnregisterDriver
<1>3. CASE Unregistered     BY <1>3 DEF Unregistered
<1>4. CASE DestroyDevice    BY <1>4 DEF DestroyDevice
<1>5. CASE DestroyClass     BY <1>5 DEF DestroyClass
<1>6. CASE DeleteCdev       BY <1>6 DEF DeleteCdev
<1>7. CASE UnregisterRegion BY <1>7 DEF UnregisterRegion
<1>8. CASE Gone             BY <1>8 DEF Gone
<1>. QED BY <1>1, <1>2, <1>3, <1>4, <1>5, <1>6, <1>7, <1>8 DEF ExitStep

LEMMA LoadInv == ASSUME ModuleInv, Load PROVE ModuleInv'
BY DEF ModuleInv, ModuleTypeOK, PartsInPlace, ModesApart, Load

LEMMA UnloadInv == ASSUME ModuleInv, Unload PROVE ModuleInv'
BY DEF ModuleInv, ModuleTypeOK, PartsInPlace, ModesApart, Unload, Rest, pciVars

LEMMA OpenInv == ASSUME ModuleInv, Open PROVE ModuleInv'
BY DEF ModuleInv, ModuleTypeOK, PartsInPlace, ModesApart, Open, initVars, pciVars

LEMMA ReleaseInv == ASSUME ModuleInv, Release PROVE ModuleInv'
BY DEF ModuleInv, ModuleTypeOK, PartsInPlace, ModesApart, Release, initVars, pciVars

\* Neither probe nor remove touches what init and exit do, and neither goes
\* on once the driver is unregistered and the device removed.
LEMMA ModuleUnchanged ==
  ASSUME ModuleInv, Held, pci # "none" \/ registered PROVE ModuleInv'
BY DEF ModuleInv, ModuleTypeOK, PartsInPlace, ModesApart, Held, initVars

LEMMA ModuleSame == ASSUME ModuleInv, UNCHANGED lifecycle PROVE ModuleInv'
BY DEF ModuleInv, ModuleTypeOK, PartsInPlace, ModesApart, lifecycle, initVars, pciVars

LEMMA ProbeStepInv == ASSUME BusInv, ProbeStep PROVE BusInv'
<1>. USE DEF BusInv, BusTypeOK, HeldByStep
<1>1. CASE Probe          BY <1>1 DEF Probe
<1>2. CASE Enable
  <2>1. CASE enabled' = TRUE /\ pci' = "regions" BY <1>2, <2>1 DEF Enable
  <2>2. CASE enabled' = enabled /\ pci' = "none" BY <1>2, <2>2 DEF Enable
  <2>. QED BY <1>2, <2>1, <2>2 DEF Enable
<1>3. CASE RequestRegions
  <2>1. CASE regions' = TRUE /\ pci' = "bar0" BY <1>3, <2>1 DEF RequestRegions
  <2>2. CASE regions' = regions /\ pci' = "err_disable" BY <1>3, <2>2 DEF RequestRegions
  <2>. QED BY <1>3, <2>1, <2>2 DEF RequestRegions
<1>4. CASE MapBar0
  <2>1. CASE bar0' = TRUE /\ pci' = "bar2" BY <1>4, <2>1 DEF MapBar0
  <2>2. CASE bar0' = bar0 /\ pci' = "err_regions" BY <1>4, <2>2 DEF MapBar0
  <2>. QED BY <1>4, <2>1, <2>2 DEF MapBar0
<1>5. CASE MapBar2        BY <1>5 DEF MapBar2
<1>6. CASE AllocVectors   BY <1>6 DEF AllocVectors
<1>7. CASE RequestIrq
  <2>1. CASE requested' = TRUE /\ irq' = irq BY <1>7, <2>1 DEF RequestIrq
  <2>2. CASE irq' = -1 /\ requested' = requested BY <1>7, <2>2 DEF RequestIrq
  <2>. QED BY <1>7, <2>1, <2>2 DEF RequestIrq
<1>8. CASE ErrRegions     BY <1>8 DEF ErrRegions
<1>9. CASE ErrDisable     BY <1>9 DEF ErrDisable
<1>. QED BY <1>1, <1>2, <1>3, <1>4, <1>5, <1>6, <1>7, <1>8, <1>9 DEF ProbeStep

LEMMA ProbeDoneInv == ASSUME BusInv, ProbeDone PROVE BusInv'
BY DEF BusInv, BusTypeOK, HeldByStep, ProbeDone

LEMMA RemoveStepInv == ASSUME BusInv, RemoveStep PROVE BusInv'
<1>. USE DEF BusInv, BusTypeOK, HeldByStep
<1>1. CASE Remove         BY <1>1 DEF Remove
<1>2. CASE FreeIrq
  <2>1. requested' = FALSE BY <1>2 DEF FreeIrq, IRQ
  <2>2. pci = "free_irq" /\ pci' = "synchronize"
        /\ UNCHANGED <<enabled, regions, bar0, bar2, vectors, irq>> BY <1>2 DEF FreeIrq
  <2>. QED BY <2>1, <2>2
<1>3. CASE FreeVectors    BY <1>3 DEF FreeVectors
<1>4. CASE Unmap          BY <1>4 DEF Unmap
<1>5. CASE ReleaseRegions BY <1>5 DEF ReleaseRegions
<1>6. CASE Disable        BY <1>6 DEF Disable
<1>. QED BY <1>1, <1>2, <1>3, <1>4, <1>5, <1>6 DEF RemoveStep

LEMMA SynchronizeInv ==
  ASSUME NEW handlers \in BOOLEAN, BusInv, Synchronize(handlers) PROVE BusInv'
BY DEF BusInv, BusTypeOK, HeldByStep, Synchronize

\* With the module out the device is not bound: a new irq concerns nobody.
LEMMA LoadBusInv == ASSUME ModuleInv, BusInv, Load PROVE BusInv'
<1>1. pci = "none" /\ ~requested
  BY DEF ModuleInv, ModuleTypeOK, PartsInPlace, ModesApart, BusInv, BusTypeOK,
         HeldByStep, Load
<1>. QED BY <1>1 DEF BusInv, BusTypeOK, HeldByStep, Load

(***************************************************************************)
(* The handler runs only while it is installed, or is waited for.          *)
(***************************************************************************)
HandlerInv == handler # "idle" => requested \/ pci = "synchronize"

IInv == ModuleInv /\ BusInv /\ DeviceTypeOK /\ GuestTypeOK /\ HandlerInv

LEMMA AdministerInv ==
  ASSUME ModuleInv, BusInv, GuestTypeOK, Administer PROVE ModuleInv' /\ BusInv'
<1>. SUFFICES ModuleInv' /\ BusInv' OBVIOUS
<1>1. CASE LoadModule  BY <1>1, LoadInv, LoadBusInv DEF LoadModule
<1>2. CASE Unload /\ Elsewhere  BY <1>2, UnloadInv, BusUnchanged DEF Unload, Rest
<1>3. CASE InitStep /\ Elsewhere
  <2>1. UNCHANGED pciVars
    BY <1>3 DEF InitStep, AllocRegion, AddCdev, CreateClass, CreateDevice,
                Create, AllocMemory, RegisterDriver, InitDone, Rest
  <2>. QED BY <1>3, <2>1, InitStepInv, BusUnchanged
<1>4. CASE ExitStep /\ Elsewhere
  <2>1. UNCHANGED pciVars
    BY <1>4 DEF ExitStep, FreeMemory, UnregisterDriver, Unregistered,
                DestroyDevice, DestroyClass, DeleteCdev, UnregisterRegion,
                Destroy, Gone, Rest
  <2>. QED BY <1>4, <2>1, ExitStepInv, BusUnchanged
<1>5. CASE OpenDevice  BY <1>5, OpenInv, BusUnchanged DEF OpenDevice, Open
<1>6. CASE CloseDevice BY <1>6, ReleaseInv, BusUnchanged DEF CloseDevice, Release
<1>7. CASE ProbeStep
  <2>1. Held /\ (pci # "none" \/ registered)
    BY <1>7 DEF ProbeStep, Probe, Enable, RequestRegions, MapBar0, MapBar2,
                AllocVectors, RequestIrq, ErrRegions, ErrDisable
  <2>. QED BY <1>7, <2>1, ModuleUnchanged, ProbeStepInv
<1>8. CASE ResetDevice
  BY <1>8, ModuleUnchanged, ProbeDoneInv DEF ResetDevice, ProbeDone
<1>9. CASE RemoveStep
  <2>1. Held /\ (pci # "none" \/ registered)
    BY <1>9 DEF RemoveStep, Remove, FreeIrq, FreeVectors, Unmap,
                ReleaseRegions, Disable
  <2>. QED BY <1>9, <2>1, ModuleUnchanged, RemoveStepInv
<1>10. CASE SynchronizeIrq
  <2>1. Held /\ pci # "none" BY <1>10 DEF SynchronizeIrq, Synchronize
  <2>2. BusInv' BY <1>10, SynchronizeInv DEF SynchronizeIrq
  <2>. QED BY <2>1, <2>2, ModuleUnchanged
<1>. QED
  BY <1>1, <1>2, <1>3, <1>4, <1>5, <1>6, <1>7, <1>8, <1>9, <1>10
  DEF Administer, ProbeStep, RemoveStep, InstallHandler, UnmapRegisters

\* The types of the device's registers.
DeviceStep ==
  \/ DeviceReset \/ StartSearch \/ StartTree \/ ResetTree \/ EnableInterrupt
  \/ EnableTreeInterrupt \/ (\E bit \in {COMPLETE, SEU_DONE} : Clear(bit))
  \/ UNCHANGED device

LEMMA DeviceTypes == ASSUME DeviceTypeOK, DeviceStep PROVE DeviceTypeOK'
<1>. USE DEF DeviceTypeOK, COMPLETE, SEU_DONE
<1>1. CASE DeviceReset BY <1>1 DEF DeviceReset
<1>2. CASE StartSearch
  <2>1. CASE int_enabled BY <1>2, <2>1 DEF StartSearch
  <2>2. CASE ~int_enabled BY <1>2, <2>2 DEF StartSearch
  <2>. QED BY <2>1, <2>2
<1>3. CASE StartTree
  <2>1. CASE seu_irq_en BY <1>3, <2>1 DEF StartTree
  <2>2. CASE ~seu_irq_en BY <1>3, <2>2 DEF StartTree
  <2>. QED BY <2>1, <2>2
<1>4. CASE ResetTree BY <1>4 DEF ResetTree
<1>5. CASE EnableInterrupt BY <1>5 DEF EnableInterrupt
<1>6. CASE EnableTreeInterrupt BY <1>6 DEF EnableTreeInterrupt
<1>7. ASSUME NEW bit \in {COMPLETE, SEU_DONE}, Clear(bit) PROVE DeviceTypeOK'
  <2>1. line' \in BOOLEAN BY <1>7 DEF Clear
  <2>. QED BY <1>7, <2>1 DEF Clear
<1>8. CASE UNCHANGED device BY <1>8 DEF device, registers
<1>. QED BY <1>1, <1>2, <1>3, <1>4, <1>5, <1>6, <1>7, <1>8 DEF DeviceStep

\* The administrator only changes the types' other variables as follows.
LEMMA AdministerTypes ==
  ASSUME DeviceTypeOK, GuestTypeOK, Administer
  PROVE  DeviceTypeOK' /\ GuestTypeOK' /\ UNCHANGED handler
<1>1. CASE Elsewhere
  BY <1>1, DeviceTypes DEF Elsewhere, DeviceStep, GuestTypeOK, interrupt
<1>2. CASE LoadModule \/ OpenDevice \/ CloseDevice
  BY <1>2, DeviceTypes
  DEF LoadModule, OpenDevice, CloseDevice, DeviceStep, GuestTypeOK, interrupt
<1>3. CASE InstallHandler
  <2>1. irq_off' \in BOOLEAN BY <1>3 DEF InstallHandler
  <2>. QED BY <1>3, <2>1, DeviceTypes DEF InstallHandler, DeviceStep, GuestTypeOK
<1>4. CASE ResetDevice
  BY <1>4, DeviceTypes DEF ResetDevice, DeviceStep, GuestTypeOK, interrupt
<1>5. CASE SynchronizeIrq
  BY <1>5, DeviceTypes DEF SynchronizeIrq, DeviceStep, GuestTypeOK, interrupt
<1>6. CASE UnmapRegisters
  BY <1>6, DeviceTypes DEF UnmapRegisters, DeviceStep, GuestTypeOK, interrupt
<1>. QED BY <1>1, <1>2, <1>3, <1>4, <1>5, <1>6 DEF Administer

\* It takes the handler away only at free_irq, which waits for it.
LEMMA AdministerHandlerInv ==
  ASSUME BusInv, HandlerInv, UNCHANGED handler, Administer PROVE HandlerInv'
<1>1. CASE UNCHANGED <<pci, requested>> BY <1>1 DEF HandlerInv
<1>2. CASE ProbeStep \/ ProbeDone
  <2>1. pci # "synchronize" /\ (requested => requested')
    BY <1>2 DEF ProbeStep, Probe, Enable, RequestRegions, MapBar0, MapBar2,
                AllocVectors, RequestIrq, ErrRegions, ErrDisable, ProbeDone
  <2>. QED BY <2>1 DEF HandlerInv
<1>3. CASE FreeIrq BY <1>3 DEF FreeIrq, HandlerInv
<1>4. CASE SynchronizeIrq BY <1>4 DEF SynchronizeIrq, Synchronize, HandlerInv
<1>5. CASE RemoveStep /\ ~FreeIrq
  <2>1. pci # "synchronize" /\ (requested => requested')
    BY <1>5 DEF RemoveStep, Remove, FreeVectors, Unmap, ReleaseRegions, Disable
  <2>. QED BY <2>1 DEF HandlerInv
<1>6. CASE Load \/ Unload \/ InitStep \/ ExitStep \/ Open \/ Release
  BY <1>1, <1>6
  DEF Load, Unload, Open, Release, InitStep, AllocRegion, AddCdev, CreateClass,
      CreateDevice, Create, AllocMemory, RegisterDriver, InitDone, Rest, pciVars,
      ExitStep, FreeMemory, UnregisterDriver, Unregistered, DestroyDevice,
      DestroyClass, DeleteCdev, UnregisterRegion, Destroy, Gone
<1>. QED
  BY <1>2, <1>3, <1>4, <1>5, <1>6
  DEF Administer, ProbeStep, RemoveStep, InstallHandler, UnmapRegisters,
      LoadModule, OpenDevice, CloseDevice, ResetDevice

\* An ioctl, whatever the device does in it, leaves the life cycle alone.
LEMMA IoctlInv == ASSUME IInv, BeginIoctl \/ EndIoctl PROVE IInv'
<1>1. UNCHANGED <<lifecycle, interrupt>> /\ DeviceStep
  BY DEF BeginIoctl, EndIoctl, Begin, ResetRegisters, WriteIntMask, WriteIrqEn,
         BuildTree, Rollback, NoRegisters, ResetFlag, WriteStart, WriteSeuStart,
         DeviceStep
<1>2. ioctl' \in {"none", "reset", "start", "seu_start", "lost"} /\ done_flag' \in BOOLEAN
  BY DEF BeginIoctl, EndIoctl, Begin, ResetRegisters, WriteIntMask, WriteIrqEn,
         BuildTree, Rollback, NoRegisters, ResetFlag, WriteStart, WriteSeuStart,
         IInv, GuestTypeOK
<1>3. DeviceTypeOK' BY <1>1, DeviceTypes DEF IInv
<1>4. GuestTypeOK' BY <1>1, <1>2 DEF IInv, GuestTypeOK, interrupt
<1>5. ModuleInv' BY <1>1, ModuleSame DEF IInv
<1>6. BusInv' BY <1>1, BusUnchanged DEF IInv, lifecycle
<1>7. HandlerInv' BY <1>1 DEF IInv, HandlerInv, lifecycle, pciVars, interrupt
<1>. QED BY <1>3, <1>4, <1>5, <1>6, <1>7 DEF IInv

LEMMA IrqInv == ASSUME IInv, IrqStep PROVE IInv'
<1>1. UNCHANGED lifecycle
  BY DEF IrqStep, ReadIntStatus, NobodyCared, ClearInterrupt, SetFlag
<1>2. Handled \in {COMPLETE, SEU_DONE} BY DEF Handled
<1>3. DeviceStep
  BY <1>2 DEF IrqStep, ReadIntStatus, NobodyCared, ClearInterrupt, SetFlag, DeviceStep
<1>4. DeviceTypeOK' BY <1>3, DeviceTypes DEF IInv
<1>5. GuestTypeOK'
  <2>1. CASE ReadIntStatus BY <2>1 DEF ReadIntStatus, IInv, GuestTypeOK, DeviceTypeOK
  <2>2. CASE NobodyCared BY <2>2 DEF NobodyCared, IInv, GuestTypeOK
  <2>3. CASE ClearInterrupt BY <2>3 DEF ClearInterrupt, IInv, GuestTypeOK
  <2>4. CASE SetFlag
    <3>1. done_flag' \in BOOLEAN BY <2>4 DEF SetFlag
    <3>2. isr' \in SUBSET {COMPLETE, SEU_DONE} BY <2>4 DEF SetFlag, IInv, GuestTypeOK
    <3>3. handler' \in {"idle", "clear"} BY <2>4 DEF SetFlag
    <3>. QED BY <2>4, <3>1, <3>2, <3>3 DEF SetFlag, IInv, GuestTypeOK
  <2>. QED BY <2>1, <2>2, <2>3, <2>4 DEF IrqStep
<1>6. HandlerInv'
  <2>1. CASE ReadIntStatus BY <1>1, <2>1 DEF ReadIntStatus, Called, HandlerInv, lifecycle, pciVars
  <2>2. CASE ~ReadIntStatus
    BY <1>1, <2>2 DEF IrqStep, NobodyCared, ClearInterrupt, SetFlag, IInv,
                      HandlerInv, lifecycle, pciVars
  <2>. QED BY <2>1, <2>2
<1>7. ModuleInv' BY <1>1, ModuleSame DEF IInv
<1>8. BusInv' BY <1>1, BusUnchanged DEF IInv, lifecycle
<1>. QED BY <1>4, <1>5, <1>6, <1>7, <1>8 DEF IInv

LEMMA InitInv == Init => IInv
BY DEF Init, LifecycleInit, DeviceInit, IInv, ModuleInv, ModuleTypeOK, PartsInPlace,
       ModesApart, BusInv, BusTypeOK, HeldByStep, DeviceTypeOK, GuestTypeOK, HandlerInv

LEMMA StepInv == IInv /\ [Next]_vars => IInv'
<1>. SUFFICES ASSUME IInv, [Next]_vars PROVE IInv' OBVIOUS
<1>1. CASE Administer
  BY <1>1, AdministerInv, AdministerTypes, AdministerHandlerInv DEF IInv
<1>2. CASE BeginIoctl \/ EndIoctl BY <1>2, IoctlInv
<1>3. CASE IrqStep BY <1>3, IrqInv
<1>4. CASE UNCHANGED vars
  <2>1. UNCHANGED <<lifecycle, device, interrupt, ioctl, done_flag>> BY <1>4 DEF vars
  <2>2. ModuleInv' BY <2>1, ModuleSame DEF IInv
  <2>3. BusInv' BY <2>1, BusUnchanged DEF IInv, lifecycle
  <2>4. DeviceTypeOK' BY <2>1, DeviceTypes DEF IInv, DeviceStep
  <2>5. GuestTypeOK' BY <2>1 DEF IInv, GuestTypeOK, interrupt
  <2>6. HandlerInv' BY <2>1 DEF IInv, HandlerInv, lifecycle, pciVars, interrupt
  <2>. QED BY <2>2, <2>3, <2>4, <2>5, <2>6 DEF IInv
<1>. QED BY <1>1, <1>2, <1>3, <1>4 DEF Next

(***************************************************************************)
(* The theorems.                                                           *)
(***************************************************************************)

THEOREM Invariance == Spec => []IInv
BY InitInv, StepInv, PTL DEF Spec

\* The state of the driver, of the device and of the kernel's part of it
\* stays in its ranges, whatever the administrator and the process do.
THEOREM TypeCorrect == Spec => []TypeOK
<1>1. IInv => TypeOK BY DEF IInv, ModuleInv, BusInv, LifecycleTypeOK, TypeOK
<1>. QED BY <1>1, Invariance, PTL

\* Nothing leaks: sppu_init, sppu_exit, sppu_pci_probe and sppu_pci_remove
\* give back whatever they took, whichever of their calls fail.
THEOREM Leaks == Spec => []NothingLeaks
<1>1. IInv => NothingLeaks
  BY DEF IInv, ModuleInv, ModuleTypeOK, PartsInPlace, ModesApart, BusInv,
         BusTypeOK, HeldByStep, NothingLeaks
<1>. QED BY <1>1, Invariance, PTL

\* An open device of a loaded module has the memory emulation works on.
THEOREM Memory == Spec => []FileHasMemory
<1>1. IInv => FileHasMemory
  BY DEF IInv, ModuleInv, ModuleTypeOK, PartsInPlace, ModesApart, FileHasMemory
<1>. QED BY <1>1, Invariance, PTL

\* No handler runs, or can be called, on registers that are not mapped.
THEOREM HandlerRegisters == Spec => []RunningHandlerHasRegisters
<1>1. IInv => RunningHandlerHasRegisters
  BY DEF IInv, BusInv, BusTypeOK, HeldByStep, HandlerInv,
         RunningHandlerHasRegisters, HandlerHasRegisters
<1>. QED BY <1>1, Invariance, PTL
=============================================================================
