--------------------------- MODULE DriverLifecycle ---------------------------
(***************************************************************************)
(* Loading and unloading kernel_module/sppu_driver.c, probing and removing *)
(* its PCI device, and opening its character device: which resources exist *)
(* when.  Every call that can fail may fail, and each label of the error   *)
(* paths is a step.  The module core runs init and exit one at a time, the *)
(* PCI core probe and remove (bind and unbind in sysfs), and both may run  *)
(* while a process opens, uses and closes the device.                      *)
(***************************************************************************)
EXTENDS Integers

IRQ == 1                 \* the number pci_irq_vector returns

VARIABLES
  emulation,             \* the module parameter
  module,                \* "out", "loading", "live" or "unloading"
  at,                    \* the step sppu_init or sppu_exit is at
  chr,                   \* the parts of the character device that exist
  emu,                   \* emu_regs, emu_mem and emu_target are allocated
  registered,            \* pci_register_driver
  file,                  \* the device is open
  pci,                   \* the step probe or remove is at, or "none", "bound"
  enabled, regions, bar0, bar2, vectors,
  irq,                   \* sppu.irq
  requested              \* the handler is installed

initVars == <<module, at, chr, emu, registered>>
pciVars  == <<pci, enabled, regions, bar0, bar2, vectors, irq, requested>>
lifecycle == <<emulation, initVars, file, pciVars>>

ModuleTypeOK ==
  /\ emulation \in BOOLEAN
  /\ module \in {"out", "loading", "live", "unloading"}
  /\ at \in {"none", "region", "cdev", "class", "device", "memory", "register",
             "registered", "free", "unregister", "unregistered", "destroy",
             "err_class", "err_cdev", "err_unregister", "end"}
  /\ chr \in SUBSET {"region", "cdev", "class", "device"}
  /\ emu \in BOOLEAN /\ registered \in BOOLEAN /\ file \in BOOLEAN

BusTypeOK ==
  /\ pci \in {"none", "enable", "regions", "bar0", "bar2", "vectors", "request",
              "reset", "err_regions", "err_disable", "bound", "free_irq",
              "synchronize", "free_vectors", "unmap", "release", "disable"}
  /\ enabled \in BOOLEAN /\ regions \in BOOLEAN /\ bar0 \in BOOLEAN
  /\ bar2 \in BOOLEAN /\ vectors \in BOOLEAN /\ requested \in BOOLEAN
  /\ irq \in {-1, IRQ}

LifecycleTypeOK == ModuleTypeOK /\ BusTypeOK

LifecycleInit ==
  /\ emulation \in BOOLEAN
  /\ module = "out" /\ at = "none" /\ chr = {} /\ emu = FALSE
  /\ registered = FALSE /\ file = FALSE
  /\ pci = "none" /\ enabled = FALSE /\ regions = FALSE
  /\ bar0 = FALSE /\ bar2 = FALSE /\ vectors = FALSE
  /\ irq = -1 /\ requested = FALSE

(***************************************************************************)
(* sppu_init and sppu_create_chardev.                                      *)
(***************************************************************************)
\* A fresh copy of the static variables; irq is set to -1.
Load ==
  /\ module = "out" /\ ~file
  /\ module' = "loading" /\ at' = "region"
  /\ emulation' \in BOOLEAN /\ irq' = -1
  /\ UNCHANGED <<chr, emu, registered, file, pci, enabled, regions,
                 bar0, bar2, vectors, requested>>

\* A step of sppu_create_chardev: the part is there, or the error path is
\* entered at its label.
Create(here, part, next, label) ==
  /\ at = here
  /\ \/ chr' = chr \cup {part} /\ at' = next
     \/ UNCHANGED chr /\ at' = label
  /\ UNCHANGED <<emulation, module, emu, registered, file, pciVars>>

AllocRegion  == Create("region", "region", "cdev", "end")
AddCdev      == Create("cdev", "cdev", "class", "err_unregister")
CreateDevice == Create("device", "device",
                       IF emulation THEN "memory" ELSE "register", "err_class")

\* Mutant: the error path of class_create forgets the cdev.
CreateClassMutant == Create("class", "class", "device", "err_unregister")

CreateClass == Create("class", "class", "device", "err_cdev")

Rest == UNCHANGED <<emulation, file, pciVars>>

AllocMemory ==
  /\ at = "memory"
  /\ \/ emu' = TRUE  /\ module' = "live" /\ at' = "none"
     \/ emu' = FALSE /\ at' = "destroy" /\ UNCHANGED module
  /\ UNCHANGED <<chr, registered>> /\ Rest

RegisterDriver ==
  /\ at = "register"
  /\ \/ registered' = TRUE /\ at' = "registered"
     \/ UNCHANGED registered /\ at' = "destroy"
  /\ UNCHANGED <<module, chr, emu>> /\ Rest

\* pci_register_driver returns when the probes it started have.
InitDone ==
  /\ at = "registered" /\ pci \in {"none", "bound"}
  /\ module' = "live" /\ at' = "none"
  /\ UNCHANGED <<chr, emu, registered>> /\ Rest

(***************************************************************************)
(* sppu_exit.  The file operations name their owner, so that the module    *)
(* core refuses to unload a module whose device is open.                   *)
(***************************************************************************)
\* Mutant: .owner is not set.
UnloadMutant ==
  /\ module = "live"
  /\ module' = "unloading" /\ at' = IF emulation THEN "free" ELSE "unregister"
  /\ UNCHANGED <<chr, emu, registered>> /\ Rest

Unload ==
  /\ module = "live" /\ ~file
  /\ module' = "unloading" /\ at' = IF emulation THEN "free" ELSE "unregister"
  /\ UNCHANGED <<chr, emu, registered>> /\ Rest

FreeMemory ==
  /\ at = "free"
  /\ emu' = FALSE /\ at' = "destroy"
  /\ UNCHANGED <<module, chr, registered>> /\ Rest

\* No probe begins after this; a bound device is removed, and waited for.
UnregisterDriver ==
  /\ at = "unregister"
  /\ registered' = FALSE /\ at' = "unregistered"
  /\ UNCHANGED <<module, chr, emu>> /\ Rest

Unregistered ==
  /\ at = "unregistered" /\ pci = "none"
  /\ at' = "destroy"
  /\ UNCHANGED <<module, chr, emu, registered>> /\ Rest

\* sppu_destroy_chardev goes through the same steps as the error path of
\* sppu_create_chardev.
Destroy(here, part, next) ==
  /\ at = here
  /\ chr' = chr \ {part} /\ at' = next
  /\ UNCHANGED <<module, emu, registered>> /\ Rest

DestroyDevice    == Destroy("destroy", "device", "err_class")
DestroyClass     == Destroy("err_class", "class", "err_cdev")
DeleteCdev       == Destroy("err_cdev", "cdev", "err_unregister")
UnregisterRegion == Destroy("err_unregister", "region", "end")

Gone ==
  /\ at = "end"
  /\ module' = "out" /\ at' = "none"
  /\ UNCHANGED <<chr, emu, registered>> /\ Rest

InitStep == \/ AllocRegion \/ AddCdev \/ CreateClass \/ CreateDevice
            \/ AllocMemory \/ RegisterDriver \/ InitDone
ExitStep == \/ FreeMemory \/ UnregisterDriver \/ Unregistered
            \/ DestroyDevice \/ DestroyClass \/ DeleteCdev \/ UnregisterRegion
            \/ Gone

(***************************************************************************)
(* open and release.  The device can be opened from cdev_add to cdev_del,  *)
(* unless the module is going; what open does to done_flag is QemuGuest's. *)
(***************************************************************************)
Open ==
  /\ ~file /\ "cdev" \in chr /\ module \in {"loading", "live"}
  /\ file' = TRUE
  /\ UNCHANGED <<emulation, initVars, pciVars>>

\* Not modelled after a failed init: the module's code is gone.
Release ==
  /\ file /\ module # "out"
  /\ file' = FALSE
  /\ UNCHANGED <<emulation, initVars, pciVars>>

(***************************************************************************)
(* sppu_pci_probe.                                                         *)
(***************************************************************************)
Held == UNCHANGED <<emulation, initVars, file>>

Probe ==
  /\ registered /\ pci = "none"
  /\ pci' = "enable"
  /\ UNCHANGED <<enabled, regions, bar0, bar2, vectors, irq, requested>> /\ Held

Enable ==
  /\ pci = "enable"
  /\ \/ enabled' = TRUE /\ pci' = "regions"
     \/ UNCHANGED enabled /\ pci' = "none"
  /\ UNCHANGED <<regions, bar0, bar2, vectors, irq, requested>> /\ Held

RequestRegions ==
  /\ pci = "regions"
  /\ \/ regions' = TRUE /\ pci' = "bar0"
     \/ UNCHANGED regions /\ pci' = "err_disable"
  /\ UNCHANGED <<enabled, bar0, bar2, vectors, irq, requested>> /\ Held

\* Too small, or not mapped: the device is given up.
MapBar0 ==
  /\ pci = "bar0"
  /\ \/ bar0' = TRUE /\ pci' = "bar2"
     \/ UNCHANGED bar0 /\ pci' = "err_regions"
  /\ UNCHANGED <<enabled, regions, bar2, vectors, irq, requested>> /\ Held

\* The device is used without BAR2, and without an interrupt.
MapBar2 ==
  /\ pci = "bar2"
  /\ bar2' \in BOOLEAN /\ pci' = "vectors"
  /\ UNCHANGED <<enabled, regions, bar0, vectors, irq, requested>> /\ Held

\* Mutant: the result of pci_alloc_irq_vectors is kept as the number.
AllocVectorsMutant ==
  /\ pci = "vectors"
  /\ \/ vectors' = TRUE /\ irq' = IRQ /\ pci' = "request"
     \/ UNCHANGED vectors /\ irq' = -28 /\ pci' = "reset"
  /\ UNCHANGED <<enabled, regions, bar0, bar2, requested>> /\ Held

\* Without vectors irq keeps the value of the binding before.
AllocVectors ==
  /\ pci = "vectors"
  /\ \/ vectors' = TRUE /\ irq' = IRQ /\ pci' = "request"
     \/ UNCHANGED <<vectors, irq>> /\ pci' = "reset"
  /\ UNCHANGED <<enabled, regions, bar0, bar2, requested>> /\ Held

RequestIrq ==
  /\ pci = "request" /\ pci' = "reset"
  /\ \/ requested' = TRUE /\ UNCHANGED irq
     \/ irq' = -1 /\ UNCHANGED requested
  /\ UNCHANGED <<enabled, regions, bar0, bar2, vectors>> /\ Held

\* The last writes of the probe reset the device (see QemuGuest).
ProbeDone ==
  /\ pci = "reset" /\ pci' = "bound"
  /\ UNCHANGED <<enabled, regions, bar0, bar2, vectors, irq, requested>> /\ Held

ErrRegions ==
  /\ pci = "err_regions"
  /\ regions' = FALSE /\ pci' = "err_disable"
  /\ UNCHANGED <<enabled, bar0, bar2, vectors, irq, requested>> /\ Held

ErrDisable ==
  /\ pci = "err_disable"
  /\ enabled' = FALSE /\ pci' = "none"
  /\ UNCHANGED <<regions, bar0, bar2, vectors, irq, requested>> /\ Held

(***************************************************************************)
(* sppu_pci_remove.                                                        *)
(***************************************************************************)
\* Mutant: a bound device is removed only by an unbind.
RemoveMutant ==
  /\ pci = "bound" /\ registered
  /\ pci' = "free_irq"
  /\ UNCHANGED <<enabled, regions, bar0, bar2, vectors, irq, requested>> /\ Held

\* By an unbind in sysfs, or by pci_unregister_driver.
Remove ==
  /\ pci = "bound" /\ (registered \/ at = "unregistered")
  /\ pci' = "free_irq"
  /\ UNCHANGED <<enabled, regions, bar0, bar2, vectors, irq, requested>> /\ Held

\* free_irq of a number that is not requested only warns.
FreeIrq ==
  /\ pci = "free_irq" /\ pci' = "synchronize"
  /\ requested' = IF irq >= 0 THEN FALSE ELSE requested
  /\ UNCHANGED <<enabled, regions, bar0, bar2, vectors, irq>> /\ Held

\* free_irq returns when no handler runs any more.
Synchronize(handlers) ==
  /\ pci = "synchronize" /\ ~handlers
  /\ pci' = "free_vectors"
  /\ UNCHANGED <<enabled, regions, bar0, bar2, vectors, irq, requested>> /\ Held

FreeVectors ==
  /\ pci = "free_vectors" /\ pci' = "unmap"
  /\ vectors' = FALSE
  /\ UNCHANGED <<enabled, regions, bar0, bar2, irq, requested>> /\ Held

\* BAR2, then BAR0, each if it is mapped.
Unmap ==
  /\ pci = "unmap" /\ pci' = "release"
  /\ bar0' = FALSE /\ bar2' = FALSE
  /\ UNCHANGED <<enabled, regions, vectors, irq, requested>> /\ Held

ReleaseRegions ==
  /\ pci = "release" /\ pci' = "disable"
  /\ regions' = FALSE
  /\ UNCHANGED <<enabled, bar0, bar2, vectors, irq, requested>> /\ Held

Disable ==
  /\ pci = "disable" /\ pci' = "none"
  /\ enabled' = FALSE
  /\ UNCHANGED <<regions, bar0, bar2, vectors, irq, requested>> /\ Held

ProbeStep == \/ Probe \/ Enable \/ RequestRegions \/ MapBar0 \/ MapBar2
             \/ AllocVectors \/ RequestIrq \/ ErrRegions \/ ErrDisable
RemoveStep == \/ Remove \/ FreeIrq \/ FreeVectors \/ Unmap
              \/ ReleaseRegions \/ Disable

(***************************************************************************)
(* Properties.                                                             *)
(***************************************************************************)

\* Whatever call of init, probe, remove or exit fails, and however the
\* device is bound and unbound: an unloaded module has left nothing behind,
\* and neither has a device that is not bound.
NothingLeaks ==
  /\ module = "out" => chr = {} /\ ~emu /\ ~registered /\ pci = "none"
  /\ pci = "none" =>
       ~enabled /\ ~regions /\ ~bar0 /\ ~bar2 /\ ~vectors /\ ~requested

\* While the device is open and the module is loaded, the memory the
\* emulation works on is there: exit frees it only when no file is open.
FileHasMemory ==
  file /\ emulation /\ module \in {"live", "unloading"} => emu

\* The handler is installed only while the registers it reads are mapped and
\* the device is enabled.
HandlerHasRegisters(running) == requested \/ running => bar0 /\ enabled
=============================================================================
