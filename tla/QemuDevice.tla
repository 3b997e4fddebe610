----------------------------- MODULE QemuDevice -----------------------------
(***************************************************************************)
(* The registers of qemu/sppu_qemu.c and its interrupt line.  A search or  *)
(* a tree runs to its end inside the write that starts it; what it         *)
(* computes is left out.  (No guest can give it vectors: BAR1 and BAR2     *)
(* have no read or write callbacks.)                                       *)
(***************************************************************************)
EXTENDS Naturals

COMPLETE == 0            \* bits of INT_STATUS
SEU_DONE == 2

VARIABLES
  status,                \* SPPU_REG_STATUS
  int_enabled,           \* SPPU_CTRL_INT_EN in SPPU_REG_INT_MASK
  int_status,
  seu_status,
  seu_irq_en,            \* SPPU_SEU_IRQ_EN in SPPU_REG_SEU_CTRL
  line                   \* what pci_set_irq set

registers == <<status, int_enabled, int_status, seu_status, seu_irq_en>>
device    == <<registers, line>>

DeviceTypeOK ==
  /\ status \in {"READY", "DONE"} /\ seu_status \in {"READY", "DONE"}
  /\ int_status \in SUBSET {COMPLETE, SEU_DONE}
  /\ int_enabled \in BOOLEAN /\ seu_irq_en \in BOOLEAN /\ line \in BOOLEAN

DeviceInit ==
  /\ status = "READY" /\ seu_status = "READY"
  /\ int_status = {} /\ int_enabled = FALSE /\ seu_irq_en = FALSE
  /\ line = FALSE

\* CTRL with RESET: every register is cleared, the line is not touched.
DeviceReset ==
  /\ status' = "READY" /\ seu_status' = "READY"
  /\ int_status' = {} /\ int_enabled' = FALSE /\ seu_irq_en' = FALSE
  /\ UNCHANGED line

\* CTRL with START: runs from READY and from DONE, which is always.
StartSearch ==
  /\ status \in {"READY", "DONE"} /\ status' = "DONE"
  /\ int_status' = int_status \cup (IF int_enabled THEN {COMPLETE} ELSE {})
  /\ line' = (line \/ int_enabled)
  /\ UNCHANGED <<int_enabled, seu_status, seu_irq_en>>

\* SEU_CTRL with START: the interrupt is enabled or not by the write before.
StartTree ==
  /\ seu_status \in {"READY", "DONE"} /\ seu_status' = "DONE"
  /\ int_status' = int_status \cup (IF seu_irq_en THEN {SEU_DONE} ELSE {})
  /\ line' = (line \/ seu_irq_en)
  /\ seu_irq_en' = TRUE
  /\ UNCHANGED <<status, int_enabled>>

\* SEU_CTRL with RESET; then 0 is written.
ResetTree ==
  /\ seu_status' = "READY" /\ seu_irq_en' = FALSE
  /\ UNCHANGED <<status, int_enabled, int_status, line>>

EnableInterrupt ==
  /\ int_enabled' = TRUE
  /\ UNCHANGED <<status, int_status, seu_status, seu_irq_en, line>>

EnableTreeInterrupt ==
  /\ seu_irq_en' = TRUE
  /\ UNCHANGED <<status, int_enabled, int_status, seu_status, line>>

\* INT_STATUS: write 1 to clear.  COMPLETE lowers the line whatever is still
\* pending, SEU_DONE never does.
Clear(bit) ==
  /\ int_status' = int_status \ {bit}
  /\ line' = (line /\ bit # COMPLETE)
  /\ UNCHANGED <<status, int_enabled, seu_status, seu_irq_en>>
=============================================================================
