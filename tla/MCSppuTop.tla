------------------------------ MODULE MCSppuTop ------------------------------
(***************************************************************************)
(* Bus traffic for SppuTop: everything software can write to the search    *)
(* side and to the SEU side, in any order.                                 *)
(***************************************************************************)
EXTENDS SppuTop

Write(reg, bits) == [reg |-> reg, bits |-> bits]

MCSearchWrites ==
  [reg : {"CTRL"}, bits : SUBSET {START, RESET}]
    \cup [reg : {"INT_MASK", "INT_STATUS"}, bits : SUBSET {COMPLETE}]

MCSeuWrites ==
  [reg : {"SEU_CTRL"}, bits : SUBSET (0..2)]
    \cup {Write("INT_STATUS", {SEU_DONE}), Write("SEU_IRQ_STATUS", {SEU_DONE})}

MCBusWrites == MCSearchWrites \cup MCSeuWrites
=============================================================================
