---------------------------- MODULE MCSpecBackend ----------------------------
(***************************************************************************)
(* Values for SpecBackend: the shallowest and the deepest tree, two        *)
(* requests apart in their offset, the default number of branches (16, 0   *)
(* in the register) and a smaller one.                                     *)
(***************************************************************************)
EXTENDS SpecBackend

MCDepths       == {5, 8}
MCOffsets      == {1, 2}
MCBranchCounts == {4, 16}
=============================================================================
