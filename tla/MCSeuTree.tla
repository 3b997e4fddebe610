------------------------------ MODULE MCSeuTree ------------------------------
(***************************************************************************)
(* Configurations for SeuTree: trees of no entry (16 branches of 2 or 4    *)
(* levels, cut to five bits), of a few, and of more than the buffers hold; *)
(* context lengths 3 and 8.  The configuration file exposes word 2 to the  *)
(* DMA reader: an entry of a larger tree, the flags of one of two entries. *)
(***************************************************************************)
EXTENDS SeuTree

MCTreeConfigs ==
  [branches : {0, 1, 7}, context_len : {3, 8}, validates : BOOLEAN]

MCDepths == {1, 5}
=============================================================================
