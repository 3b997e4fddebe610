----------------------------- MODULE MCSppuHost -----------------------------
(***************************************************************************)
(* Values for SppuHost.  The bus traffic of SppuTop's own Next is not used *)
(* here: the processes of SppuHost issue the writes.                       *)
(***************************************************************************)
EXTENDS SppuHost

\* INT_MASK as sppu_driver.c sets it: SPPU_CTRL_INT_EN, bit 2.
DriverMask == {2}
=============================================================================
