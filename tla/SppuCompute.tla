----------------------------- MODULE SppuCompute -----------------------------
(***************************************************************************)
(* The search path of sppu_top.v: the DMA reader and the dot-product       *)
(* engine on the one START wire, and vector memory with the tree           *)
(* generator's writes.  The engine does not wait for the target to be      *)
(* loaded: both begin at the same edge.  The reader begins only from       *)
(* STATUS READY, the engine always, so either may be at work when a START  *)
(* comes that only the other takes.                                        *)
(***************************************************************************)
EXTENDS SppuDotprod, SppuDma

computeVars == <<vars, dmaVars>>

ComputeInit == Init /\ DmaInit

\* The dot-product engine's share of an edge.
DpEdge(start, dimension) ==
  \/ start /\ \E vec_count \in 0..MaxCount : Start(vec_count, dimension)
  \/ ~start /\ Wait
  \/ Working

\* One clock edge.  start is ctrl_start_pulse, loads is dma_start, which is
\* the same only while STATUS reads READY.
Clock(start, arready, rvalid) ==
  \E loads \in {start, FALSE}, dimension \in 0..MaxDimension,
     c \in TreeArea \cup {NoTreeWrite} :
       /\ DpEdge(start, dimension)
       /\ DmaEdge(loads, dimension, arready, rvalid, c)

ComputeNext == \E start, arready, rvalid \in BOOLEAN : Clock(start, arready, rvalid)

ComputeSpec == ComputeInit /\ [][ComputeNext]_computeVars

(***************************************************************************)
(* Fairness: the clock runs while anything is left to do, and the host     *)
(* accepts an address and sends what it owes.                              *)
(***************************************************************************)
Running == state # "IDLE" \/ done \/ dma_done
             \/ dma_state \in {"AR", "WRITE", "DONE"}

ComputeFairness ==
  /\ WF_computeVars(Running /\ ComputeNext)
  /\ WF_computeVars(/\ dma_state = "READ" /\ m_axi_arvalid
                    /\ \E start, rvalid \in BOOLEAN : Clock(start, TRUE, rvalid))
  /\ WF_computeVars(/\ dma_state = "READ" /\ owed > 0
                    /\ \E start, arready \in BOOLEAN : Clock(start, arready, TRUE))

ComputeFairSpec == ComputeSpec /\ ComputeFairness

\* Both engines are, seen from sppu_top, the handshake SppuTop assumes of
\* them although each may be started and end while the other is at work:
\* a start is taken only when idle, done is one cycle long, every search
\* ends, and every transfer ends if the host's memory port answers.
EnginesImplementHandshake == Handshake!Spec /\ DmaHandshake!Spec
=============================================================================
