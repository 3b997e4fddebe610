--------------------------- MODULE EngineHandshake ---------------------------
(***************************************************************************)
(* The control handshake every engine of the FPGA design offers to         *)
(* sppu_top: a start input sampled in the idle state, a registered busy    *)
(* flag, and a done flag that is high for exactly one clock cycle.  The    *)
(* dot-product engine, the DMA reader and the SEU tree generator all have  *)
(* this interface; they differ in what they do while busy and in whether   *)
(* they have an abort input (only the SEU has one, seu_reset).             *)
(*                                                                         *)
(* Step is one rising clock edge.  Its parameters are the values of the    *)
(* inputs sampled at that edge.                                            *)
(***************************************************************************)

CONSTANTS Abortable     \* TRUE for an engine with an abort input, else FALSE

VARIABLES busy, done

TypeOK == busy \in BOOLEAN /\ done \in BOOLEAN

Init == busy = FALSE /\ done = FALSE

\* Leaving the idle state, or staying in it: a start is seen only here.
Idle(start) == ~busy /\ busy' = start /\ done' = FALSE

\* A busy engine ignores start.
Work   == busy /\ busy' = TRUE  /\ done' = FALSE
Finish == busy /\ busy' = FALSE /\ done' = TRUE

Abort == busy' = FALSE /\ done' = FALSE

Step(start, abort) ==
  \/ abort /\ Abort
  \/ ~abort /\ (Idle(start) \/ Work \/ Finish)

Next == \E start \in BOOLEAN, abort \in {FALSE, Abortable} : Step(start, abort)

\* The edge after the one at which done rose.
DoneFalls == done /\ \E start \in BOOLEAN : Idle(start)

Fairness == WF_<<busy, done>>(Finish) /\ WF_<<busy, done>>(DoneFalls)

Spec == Init /\ [][Next]_<<busy, done>> /\ Fairness
=============================================================================
