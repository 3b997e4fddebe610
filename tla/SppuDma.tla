------------------------------- MODULE SppuDma -------------------------------
(***************************************************************************)
(* fpga/rtl/sppu_dma.v, one step per rising clock edge, with the memory it *)
(* writes (sppu_vecmem.v, ports A and C) and the host's memory port it     *)
(* reads from, which is an AXI slave outside this repository.              *)
(*                                                                         *)
(* sppu_top always asks for 4 * DIMENSION bytes to address 0, so lengths   *)
(* are counted in words.  A word is known by its place in the block at     *)
(* r_src; r_src never moves, every burst reads that block from its start.  *)
(***************************************************************************)
EXTENDS Naturals, Sequences

CONSTANTS
  BurstWords,     \* BURST_MAX + 1: 16 in the code
  MemoryWords,    \* words of vector memory: 4096 in the code
  TreeArea        \* where the tree generator writes

ASSUME DmaAssumption ==
  /\ BurstWords \in Nat \ {0} /\ MemoryWords \in Nat \ {0}
  /\ TreeArea \subseteq 0..(MemoryWords - 1)

VARIABLES
  dma_state, dma_busy, dma_done,
  r_dst, r_remaining,
  r_burst_len, burst_idx, burst_buf,
  m_axi_arvalid,
  vmem_port,        \* write presented on port A: vmem_wen, vmem_waddr, vmem_wdata
  owed,             \* beats the host has accepted to send and not yet sent
  mem,              \* vector memory
  requested,        \* history: the length of the transfer
  received          \* history: the beats the host has sent for it, in order

dmaControl == <<dma_state, dma_busy, dma_done>>
transfer   == <<r_dst, r_remaining, requested>>
burst      == <<r_burst_len, burst_idx, burst_buf>>
dmaVars    == <<dmaControl, transfer, burst, m_axi_arvalid, vmem_port, owed, mem,
                received>>

Address == 0..(MemoryWords - 1)
Beat    == 0..(BurstWords - 1)     \* a word of the block, by its place
Old     == BurstWords              \* nothing of this transfer
Tree    == BurstWords + 1          \* a word of the tree
DmaWord == 0..(BurstWords + 1)

NoPortWrite == [at |-> 0, word |-> Old]     \* vmem_wen low
NoTreeWrite == MemoryWords                  \* vmem_c_wen low

DmaTypeOK ==
  /\ dma_state \in {"IDLE", "AR", "READ", "WRITE", "DONE"}
  /\ dma_busy \in BOOLEAN /\ dma_done \in BOOLEAN
  /\ r_dst \in Address /\ r_remaining \in Nat /\ requested \in Nat
  /\ r_burst_len \in Beat /\ burst_idx \in Beat
  /\ burst_buf \in [Beat -> Beat \cup {Old}]
  /\ m_axi_arvalid \in BOOLEAN
  /\ vmem_port \in [at : Address, word : Beat \cup {Old}]
  /\ owed \in 0..BurstWords
  /\ mem \in [Address -> DmaWord] /\ received \in Seq(Beat)

DmaInit ==
  /\ dma_state = "IDLE" /\ dma_busy = FALSE /\ dma_done = FALSE
  /\ r_dst = 0 /\ r_remaining = 0 /\ requested = 0
  /\ r_burst_len = 0 /\ burst_idx = 0 /\ burst_buf = [i \in Beat |-> Old]
  /\ m_axi_arvalid = FALSE /\ vmem_port = NoPortWrite /\ owed = 0
  /\ mem = [a \in Address |-> Old] /\ received = <<>>

(***************************************************************************)
(* Vector memory at one edge: port A has priority, and a tree word (port C *)
(* at address c) that comes at the same edge is dropped.                   *)
(***************************************************************************)
\* Mutant: the tree has priority.
ArbitrationMutant(c) ==
  IF c # NoTreeWrite THEN [mem EXCEPT ![c] = Tree]
  ELSE IF vmem_port # NoPortWrite THEN [mem EXCEPT ![vmem_port.at] = vmem_port.word]
  ELSE mem

Arbitration(c) ==
  IF vmem_port # NoPortWrite THEN [mem EXCEPT ![vmem_port.at] = vmem_port.word]
  ELSE IF c # NoTreeWrite THEN [mem EXCEPT ![c] = Tree]
  ELSE mem

(***************************************************************************)
(* One operator per state.  c is the tree generator's write at this edge.  *)
(***************************************************************************)
DmaGoTo(next) == dma_state' = next /\ dma_done' = FALSE

\* ST_IDLE with start high.  What memory held before counts as Old.
DmaStart(words) ==
  /\ dma_state = "IDLE" /\ DmaGoTo("AR") /\ dma_busy' = TRUE
  /\ r_dst' = 0 /\ r_remaining' = words /\ requested' = words
  /\ vmem_port' = NoPortWrite /\ mem' = [a \in Address |-> Old]
  /\ received' = <<>>
  /\ UNCHANGED <<burst, m_axi_arvalid, owed>>

DmaWait(c) ==
  /\ dma_state = "IDLE" /\ DmaGoTo("IDLE")
  /\ vmem_port' = NoPortWrite /\ mem' = Arbitration(c)
  /\ UNCHANGED <<dma_busy, transfer, burst, m_axi_arvalid, owed, received>>

\* ST_AR: ask for the next burst, or stop.
IssueAddress(c) ==
  /\ dma_state = "AR"
  /\ \/ r_remaining = 0 /\ DmaGoTo("DONE") /\ UNCHANGED <<burst, m_axi_arvalid>>
     \/ /\ r_remaining # 0 /\ DmaGoTo("READ")
        /\ r_burst_len' = IF r_remaining > BurstWords THEN BurstWords - 1
                                                      ELSE r_remaining - 1
        /\ m_axi_arvalid' = TRUE /\ burst_idx' = 0 /\ UNCHANGED burst_buf
  /\ vmem_port' = NoPortWrite /\ mem' = Arbitration(c)
  /\ UNCHANGED <<dma_busy, transfer, owed, received>>

\* The host takes the address (arready) or sends a beat it owes (rvalid).
\* rready is high exactly in ST_READ.
Accepts(arready) == m_axi_arvalid /\ arready
Sends(rvalid)    == owed > 0 /\ rvalid

\* The beat the host sends next, counted by the host.
NextBeat == r_burst_len + 1 - owed

\* ST_READ: r_beat_cnt and burst_idx run in step here, one stands for both.
ReadBurst(arready, rvalid, c) ==
  /\ dma_state = "READ"
  /\ m_axi_arvalid' = (m_axi_arvalid /\ ~arready)
  /\ owed' = IF Accepts(arready) THEN r_burst_len + 1
             ELSE IF Sends(rvalid) THEN owed - 1 ELSE owed
  /\ \/ /\ Sends(rvalid)
        /\ burst_buf' = [burst_buf EXCEPT ![burst_idx] = NextBeat]
        /\ received' = Append(received, NextBeat)
        /\ \/ burst_idx = r_burst_len /\ burst_idx' = 0 /\ DmaGoTo("WRITE")
           \/ /\ burst_idx # r_burst_len
              /\ burst_idx' = (burst_idx + 1) % BurstWords
              /\ DmaGoTo("READ")
     \/ /\ ~Sends(rvalid) /\ DmaGoTo("READ")
        /\ UNCHANGED <<burst_idx, burst_buf, received>>
  /\ vmem_port' = NoPortWrite /\ mem' = Arbitration(c)
  /\ UNCHANGED <<dma_busy, transfer, r_burst_len>>

\* ST_WRITE: one word per cycle through the registered port.  The address
\* moves by 4 although memory is addressed in words.
WriteWord(c) ==
  /\ dma_state = "WRITE"
  /\ vmem_port' = [at |-> r_dst, word |-> burst_buf[burst_idx]]
  /\ r_dst' = (r_dst + 4) % MemoryWords
  /\ r_remaining' = r_remaining - 1
  /\ burst_idx' = (burst_idx + 1) % BurstWords
  /\ DmaGoTo(IF burst_idx + 1 > r_burst_len THEN "AR" ELSE "WRITE")
  /\ mem' = Arbitration(c)
  /\ UNCHANGED <<dma_busy, requested, received, r_burst_len, burst_buf,
                 m_axi_arvalid, owed>>

\* Mutant: busy falls, done does not rise.
DmaFinishMutant(c) ==
  /\ dma_state = "DONE" /\ DmaGoTo("IDLE") /\ dma_busy' = FALSE
  /\ vmem_port' = NoPortWrite /\ mem' = Arbitration(c)
  /\ UNCHANGED <<transfer, burst, m_axi_arvalid, owed, received>>

DmaFinish(c) ==
  /\ dma_state = "DONE"
  /\ dma_state' = "IDLE" /\ dma_busy' = FALSE /\ dma_done' = TRUE
  /\ vmem_port' = NoPortWrite /\ mem' = Arbitration(c)
  /\ UNCHANGED <<transfer, burst, m_axi_arvalid, owed, received>>

\* One edge: start and words are sampled in ST_IDLE only, arready and rvalid
\* are the host's.
DmaEdge(start, words, arready, rvalid, c) ==
  \/ start /\ DmaStart(words)
  \/ ~start /\ DmaWait(c)
  \/ IssueAddress(c) \/ ReadBurst(arready, rvalid, c)
  \/ WriteWord(c) \/ DmaFinish(c)

(***************************************************************************)
(* Properties.                                                             *)
(***************************************************************************)
DmaHandshake == INSTANCE EngineHandshake WITH
                  Abortable <- FALSE, busy <- dma_busy, done <- dma_done

Place(k) == (4 * k) % MemoryWords     \* where word k of a transfer goes

\* When the transfer ends the host has sent as many beats as words were asked
\* for, and word k in memory is its beat k: none was lost, stored twice or out
\* of order between the host, the burst buffer and the registered write port,
\* at a burst's end least of all, and no tree word took a word's place.
\* Excepted are the places in the tree's area and those a later word of the
\* transfer, past the end of memory, was stored over.  That the beats are the
\* words of the target vector, or that they lie where sppu_vecmem.v:11 has the
\* target, is not said and not so: every burst repeats the first one's block,
\* and the places are four apart.
BeatsStored ==
  dma_done =>
    /\ Len(received) = requested
    /\ \A k \in 0..(requested - 1) :
         \/ mem[Place(k)] = received[k + 1]
         \/ Place(k) \in TreeArea
         \/ \E j \in (k + 1)..(requested - 1) : Place(j) = Place(k)
=============================================================================
