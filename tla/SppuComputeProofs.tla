-------------------------- MODULE SppuComputeProofs --------------------------
(***************************************************************************)
(* The two engines a search starts offer the handshake sppu_top relies on. *)
(* The dot-product engine stays within the configured vectors and always   *)
(* gets closer to its end, for every VEC_COUNT and DIMENSION; the DMA      *)
(* reader loses no beat, for every burst size.  Wired together with the    *)
(* tree generator and the control logic they are the device that SppuTop   *)
(* describes.                                                              *)
(***************************************************************************)
EXTENDS SppuDevice, SequenceTheorems, TLAPS

(***************************************************************************)
(* The inductive invariant: the flags agree with the state register, the   *)
(* counters are in range, and best_idx names a vector of this search.      *)
(***************************************************************************)
BusyIsWorking == (busy <=> state # "IDLE") /\ ~(busy /\ done)

BestInRange == state # "IDLE" => best_idx = NoIndex \/ best_idx < r_vec_count

DotInv == TypeOK /\ BusyIsWorking /\ CountersInRange /\ BestInRange
            /\ ResultInRange

LEMMA DotInvInit == Init => DotInv
<1>. SUFFICES ASSUME Init PROVE DotInv
  OBVIOUS
<1>. USE DotprodAssumption DEF Init
<1>1. state \in States /\ busy \in BOOLEAN /\ done \in BOOLEAN /\ BusyIsWorking
  BY DEF States, BusyIsWorking
<1>2. /\ r_vec_count \in 0..MaxCount /\ r_dimension \in 0..MaxDimension
      /\ cur_vec \in Nat /\ cur_dim \in Nat /\ result_idx \in Nat
      /\ result_score \in Int /\ cur_dot_acc \in Int
  OBVIOUS
<1>3. best_idx \in Nat \cup {NoIndex} /\ best_score \in Int
  BY DEF Lowest
<1>4. CountersInRange /\ BestInRange /\ ResultInRange
  BY DEF CountersInRange, BestInRange, ResultInRange
<1>. QED
  BY <1>1, <1>2, <1>3, <1>4 DEF DotInv, TypeOK

\* The comparison keeps best_idx and best_score typed and in range.
LEMMA CompareInRange ==
  ASSUME DotInv, state = "COMPUTE", ComparePrevious
  PROVE  /\ best_idx' \in Nat \cup {NoIndex} /\ best_score' \in Int
         /\ cur_dot_acc' \in Int
         /\ best_idx' = NoIndex \/ best_idx' < r_vec_count
<1>1. CASE cur_dim = 0 /\ cur_vec > 0
  <2>1. cur_vec - 1 \in Nat /\ cur_vec - 1 < r_vec_count
    BY <1>1 DEF DotInv, TypeOK, CountersInRange
  <2>. QED
    BY <1>1, <2>1 DEF ComparePrevious, DotInv, TypeOK, BestInRange
<1>2. CASE ~(cur_dim = 0 /\ cur_vec > 0)
  BY <1>2 DEF ComparePrevious, best, DotInv, TypeOK, BestInRange
<1>. QED
  BY <1>1, <1>2

\* The state register and the two flags.
LEMMA FlagsStep ==
  ASSUME DotInv, Next
  PROVE  state' \in States /\ busy' \in BOOLEAN /\ done' \in BOOLEAN
         /\ BusyIsWorking'
<1>. USE DEF DotInv, TypeOK, States, BusyIsWorking
<1>1. CASE \E n \in 0..MaxCount, d \in 0..MaxDimension : Start(n, d)
  BY <1>1 DEF Start
<1>2. CASE Wait
  BY <1>2 DEF Wait
<1>3. CASE LoadTarget \/ Compute
  BY <1>3 DEF LoadTarget, Compute
<1>4. CASE Publish
  BY <1>4 DEF Publish
<1>. QED
  BY <1>1, <1>2, <1>3, <1>4 DEF Next, Working

\* The latched configuration and the two counters.
LEMMA CountersStep ==
  ASSUME DotInv, Next
  PROVE  /\ r_vec_count' \in 0..MaxCount /\ r_dimension' \in 0..MaxDimension
         /\ cur_vec' \in Nat /\ cur_dim' \in Nat
         /\ CountersInRange'
<1>. USE DEF CountersInRange
<1>0. /\ r_vec_count \in 0..MaxCount /\ r_dimension \in 0..MaxDimension
      /\ cur_vec \in Nat /\ cur_dim \in Nat
      /\ CountersInRange
  BY DEF DotInv, TypeOK
<1>1. CASE \E n \in 0..MaxCount, d \in 0..MaxDimension : Start(n, d)
  BY <1>0, <1>1 DEF Start
<1>2. CASE Wait
  BY <1>0, <1>2 DEF Wait, counters
<1>3. CASE LoadTarget
  BY <1>0, <1>3 DEF LoadTarget, LastDim
<1>4. CASE Compute
  BY <1>0, <1>4 DEF Compute, LastDim, LastVec
<1>5. CASE Publish
  BY <1>0, <1>5 DEF Publish, counters
<1>. QED
  BY <1>1, <1>2, <1>3, <1>4, <1>5 DEF Next, Working

\* The best candidate, the accumulator and the published result.
LEMMA BestStep ==
  ASSUME DotInv, Next
  PROVE  /\ best_idx' \in Nat \cup {NoIndex} /\ best_score' \in Int
         /\ cur_dot_acc' \in Int /\ BestInRange'
         /\ result_idx' \in Nat /\ result_score' \in Int
         /\ ResultInRange'
<1>0. /\ r_vec_count \in Nat /\ cur_vec \in Nat
      /\ best_idx \in Nat \cup {NoIndex} /\ best_score \in Int
      /\ cur_dot_acc \in Int /\ result_idx \in Nat /\ result_score \in Int
      /\ BestInRange /\ ResultInRange
  BY DotprodAssumption DEF DotInv, TypeOK
<1>1. CASE \E n \in 0..MaxCount, d \in 0..MaxDimension : Start(n, d)
  BY <1>0, <1>1 DEF Start, results, Lowest, BestInRange, ResultInRange
<1>2. CASE Wait
  BY <1>0, <1>2 DEF Wait, counters, best, results, BestInRange, ResultInRange
<1>3. CASE LoadTarget
  BY <1>0, <1>3 DEF LoadTarget, best, results, BestInRange, ResultInRange
<1>4. CASE Compute
  <2>1. /\ best_idx' \in Nat \cup {NoIndex} /\ best_score' \in Int
        /\ cur_dot_acc' \in Int
        /\ best_idx' = NoIndex \/ best_idx' < r_vec_count
    BY <1>4, CompareInRange DEF Compute
  <2>2. UNCHANGED <<r_vec_count, result_idx, result_score>> /\ ~done'
    BY <1>4 DEF Compute, results
  <2>. QED
    BY <1>0, <2>1, <2>2 DEF BestInRange, ResultInRange
<1>5. CASE Publish
  <2>1. /\ state = "DONE" /\ state' = "IDLE"
        /\ r_vec_count' = r_vec_count /\ cur_dot_acc' = cur_dot_acc
    BY <1>5 DEF Publish, counters
  <2>2. best_idx' \in Nat \cup {NoIndex} /\ best_score' \in Int
    BY <1>0, <1>5 DEF Publish
  <2>3. /\ result_idx' \in Nat /\ result_score' \in Int
        /\ result_idx' = 0 \/ result_idx' < r_vec_count
    BY <1>0, <1>5, <2>1 DEF Publish, BestInRange
  <2>. QED
    BY <1>0, <2>1, <2>2, <2>3 DEF BestInRange, ResultInRange
<1>. QED
  BY <1>1, <1>2, <1>3, <1>4, <1>5 DEF Next, Working

LEMMA DotInvNext == DotInv /\ [Next]_vars => DotInv'
<1>1. ASSUME DotInv, Next PROVE DotInv'
  BY <1>1, FlagsStep, CountersStep, BestStep DEF DotInv, TypeOK
<1>2. ASSUME DotInv, UNCHANGED vars PROVE DotInv'
  BY <1>2 DEF vars, counters, best, results, DotInv, TypeOK, BusyIsWorking,
              CountersInRange, BestInRange, ResultInRange
<1>. QED
  BY <1>1, <1>2

LEMMA DotInvariant == Spec => []DotInv
BY DotInvInit, DotInvNext, PTL DEF Spec

\* Every register of the engine keeps its type.
THEOREM DotprodTypeCorrect == Spec => []TypeOK
BY DotInvariant, PTL DEF DotInv

\* The element read always belongs to the search.
THEOREM CountersStayInRange == Spec => []CountersInRange
BY DotInvariant, PTL DEF DotInv

\* RESULT_IDX always names a vector of the search it answers.
THEOREM ResultStaysInRange == Spec => []ResultInRange
BY DotInvariant, PTL DEF DotInv

\* Every cycle of a search makes progress.
THEOREM SearchProgresses == Spec => StepProgresses
<1>1. ASSUME DotInv, [Next]_vars, busy, busy'
      PROVE  \/ Phase' > Phase
             \/ Phase' = Phase /\ cur_vec' > cur_vec
             \/ Phase' = Phase /\ cur_vec' = cur_vec /\ cur_dim' > cur_dim
             \/ UNCHANGED vars
  <2>. USE <1>1 DEF DotInv, TypeOK, BusyIsWorking, Phase
  <2>1. CASE LoadTarget
    BY <2>1 DEF LoadTarget
  <2>2. CASE Compute
    BY <2>2 DEF Compute
  <2>3. CASE Publish
    BY <2>3 DEF Publish
  <2>. QED
    BY <2>1, <2>2, <2>3 DEF Next, Start, Wait, Working
<1>. QED
  BY <1>1, DotInvariant, PTL DEF Spec, StepProgresses

\* Every step of the engine is a step of the handshake, or does not show.
THEOREM EngineImplementsHandshake == Spec => HandshakeSafety
<1>1. Init => Handshake!Init
  BY DEF Init, Handshake!Init
<1>2. DotInv /\ [Next]_vars => [Handshake!Next]_<<busy, done>>
  <2>. SUFFICES ASSUME DotInv, [Next]_vars
                PROVE  [Handshake!Next]_<<busy, done>>
    OBVIOUS
  <2>. USE DEF DotInv, TypeOK, BusyIsWorking, Handshake!Next, Handshake!Step,
               Handshake!Idle, Handshake!Work, Handshake!Finish
  <2>1. CASE \E n \in 0..MaxCount, d \in 0..MaxDimension : Start(n, d)
    BY <2>1 DEF Start
  <2>2. CASE Wait
    BY <2>2 DEF Wait
  <2>3. CASE LoadTarget \/ Compute
    BY <2>3 DEF LoadTarget, Compute
  <2>4. CASE Publish
    BY <2>4 DEF Publish
  <2>5. CASE UNCHANGED vars
    BY <2>5 DEF vars
  <2>. QED
    BY <2>1, <2>2, <2>3, <2>4, <2>5 DEF Next, Working
<1>. QED
  BY <1>1, <1>2, DotInvariant, PTL DEF Spec, HandshakeSafety

(***************************************************************************)
(* Remainders.                                                             *)
(***************************************************************************)
LEMMA Remainder ==
  ASSUME NEW m \in Nat \ {0}, NEW q \in Nat, NEW r \in 0..(m - 1)
  PROVE  (m * q + r) % m = r
OBVIOUS

LEMMA Division ==
  ASSUME NEW m \in Nat \ {0}, NEW a \in Nat
  PROVE  a \div m \in Nat /\ a % m \in 0..(m - 1) /\ a = (m * (a \div m)) + (a % m)
OBVIOUS

LEMMA SmallRemainder ==
  ASSUME NEW m \in Nat \ {0}, NEW a \in 0..(m - 1)
  PROVE  a % m = a
OBVIOUS

\* Remainders may be taken before an addition.
LEMMA RemainderOfSum ==
  ASSUME NEW m \in Nat \ {0}, NEW a \in Nat, NEW b \in Nat
  PROVE  ((a % m) + b) % m = (a + b) % m
<1>. DEFINE q == a \div m
            r == a % m
            p == (r + b) \div m
            t == (r + b) % m
<1>1. q \in Nat /\ r \in 0..(m - 1) /\ a = m * q + r
  BY Division
<1>2. p \in Nat /\ t \in 0..(m - 1) /\ r + b = m * p + t
  <2>1. r + b \in Nat
    BY <1>1
  <2>. HIDE DEF r
  <2>. QED
    BY <2>1, Division
<1>. HIDE DEF q, r, p, t
<1>3. a + b = m * (q + p) + t /\ q + p \in Nat
  BY <1>1, <1>2
<1>4. (m * (q + p) + t) % m = t
  BY <1>2, <1>3, Remainder
<1>. QED
  BY <1>3, <1>4 DEF r, t

(***************************************************************************)
(* The DMA reader.  Issued counts the words given to the write port; what  *)
(* memory will hold after the write that is on the port is Landed.  The    *)
(* burst buffer holds the beats received last, those from its place        *)
(* burst_idx on not yet issued.                                            *)
(***************************************************************************)
Issued == requested - r_remaining

Landed == IF vmem_port # NoPortWrite
            THEN [mem EXCEPT ![vmem_port.at] = vmem_port.word] ELSE mem

\* Word k of the first n is neither in the tree's area nor stored over.
Stays(k, n) == /\ Place(k) \notin TreeArea
               /\ \A j \in (k + 1)..(n - 1) : Place(j) # Place(k)

DmaTypeInv == DmaTypeOK /\ requested \in 0..MaxDimension /\ r_remaining \in 0..requested

FlagsInv ==
  /\ dma_busy <=> dma_state # "IDLE"
  /\ dma_done => dma_state = "IDLE" /\ r_remaining = 0
  /\ dma_state = "DONE" => r_remaining = 0
  /\ dma_state \notin {"AR", "WRITE"} => vmem_port = NoPortWrite

HostInv ==
  IF dma_state = "READ"
    THEN /\ burst_idx <= r_burst_len
         /\ IF m_axi_arvalid THEN owed = 0 /\ burst_idx = 0
                             ELSE owed = r_burst_len + 1 - burst_idx
    ELSE owed = 0 /\ ~m_axi_arvalid

BurstInv ==
  /\ dma_state \in {"AR", "DONE"} \/ dma_done => Len(received) = Issued
  /\ dma_state = "READ" =>
       /\ r_remaining > r_burst_len /\ Len(received) = Issued + burst_idx
       /\ \A i \in 0..(burst_idx - 1) : burst_buf[i] = received[Issued + i + 1]
  /\ dma_state = "WRITE" =>
       /\ burst_idx <= r_burst_len /\ r_remaining > r_burst_len - burst_idx
       /\ Len(received) = Issued + r_burst_len + 1 - burst_idx
       /\ \A i \in burst_idx..r_burst_len :
            burst_buf[i] = received[Issued + i - burst_idx + 1]

StoredInv ==
  /\ dma_state # "IDLE" => r_dst = Place(Issued)
  /\ dma_state # "IDLE" \/ dma_done =>
       \A k \in 0..(Issued - 1) :
         Stays(k, Issued) => Landed[Place(k)] = received[k + 1]

DmaInv == DmaTypeInv /\ FlagsInv /\ HostInv /\ BurstInv /\ StoredInv

USE DEF Beat, Address, Old, Tree, DmaWord, NoTreeWrite

LEMMA PlaceIsAddress ==
  ASSUME NEW k \in Nat
  PROVE  Place(k) \in Address
<1>1. 4 * k \in Nat
  OBVIOUS
<1>. QED
  BY <1>1, DmaAssumption, Division DEF Place

\* A beat received leaves the earlier ones alone.
LEMMA Received ==
  ASSUME NEW s \in Seq(Beat), NEW beat \in Beat
  PROVE  /\ Append(s, beat) \in Seq(Beat) /\ Len(s) \in Nat
         /\ Len(Append(s, beat)) = Len(s) + 1
         /\ Append(s, beat)[Len(s) + 1] = beat
         /\ \A i \in 1..Len(s) : Append(s, beat)[i] = s[i]
BY AppendProperties, LenProperties

LEMMA DmaInvInit == DmaInit => DmaInv
<1>. SUFFICES ASSUME DmaInit PROVE DmaInv
  OBVIOUS
<1>. USE DmaAssumption, DotprodAssumption DEF DmaInit
<1>a. burst_buf \in [Beat -> Beat \cup {Old}] /\ mem \in [Address -> DmaWord]
  OBVIOUS
<1>b. vmem_port \in [at : Address, word : Beat \cup {Old}]
  BY DEF NoPortWrite
<1>c. /\ r_dst \in Address /\ r_burst_len \in Beat /\ burst_idx \in Beat
      /\ owed \in 0..BurstWords /\ requested \in 0..MaxDimension
      /\ r_remaining \in 0..requested
  OBVIOUS
<1>d. received \in Seq(Beat)
  BY EmptySeq
<1>1. DmaTypeInv
  BY <1>a, <1>b, <1>c, <1>d DEF DmaTypeInv, DmaTypeOK, DmaInit
<1>2. FlagsInv /\ HostInv /\ BurstInv /\ StoredInv
  BY DEF FlagsInv, HostInv, BurstInv, StoredInv
<1>. QED
  BY <1>1, <1>2 DEF DmaInv

\* Vector memory keeps its type, and outside the tree's area what was on its
\* way has landed after the edge.
LEMMA Lands ==
  ASSUME DmaInv, NEW c \in TreeArea \cup {NoTreeWrite}, mem' = Arbitration(c)
  PROVE  /\ mem' \in [Address -> DmaWord]
         /\ \A a \in Address \ TreeArea : mem'[a] = Landed[a]
<1>. USE DmaAssumption DEF DmaInv, DmaTypeInv, DmaTypeOK
<1>1. CASE vmem_port # NoPortWrite
  <2>1. mem' = Landed /\ mem' \in [Address -> DmaWord]
    BY <1>1 DEF Arbitration, Landed
  <2>. QED
    BY <2>1
<1>2. CASE vmem_port = NoPortWrite /\ c = NoTreeWrite
  BY <1>2 DEF Arbitration, Landed
<1>3. CASE vmem_port = NoPortWrite /\ c # NoTreeWrite
  <2>1. Landed = mem /\ mem' = [mem EXCEPT ![c] = Tree] /\ c \in TreeArea
    BY <1>3 DEF Arbitration, Landed
  <2>2. mem' \in [Address -> DmaWord]
    BY <2>1
  <2>. QED
    BY <2>1, <2>2
<1>. QED
  BY <1>1, <1>2, <1>3

\* An edge that puts nothing on the write port; a beat may come.
LEMMA NothingIssued ==
  ASSUME DmaInv, NEW c \in TreeArea \cup {NoTreeWrite}, mem' = Arbitration(c),
         vmem_port' = NoPortWrite, UNCHANGED <<transfer, dma_busy>>,
         dma_state # "IDLE" \/ dma_done, dma_state = "IDLE" => dma_state' = "IDLE",
         \A k \in 0..(Issued - 1) : received'[k + 1] = received[k + 1]
  PROVE  StoredInv'
<1>1. Landed' = mem' /\ Issued' = Issued /\ r_dst' = r_dst
  BY DEF Landed, Issued, transfer
<1>2. ASSUME NEW k \in 0..(Issued - 1), Stays(k, Issued)
      PROVE  Landed'[Place(k)] = received'[k + 1]
  <2>1. k \in Nat
    BY DotprodAssumption DEF Issued, DmaInv, DmaTypeInv
  <2>2. Place(k) \in Address \ TreeArea
    BY <1>2, <2>1, PlaceIsAddress DEF Stays
  <2>. QED
    BY <1>1, <1>2, <2>2, Lands DEF DmaInv, StoredInv
<1>3. dma_state' # "IDLE" => r_dst' = Place(Issued')
  BY <1>1 DEF DmaInv, StoredInv
<1>4. \A k \in 0..(Issued' - 1) :
        Stays(k, Issued') => Landed'[Place(k)] = received'[k + 1]
  BY <1>1, <1>2
<1>. QED
  BY <1>3, <1>4 DEF StoredInv, Place, Stays

(***************************************************************************)
(* One lemma per state of the machine.                                     *)
(***************************************************************************)
LEMMA StartKeeps ==
  ASSUME DmaInv, NEW words \in 0..MaxDimension, DmaStart(words)
  PROVE  DmaInv'
<1>. USE DmaAssumption, DotprodAssumption DEF DmaInv, DmaStart, DmaGoTo, burst
<1>1. mem' \in [Address -> DmaWord] /\ vmem_port' \in [at : Address, word : Beat \cup {Old}]
  BY DEF NoPortWrite
<1>2. DmaTypeInv'
  <2>t1. /\ dma_state' \in {"IDLE", "AR", "READ", "WRITE", "DONE"}
         /\ dma_busy' \in BOOLEAN /\ dma_done' \in BOOLEAN
         /\ m_axi_arvalid' \in BOOLEAN
    BY DEF DmaTypeInv, DmaTypeOK
  <2>t2. /\ r_dst' \in Address /\ requested' \in 0..MaxDimension
         /\ r_remaining' \in 0..requested'
    BY DEF DmaTypeInv, DmaTypeOK
  <2>t3. r_burst_len' \in Beat /\ burst_idx' \in Beat /\ owed' \in 0..BurstWords
    BY DEF DmaTypeInv, DmaTypeOK
  <2>t4. burst_buf' \in [Beat -> Beat \cup {Old}]
    BY DEF DmaTypeInv, DmaTypeOK
  <2>t5. r_remaining' \in Nat /\ requested' \in Nat
    BY <2>t2, DotprodAssumption
  <2>t6. received' \in Seq(Beat)
    BY EmptySeq
  <2>. QED
    BY <1>1, <2>t1, <2>t2, <2>t3, <2>t4, <2>t5, <2>t6 DEF DmaTypeInv, DmaTypeOK
<1>3. FlagsInv' /\ HostInv'
  BY DEF FlagsInv, HostInv
<1>4. Issued' = 0
  BY DEF Issued
<1>5. 0 % MemoryWords = 0
  BY SmallRemainder
<1>6. BurstInv'
  BY <1>4, <1>5 DEF BurstInv
<1>7. StoredInv'
  BY <1>4, <1>5 DEF StoredInv, Place
<1>. QED
  BY <1>2, <1>3, <1>6, <1>7

LEMMA WaitKeeps ==
  ASSUME DmaInv, NEW c \in TreeArea \cup {NoTreeWrite}, DmaWait(c)
  PROVE  DmaInv'
<1>. USE DmaAssumption DEF DmaInv, DmaWait, DmaGoTo, burst, transfer
<1>1. mem' \in [Address -> DmaWord] /\ vmem_port' \in [at : Address, word : Beat \cup {Old}]
  BY Lands DEF NoPortWrite
<1>2. DmaTypeInv'
  BY <1>1 DEF DmaTypeInv, DmaTypeOK
<1>3. FlagsInv' /\ HostInv' /\ BurstInv'
  BY DEF FlagsInv, HostInv, BurstInv
<1>4. StoredInv'
  BY DEF StoredInv
<1>. QED
  BY <1>2, <1>3, <1>4

LEMMA AddressKeeps ==
  ASSUME DmaInv, NEW c \in TreeArea \cup {NoTreeWrite}, IssueAddress(c)
  PROVE  DmaInv'
<1>. USE DmaAssumption DEF DmaInv, IssueAddress, DmaGoTo
<1>1. mem' \in [Address -> DmaWord] /\ vmem_port' \in [at : Address, word : Beat \cup {Old}]
  BY Lands DEF NoPortWrite
<1>2. r_burst_len' \in Beat /\ burst_idx' \in Beat
  BY DEF DmaTypeInv, DmaTypeOK, burst
<1>3. DmaTypeInv'
  BY <1>1, <1>2 DEF DmaTypeInv, DmaTypeOK, transfer, burst
<1>4. CASE r_remaining = 0 /\ DmaGoTo("DONE") /\ UNCHANGED <<burst, m_axi_arvalid>>
  <2>1. FlagsInv' /\ HostInv'
    BY <1>4 DEF FlagsInv, HostInv, transfer
  <2>2. BurstInv'
    BY <1>4 DEF BurstInv, Issued, transfer
  <2>. QED
    BY <1>3, <2>1, <2>2, NothingIssued
<1>5. CASE /\ r_remaining # 0 /\ DmaGoTo("READ")
           /\ r_burst_len' = IF r_remaining > BurstWords THEN BurstWords - 1
                                                         ELSE r_remaining - 1
           /\ m_axi_arvalid' = TRUE /\ burst_idx' = 0 /\ UNCHANGED burst_buf
  <2>1. Issued' = Issued /\ r_remaining' = r_remaining /\ r_remaining \in Nat
          /\ owed' = owed /\ dma_busy' = dma_busy /\ received' = received
          /\ Issued \in Nat /\ Len(received) = Issued
    BY DotprodAssumption DEF Issued, transfer, DmaTypeInv, DmaTypeOK, BurstInv
  <2>2. FlagsInv' /\ HostInv'
    BY <1>2, <1>5, <2>1 DEF FlagsInv, HostInv
  <2>3. BurstInv'
    BY <1>2, <1>5, <2>1 DEF BurstInv
  <2>. QED
    BY <1>3, <2>2, <2>3, NothingIssued
<1>. QED
  BY <1>4, <1>5

LEMMA ReadKeeps ==
  ASSUME DmaInv, NEW c \in TreeArea \cup {NoTreeWrite},
         NEW arready \in BOOLEAN, NEW rvalid \in BOOLEAN,
         ReadBurst(arready, rvalid, c)
  PROVE  DmaInv'
<1>. USE DmaAssumption DEF DmaInv, ReadBurst, DmaGoTo
<1>1. mem' \in [Address -> DmaWord] /\ vmem_port' \in [at : Address, word : Beat \cup {Old}]
  BY Lands DEF NoPortWrite
<1>2. Issued' = Issued /\ r_remaining' = r_remaining /\ requested' = requested
        /\ r_dst' = r_dst /\ r_burst_len' = r_burst_len
  BY DEF Issued, transfer
<1>3. /\ r_burst_len \in Beat /\ burst_idx \in Beat /\ owed \in 0..BurstWords
      /\ Issued \in Nat /\ received \in Seq(Beat)
      /\ Len(received) = Issued + burst_idx
  BY DotprodAssumption DEF Issued, DmaTypeInv, DmaTypeOK, BurstInv
<1>4. CASE Sends(rvalid)
  <2>1. ~m_axi_arvalid /\ owed = r_burst_len + 1 - burst_idx /\ NextBeat = burst_idx
    BY <1>3, <1>4 DEF Sends, HostInv, NextBeat
  <2>2. burst_buf' = [burst_buf EXCEPT ![burst_idx] = burst_idx]
          /\ owed' = owed - 1 /\ m_axi_arvalid' = FALSE
    BY <1>4, <2>1 DEF Accepts
  <2>3. burst_buf' \in [Beat -> Beat \cup {Old}]
    BY <1>3, <2>2 DEF DmaTypeInv, DmaTypeOK
  <2>r. received' = Append(received, burst_idx)
    BY <1>4, <2>1
  <2>s. /\ received' \in Seq(Beat) /\ Len(received') = Issued + burst_idx + 1
        /\ received'[Issued + burst_idx + 1] = burst_idx
        /\ \A i \in 1..(Issued + burst_idx) : received'[i] = received[i]
    BY <1>3, <2>r, Received
  <2>k. \A k \in 0..(Issued - 1) : received'[k + 1] = received[k + 1]
    BY <1>3, <2>s
  <2>4. ASSUME NEW i \in 0..burst_idx
        PROVE  burst_buf'[i] = received'[Issued + i + 1]
    <3>1. CASE i = burst_idx
      BY <1>3, <2>2, <2>s, <3>1 DEF DmaTypeInv, DmaTypeOK
    <3>2. CASE i # burst_idx
      <4>1. i \in 0..(burst_idx - 1) /\ Issued + i + 1 \in 1..(Issued + burst_idx)
        BY <1>3, <3>2
      <4>2. burst_buf'[i] = burst_buf[i]
        BY <1>3, <2>2, <3>2 DEF DmaTypeInv, DmaTypeOK
      <4>3. burst_buf[i] = received[Issued + i + 1]
        BY <4>1 DEF BurstInv
      <4>. QED
        BY <2>s, <4>1, <4>2, <4>3
    <3>. QED
      BY <3>1, <3>2
  <2>5. CASE burst_idx = r_burst_len /\ burst_idx' = 0 /\ DmaGoTo("WRITE")
    <3>1. DmaTypeInv'
      <4>t1. /\ dma_state' \in {"IDLE", "AR", "READ", "WRITE", "DONE"}
             /\ dma_busy' \in BOOLEAN /\ dma_done' \in BOOLEAN
             /\ m_axi_arvalid' \in BOOLEAN
        BY <1>2, <1>3, <2>1, <2>2, <2>3, <2>5 DEF DmaTypeInv, DmaTypeOK
      <4>t2. /\ r_dst' \in Address /\ requested' \in 0..MaxDimension
             /\ r_remaining' \in 0..requested'
        BY <1>2, <1>3, <2>1, <2>2, <2>3, <2>5 DEF DmaTypeInv, DmaTypeOK
      <4>t3. r_burst_len' \in Beat /\ burst_idx' \in Beat /\ owed' \in 0..BurstWords
        BY <1>2, <1>3, <2>1, <2>2, <2>3, <2>5 DEF DmaTypeInv, DmaTypeOK
      <4>t4. burst_buf' \in [Beat -> Beat \cup {Old}]
        BY <1>2, <1>3, <2>1, <2>2, <2>3, <2>5 DEF DmaTypeInv, DmaTypeOK
      <4>t5. r_remaining' \in Nat /\ requested' \in Nat
        BY <4>t2, DotprodAssumption
      <4>. QED
        BY <1>1, <2>s, <4>t1, <4>t2, <4>t3, <4>t4, <4>t5 DEF DmaTypeInv, DmaTypeOK
    <3>2. FlagsInv' /\ HostInv'
      BY <1>2, <1>3, <2>1, <2>2, <2>5 DEF FlagsInv, HostInv
    <3>3. BurstInv'
      BY <1>2, <1>3, <2>s, <2>4, <2>5 DEF BurstInv, DmaTypeInv
    <3>4. StoredInv'
      BY <1>2, <2>k, NothingIssued DEF transfer
    <3>. QED
      BY <3>1, <3>2, <3>3, <3>4
  <2>6. CASE /\ burst_idx # r_burst_len
             /\ burst_idx' = (burst_idx + 1) % BurstWords /\ DmaGoTo("READ")
    <3>1. burst_idx + 1 \in 0..(BurstWords - 1)
      BY <1>3, <2>6 DEF HostInv
    <3>2. burst_idx' = burst_idx + 1
      BY <3>1, <2>6, SmallRemainder
    <3>3. DmaTypeInv'
      <4>t1. /\ dma_state' \in {"IDLE", "AR", "READ", "WRITE", "DONE"}
             /\ dma_busy' \in BOOLEAN /\ dma_done' \in BOOLEAN
             /\ m_axi_arvalid' \in BOOLEAN
        BY <1>2, <1>3, <2>1, <2>2, <2>3, <2>6, <3>1, <3>2 DEF DmaTypeInv, DmaTypeOK
      <4>t2. /\ r_dst' \in Address /\ requested' \in 0..MaxDimension
             /\ r_remaining' \in 0..requested'
        BY <1>2, <1>3, <2>1, <2>2, <2>3, <2>6, <3>1, <3>2 DEF DmaTypeInv, DmaTypeOK
      <4>t3. r_burst_len' \in Beat /\ burst_idx' \in Beat /\ owed' \in 0..BurstWords
      BY <1>2, <1>3, <1>4, <2>1, <2>2, <3>1, <3>2 DEF Sends
      <4>t4. burst_buf' \in [Beat -> Beat \cup {Old}]
        BY <1>2, <1>3, <2>1, <2>2, <2>3, <2>6, <3>1, <3>2 DEF DmaTypeInv, DmaTypeOK
      <4>t5. r_remaining' \in Nat /\ requested' \in Nat
        BY <4>t2, DotprodAssumption
      <4>. QED
        BY <1>1, <2>s, <4>t1, <4>t2, <4>t3, <4>t4, <4>t5 DEF DmaTypeInv, DmaTypeOK
    <3>4. FlagsInv' /\ HostInv'
      BY <1>2, <1>3, <2>1, <2>2, <2>6, <3>2 DEF FlagsInv, HostInv
    <3>5. BurstInv'
      BY <1>2, <1>3, <2>s, <2>4, <2>6, <3>2 DEF BurstInv, DmaTypeInv
    <3>6. StoredInv'
      BY <1>2, <2>k, NothingIssued DEF transfer
    <3>. QED
      BY <3>3, <3>4, <3>5, <3>6
  <2>. QED
    BY <1>4, <2>5, <2>6
<1>5. CASE ~Sends(rvalid)
  <2>1. burst_idx' = burst_idx /\ burst_buf' = burst_buf /\ dma_state' = "READ"
          /\ dma_done' = FALSE /\ received' = received
    BY <1>5
  <2>2. IF Accepts(arready)
          THEN m_axi_arvalid' = FALSE /\ owed' = r_burst_len + 1 /\ burst_idx = 0
          ELSE m_axi_arvalid' = m_axi_arvalid /\ owed' = owed
    BY <1>5 DEF Accepts, HostInv, DmaTypeInv, DmaTypeOK
  <2>3. DmaTypeInv'
    <3>t1. /\ dma_state' \in {"IDLE", "AR", "READ", "WRITE", "DONE"}
           /\ dma_busy' \in BOOLEAN /\ dma_done' \in BOOLEAN
           /\ m_axi_arvalid' \in BOOLEAN
      BY <1>2, <1>3, <2>1, <2>2 DEF DmaTypeInv, DmaTypeOK
    <3>t2. /\ r_dst' \in Address /\ requested' \in 0..MaxDimension
           /\ r_remaining' \in 0..requested'
      BY <1>2, <1>3, <2>1, <2>2 DEF DmaTypeInv, DmaTypeOK
    <3>t3. r_burst_len' \in Beat /\ burst_idx' \in Beat /\ owed' \in 0..BurstWords
      BY <1>2, <1>3, <2>1, <2>2 DEF DmaTypeInv, DmaTypeOK
    <3>t4. burst_buf' \in [Beat -> Beat \cup {Old}]
      BY <1>2, <1>3, <2>1, <2>2 DEF DmaTypeInv, DmaTypeOK
    <3>t5. r_remaining' \in Nat /\ requested' \in Nat
      BY <3>t2, DotprodAssumption
    <3>. QED
      BY <1>1, <1>3, <2>1, <3>t1, <3>t2, <3>t3, <3>t4, <3>t5
         DEF DmaTypeInv, DmaTypeOK
  <2>4. FlagsInv' /\ HostInv'
    BY <1>2, <1>3, <2>1, <2>2 DEF FlagsInv, HostInv
  <2>5. BurstInv'
    BY <1>2, <2>1 DEF BurstInv
  <2>6. StoredInv'
    BY <1>2, <2>1, NothingIssued DEF transfer
  <2>. QED
    BY <2>3, <2>4, <2>5, <2>6
<1>. QED
  BY <1>4, <1>5

LEMMA WriteKeeps ==
  ASSUME DmaInv, NEW c \in TreeArea \cup {NoTreeWrite}, WriteWord(c)
  PROVE  DmaInv'
<1>. USE DmaAssumption, DotprodAssumption DEF DmaInv, WriteWord, DmaGoTo
<1>. DEFINE beat == received[Issued + 1]
<1>1. /\ r_burst_len \in Beat /\ burst_idx \in Beat /\ burst_idx <= r_burst_len
      /\ r_remaining > 0 /\ received \in Seq(Beat) /\ received' = received
  BY DEF DmaTypeInv, DmaTypeOK, BurstInv
<1>2. /\ Issued \in Nat /\ Issued' = Issued + 1
      /\ r_remaining' = r_remaining - 1 /\ requested' = requested
  BY <1>1 DEF Issued, DmaTypeInv
<1>0. burst_buf[burst_idx] = beat /\ beat \in Beat
  <2>1. /\ Issued + 1 \in 1..Len(received)
        /\ Issued + burst_idx - burst_idx + 1 = Issued + 1
    BY <1>1, <1>2 DEF BurstInv
  <2>2. burst_buf[burst_idx] = received[Issued + burst_idx - burst_idx + 1]
    BY <1>1 DEF BurstInv
  <2>3. received \in [1..Len(received) -> Beat]
    BY <1>1, LenProperties
  <2>. QED
    BY <2>1, <2>2, <2>3
<1>3. r_dst = Place(Issued) /\ r_dst \in Address
  BY <1>2, PlaceIsAddress DEF StoredInv
<1>4. r_dst' = Place(Issued')
  <2>1. 4 * Issued \in Nat /\ 4 * Issued' = 4 * Issued + 4
    BY <1>2
  <2>2. (((4 * Issued) % MemoryWords) + 4) % MemoryWords = (4 * Issued + 4) % MemoryWords
    BY <2>1, RemainderOfSum
  <2>. QED
    BY <1>3, <2>1, <2>2 DEF Place
<1>5. r_dst' \in Address
  BY <1>2, <1>4, PlaceIsAddress
<1>6. vmem_port' = [at |-> r_dst, word |-> beat] /\ vmem_port' # NoPortWrite
        /\ vmem_port' \in [at : Address, word : Beat \cup {Old}]
  BY <1>0, <1>1, <1>3 DEF NoPortWrite
<1>7. mem' \in [Address -> DmaWord]
        /\ \A a \in Address \ TreeArea : mem'[a] = Landed[a]
  BY Lands
<1>8. burst_idx' \in Beat
  <2>1. burst_idx + 1 \in Nat
    BY <1>1
  <2>. QED
    BY <2>1, Division
<1>. HIDE DEF beat
<1>9. DmaTypeInv'
  <2>t1. /\ dma_state' \in {"IDLE", "AR", "READ", "WRITE", "DONE"}
         /\ dma_busy' \in BOOLEAN /\ dma_done' \in BOOLEAN
         /\ m_axi_arvalid' \in BOOLEAN
    BY <1>1, <1>2, <1>5, <1>8 DEF DmaTypeInv, DmaTypeOK
  <2>t2. /\ r_dst' \in Address /\ requested' \in 0..MaxDimension
         /\ r_remaining' \in 0..requested'
    BY <1>1, <1>2, <1>5, <1>8 DEF DmaTypeInv, DmaTypeOK
  <2>t3. r_burst_len' \in Beat /\ burst_idx' \in Beat /\ owed' \in 0..BurstWords
    BY <1>1, <1>2, <1>5, <1>8 DEF DmaTypeInv, DmaTypeOK
  <2>t4. burst_buf' \in [Beat -> Beat \cup {Old}]
    BY <1>1, <1>2, <1>5, <1>8 DEF DmaTypeInv, DmaTypeOK
  <2>t5. r_remaining' \in Nat /\ requested' \in Nat
    BY <2>t2, DotprodAssumption
  <2>. QED
    BY <1>1, <1>6, <1>7, <2>t1, <2>t2, <2>t3, <2>t4, <2>t5 DEF DmaTypeInv, DmaTypeOK
<1>10. FlagsInv' /\ HostInv'
  BY <1>2 DEF FlagsInv, HostInv
<1>12. BurstInv'
  <2>1. CASE burst_idx + 1 > r_burst_len
    BY <1>1, <1>2, <2>1 DEF BurstInv, DmaTypeInv
  <2>2. CASE ~(burst_idx + 1 > r_burst_len)
    <3>1. burst_idx + 1 \in 0..(BurstWords - 1)
      BY <1>1, <2>2
    <3>2. burst_idx' = burst_idx + 1 /\ dma_state' = "WRITE"
      BY <3>1, <2>2, SmallRemainder
    <3>0. /\ Issued \in Nat /\ burst_idx \in Nat /\ r_burst_len \in Nat
          /\ r_remaining \in Nat
      BY <1>1, <1>2 DEF DmaTypeInv, DmaTypeOK
    <3>3. ASSUME NEW i \in (burst_idx + 1)..r_burst_len
          PROVE  burst_buf[i] = received[(Issued + 1) + i - (burst_idx + 1) + 1]
      <4>1. i \in burst_idx..r_burst_len
              /\ (Issued + 1) + i - (burst_idx + 1) + 1 = Issued + i - burst_idx + 1
        BY ONLY <3>0, <3>3
      <4>. QED
        BY <4>1 DEF BurstInv
    <3>4. /\ burst_idx + 1 <= r_burst_len
          /\ r_remaining - 1 > r_burst_len - (burst_idx + 1)
          /\ Len(received) = (Issued + 1) + r_burst_len + 1 - (burst_idx + 1)
      <4>1. /\ r_remaining > r_burst_len - burst_idx
            /\ Len(received) = Issued + r_burst_len + 1 - burst_idx
        BY DEF BurstInv
      <4>. QED
        BY ONLY <3>0, <4>1, <2>2
    <3>. QED
      BY <1>1, <1>2, <3>2, <3>3, <3>4 DEF BurstInv
  <2>. QED
    BY <2>1, <2>2
<1>13. ASSUME NEW k \in 0..(Issued' - 1), Stays(k, Issued')
       PROVE  Landed'[Place(k)] = received'[k + 1]
  <2>1. Place(k) \in Address \ TreeArea
    BY <1>2, <1>13, PlaceIsAddress DEF Stays
  <2>2. Landed' = [mem' EXCEPT ![r_dst] = beat]
    <3>1. vmem_port'.at = r_dst /\ vmem_port'.word = beat
      BY <1>6
    <3>. QED
      BY <1>6, <3>1 DEF Landed
  <2>3. CASE k = Issued
    BY <1>1, <1>3, <1>7, <2>1, <2>2, <2>3 DEF beat
  <2>4. CASE k # Issued
    <3>1. k \in 0..(Issued - 1)
      BY <1>2, <2>4
    <3>2. Issued \in (k + 1)..(Issued' - 1)
      BY <1>2, <3>1
    <3>3. Place(k) # r_dst
      BY <1>3, <1>13, <3>2 DEF Stays
    <3>4. Stays(k, Issued)
      <4>1. \A j \in (k + 1)..(Issued - 1) : j \in (k + 1)..(Issued' - 1)
        BY <1>2, <3>1
      <4>. QED
        BY <1>13, <4>1 DEF Stays
    <3>5. Landed'[Place(k)] = mem'[Place(k)]
      BY <1>7, <2>1, <2>2, <3>3
    <3>. QED
      BY <1>1, <1>7, <2>1, <3>1, <3>4, <3>5 DEF StoredInv
  <2>. QED
    BY <2>3, <2>4
<1>14. StoredInv'
  BY <1>4, <1>13 DEF StoredInv, Place, Stays
<1>. QED
  BY <1>9, <1>10, <1>12, <1>14

LEMMA FinishKeeps ==
  ASSUME DmaInv, NEW c \in TreeArea \cup {NoTreeWrite}, DmaFinish(c)
  PROVE  DmaInv'
<1>. USE DmaAssumption DEF DmaInv, DmaFinish, burst
<1>1. mem' \in [Address -> DmaWord] /\ vmem_port' \in [at : Address, word : Beat \cup {Old}]
  BY Lands DEF NoPortWrite
<1>2. DmaTypeInv'
  BY <1>1 DEF DmaTypeInv, DmaTypeOK, transfer
<1>3. FlagsInv' /\ HostInv' /\ BurstInv'
  BY DEF FlagsInv, HostInv, BurstInv, Issued, transfer
<1>4. /\ Landed' = mem' /\ Issued' = Issued /\ Issued \in Nat
      /\ received' = received
  BY DotprodAssumption DEF Landed, Issued, transfer, DmaTypeInv
<1>5. ASSUME NEW k \in 0..(Issued - 1), Stays(k, Issued)
      PROVE  Landed'[Place(k)] = received'[k + 1]
  <2>1. Place(k) \in Address \ TreeArea
    BY <1>4, <1>5, PlaceIsAddress DEF Stays
  <2>. QED
    BY <1>4, <1>5, <2>1, Lands DEF StoredInv
<1>6. StoredInv'
  BY <1>4, <1>5 DEF StoredInv, Place, Stays
<1>. QED
  BY <1>2, <1>3, <1>6

LEMMA DmaStep ==
  ASSUME DmaInv, [ComputeNext]_computeVars
  PROVE  DmaInv'
<1>1. CASE ComputeNext
  <2>1. PICK start \in BOOLEAN, arready \in BOOLEAN, rvalid \in BOOLEAN :
          Clock(start, arready, rvalid)
    BY <1>1 DEF ComputeNext
  <2>2. PICK loads \in {start, FALSE}, dimension \in 0..MaxDimension,
             c \in TreeArea \cup {NoTreeWrite} :
          DmaEdge(loads, dimension, arready, rvalid, c)
    BY <2>1 DEF Clock
  <2>. QED
    BY <2>2, StartKeeps, WaitKeeps, AddressKeeps, ReadKeeps, WriteKeeps,
       FinishKeeps DEF DmaEdge
<1>2. CASE UNCHANGED computeVars
  BY <1>2 DEF computeVars, dmaVars, dmaControl, transfer, burst, DmaInv, DmaTypeInv,
     DmaTypeOK, FlagsInv, HostInv, BurstInv, StoredInv, Issued, Landed, Place,
     Stays
<1>. QED
  BY <1>1, <1>2

\* What the invariant says of a transfer that has just ended.
LEMMA DmaInvStored == DmaInv => BeatsStored
<1>. SUFFICES ASSUME DmaInv, dma_done
              PROVE  /\ Len(received) = requested
                     /\ \A k \in 0..(requested - 1) :
                          Stays(k, requested) => mem[Place(k)] = received[k + 1]
  BY DEF BeatsStored, Stays
<1>1. Issued = requested /\ Landed = mem
  BY DEF DmaInv, DmaTypeInv, FlagsInv, Issued, Landed
<1>. QED
  BY <1>1 DEF DmaInv, BurstInv, StoredInv

\* The DMA reader, its port and vector memory keep their types.
THEOREM DmaTypeCorrect == ComputeSpec => []DmaTypeOK
<1>1. ComputeInit => DmaInv
  BY DmaInvInit DEF ComputeInit
<1>2. DmaInv /\ [ComputeNext]_computeVars => DmaInv'
  BY DmaStep
<1>3. DmaInv => DmaTypeOK
  BY DEF DmaInv, DmaTypeInv
<1>. QED
  BY <1>1, <1>2, <1>3, PTL DEF ComputeSpec

\* When a transfer ends, word k in memory is beat k of as many as words were
\* asked for, outside the tree's area and past what wrapped around, for every
\* burst size, dimension and memory, whatever the host's delays and the tree
\* generator's writes.
THEOREM BeatsAreStored == ComputeSpec => []BeatsStored
<1>1. ComputeInit => DmaInv
  BY DmaInvInit DEF ComputeInit
<1>2. DmaInv /\ [ComputeNext]_computeVars => DmaInv'
  BY DmaStep
<1>. QED
  BY <1>1, <1>2, DmaInvStored, PTL DEF ComputeSpec

\* The DMA reader's initial states and steps are those of the handshake
\* SppuTop assumes of it (its dma_busy).
THEOREM ReaderImplementsHandshake ==
  ComputeSpec => DmaHandshake!Init /\ [][DmaHandshake!Next]_<<dma_busy, dma_done>>
<1>1. ComputeInit => DmaInv /\ DmaHandshake!Init
  BY DmaInvInit DEF ComputeInit, DmaInit, DmaHandshake!Init
<1>2. DmaInv /\ [ComputeNext]_computeVars => DmaInv'
  BY DmaStep
<1>3. ASSUME DmaInv, [ComputeNext]_computeVars
      PROVE  [DmaHandshake!Next]_<<dma_busy, dma_done>>
  <2>1. CASE ComputeNext
    <3>1. PICK start \in BOOLEAN, arready \in BOOLEAN, rvalid \in BOOLEAN :
            Clock(start, arready, rvalid)
      BY <2>1 DEF ComputeNext
    <3>2. PICK loads \in {start, FALSE}, dimension \in 0..MaxDimension,
               c \in TreeArea \cup {NoTreeWrite} :
            DmaEdge(loads, dimension, arready, rvalid, c)
      BY <3>1 DEF Clock
    <3>3. (dma_busy <=> dma_state # "IDLE") /\ dma_busy \in BOOLEAN
      BY <1>3 DEF DmaInv, FlagsInv, DmaTypeInv, DmaTypeOK
    <3>4. \E s \in BOOLEAN : DmaHandshake!Idle(s) \/ DmaHandshake!Work \/ DmaHandshake!Finish
      BY <3>2, <3>3 DEF DmaEdge, DmaStart, DmaWait, IssueAddress, ReadBurst, WriteWord,
         DmaFinish, DmaGoTo, DmaHandshake!Idle, DmaHandshake!Work, DmaHandshake!Finish
    <3>. QED
      BY <3>4 DEF DmaHandshake!Next, DmaHandshake!Step
  <2>2. CASE UNCHANGED computeVars
    BY <2>2 DEF computeVars, dmaVars, dmaControl
  <2>. QED
    BY <1>3, <2>1, <2>2
<1>. QED
  BY <1>1, <1>2, <1>3, PTL DEF ComputeSpec

\* Beside the reader the engine is still the engine: what is proved of it
\* alone holds in the composition.
THEOREM EngineInComposition == ComputeSpec => Spec
<1>1. ComputeInit => Init
  BY DEF ComputeInit
<1>2. [ComputeNext]_computeVars => [Next]_vars
  BY DEF ComputeNext, Clock, DpEdge, Next, computeVars
<1>. QED
  BY <1>1, <1>2, PTL DEF ComputeSpec, Spec

(***************************************************************************)
(* The device as it is wired.  Of each engine the control logic needs its  *)
(* flags only: busy exactly outside the idle state.                        *)
(***************************************************************************)
SeuFlags == seu_busy \in BOOLEAN /\ (seu_busy <=> seu_state # "IDLE")

DeviceInv == DotInv /\ DmaInv /\ SeuFlags

\* The start wires carry a truth value.
LEMMA StartWires ==
  /\ Top!dp_start \in BOOLEAN /\ Top!dma_start \in {Top!dp_start, FALSE}
  /\ Top!seu_start \in BOOLEAN
<1>1. Top!ctrl_start_pulse \in BOOLEAN /\ Top!seu_start_pulse \in BOOLEAN
  BY DEF Top!ctrl_start_pulse, Top!seu_start_pulse
<1>. QED
  BY <1>1 DEF Top!dp_start, Top!dma_start, Top!seu_start

\* An edge of the two search engines is one of SppuCompute: the wires of
\* sppu_top give the reader a start only together with the engine.
LEMMA SearchEnginesClock ==
  ASSUME SearchEngines
  PROVE  ComputeNext
<1>1. PICK dimension \in 0..MaxDimension, arready \in BOOLEAN,
           rvalid \in BOOLEAN, c \in TreeWrite :
        /\ DpEdge(Top!dp_start, dimension)
        /\ DmaEdge(Top!dma_start, dimension, arready, rvalid, c)
  BY DEF SearchEngines
<1>2. c \in TreeArea \cup {NoTreeWrite}
  BY DEF TreeWrite
<1>3. Clock(Top!dp_start, arready, rvalid)
  BY <1>1, <1>2, StartWires DEF Clock
<1>. QED
  BY <1>3, StartWires DEF ComputeNext

\* An edge of the generator is one of SeuTree.
LEMMA SeuEdgeIsNext ==
  ASSUME NEW start, NEW reset, SeuEdge(start, reset)
  PROVE  Seu!Next
BY DEF SeuEdge, Seu!Next

\* Seen from the control logic the dot-product engine makes the step that
\* SppuTop has for it, on the wire that SppuTop gives it.
LEMMA EngineStep ==
  ASSUME DotInv, NEW start \in BOOLEAN, NEW dimension \in 0..MaxDimension,
         DpEdge(start, dimension)
  PROVE  Top!Dp!Step(start, FALSE)
<1>. USE DEF Top!Dp!Step, Top!Dp!Idle, Top!Dp!Work, Top!Dp!Finish
<1>0. busy \in BOOLEAN /\ (busy <=> state # "IDLE")
  BY DEF DotInv, TypeOK, BusyIsWorking
<1>1. CASE start /\ \E n \in 0..MaxCount : Start(n, dimension)
  BY <1>0, <1>1 DEF Start
<1>2. CASE ~start /\ Wait
  BY <1>0, <1>2 DEF Wait
<1>3. CASE LoadTarget
  BY <1>0, <1>3 DEF LoadTarget
<1>4. CASE Compute
  BY <1>0, <1>4 DEF Compute
<1>5. CASE Publish
  BY <1>0, <1>5 DEF Publish
<1>. QED
  BY <1>1, <1>2, <1>3, <1>4, <1>5 DEF DpEdge, Working

\* The same of the reader, of which SppuTop has the busy flag.
LEMMA ReaderStep ==
  ASSUME DmaInv, NEW start \in BOOLEAN, NEW dimension, NEW arready, NEW rvalid,
         NEW c, DmaEdge(start, dimension, arready, rvalid, c)
  PROVE  dma_busy' \in IF dma_busy THEN BOOLEAN ELSE {start}
<1>1. (dma_busy <=> dma_state # "IDLE") /\ dma_busy \in BOOLEAN
  BY DEF DmaInv, FlagsInv, DmaTypeInv, DmaTypeOK
<1>. QED
  BY <1>1 DEF DmaEdge, DmaStart, DmaWait, IssueAddress, ReadBurst, WriteWord,
     DmaFinish, DmaGoTo

\* The generator makes the step SppuTop has for it, seu_reset included, and
\* its SEU_STATUS moves as SppuTop has that register.
LEMMA GeneratorStep ==
  ASSUME SeuFlags, SeuEdge(Top!seu_start, Top!RESET \in seu_ctrl)
  PROVE  /\ Top!Seu!Step(Top!seu_start, Top!RESET \in seu_ctrl)
         /\ Top!TreeStatus
         /\ SeuFlags'
<1>. USE DEF Top!Seu!Step, Top!Seu!Idle, Top!Seu!Work, Top!Seu!Finish,
             Top!Seu!Abort, Top!TreeStatus, SeuFlags,
             Top!READY, Top!BUSY, Top!DONE, Seu!READY, Seu!BUSY, Seu!DONE
<1>1. CASE Top!RESET \in seu_ctrl
  BY <1>1 DEF SeuEdge, Seu!SeuReset
<1>2. CASE Top!RESET \notin seu_ctrl
  <2>. USE <1>2
  <2>1. CASE Top!seu_start /\ \E config \in TreeConfigs, depth \in Depths :
                                Seu!Start(config, depth)
    BY <2>1, StartWires DEF Seu!Start, Seu!GoTo
  <2>2. CASE ~Top!seu_start /\ Seu!Wait
    BY <2>2, StartWires DEF Seu!Wait, Seu!GoTo
  <2>3. CASE Seu!Finish
    BY <2>3 DEF Seu!Finish
  <2>4. ASSUME Seu!Working, ~Seu!Finish
        PROVE  /\ seu_state # "IDLE" /\ seu_state' # "IDLE"
               /\ seu_busy' = seu_busy /\ seu_done' = FALSE
               /\ tree_status' = tree_status
    BY <2>4 DEF Seu!Working, Seu!LoadContext, Seu!LoadWeights, Seu!Compute,
       Seu!EmbedSearch, Seu!EmbedWait, Seu!ApplyWeights, Seu!WriteResults,
       Seu!Validate, Seu!GoTo, Seu!kept
  <2>. QED
    BY <2>1, <2>2, <2>3, <2>4 DEF SeuEdge
<1>. QED
  BY <1>1, <1>2

LEMMA DeviceNextIsTick ==
  ASSUME DeviceNext
  PROVE  \E w : DeviceTick(w) /\ (Top!Tick(w) => Top!Next)
BY DEF DeviceNext, Top!Next

LEMMA DeviceInvInit == DeviceInit => DeviceInv
<1>1. DeviceInit => DotInv /\ DmaInv
  BY DotInvInit, DmaInvInit DEF DeviceInit, ComputeInit
<1>2. DeviceInit => SeuFlags
  BY DEF DeviceInit, Seu!Init, SeuFlags
<1>. QED
  BY <1>1, <1>2 DEF DeviceInv

LEMMA DeviceInvNext == DeviceInv /\ [DeviceNext]_deviceVars => DeviceInv'
<1>1. ASSUME DeviceInv, DeviceNext PROVE DeviceInv'
  <2>1. PICK w : DeviceTick(w)
    BY <1>1, DeviceNextIsTick
  <2>2. ComputeNext /\ SeuFlags'
    BY <1>1, <2>1, SearchEnginesClock, GeneratorStep DEF DeviceTick, DeviceInv
  <2>3. Next
    BY <2>2 DEF ComputeNext, Clock, DpEdge, Next
  <2>. QED
    BY <1>1, <2>2, <2>3, DotInvNext, DmaStep DEF DeviceInv
<1>2. ASSUME DeviceInv, UNCHANGED deviceVars PROVE DeviceInv'
  <2>1. UNCHANGED computeVars /\ UNCHANGED vars /\ UNCHANGED <<seu_state, seu_busy>>
    BY <1>2 DEF deviceVars, computeVars, Seu!vars, Seu!control
  <2>. QED
    BY <1>2, <2>1, DotInvNext, DmaStep DEF DeviceInv, SeuFlags
<1>. QED
  BY <1>1, <1>2

\* The wired device takes the steps of SppuTop: what is proved there of the
\* control logic, over engines that are handshakes, holds over the real
\* engines on the real start wires.
THEOREM DeviceImplementsTop == DeviceSpec => Top!Spec
<1>1. DeviceInit => Top!Init
  BY DEF DeviceInit
<1>2. DeviceInv /\ [DeviceNext]_deviceVars => [Top!Next]_(Top!vars)
  <2>1. ASSUME DeviceInv, DeviceNext PROVE Top!Next
    <3>1. PICK w : DeviceTick(w) /\ (Top!Tick(w) => Top!Next)
      BY <2>1, DeviceNextIsTick
    <3>2. PICK dimension \in 0..MaxDimension, arready \in BOOLEAN,
               rvalid \in BOOLEAN, c \in TreeWrite :
            /\ DpEdge(Top!dp_start, dimension)
            /\ DmaEdge(Top!dma_start, dimension, arready, rvalid, c)
      BY <3>1 DEF DeviceTick, SearchEngines
    <3>3. Top!Dp!Step(Top!dp_start, FALSE)
      BY <2>1, <3>2, StartWires, EngineStep DEF DeviceInv
    <3>4. dma_busy' \in IF dma_busy THEN BOOLEAN ELSE {Top!dma_start}
      <4>1. Top!dma_start \in BOOLEAN
        BY StartWires
      <4>. QED
        BY <2>1, <3>2, <4>1, ReaderStep DEF DeviceInv
    <3>5. Top!Seu!Step(Top!seu_start, Top!RESET \in seu_ctrl) /\ Top!TreeStatus
      BY <2>1, <3>1, GeneratorStep DEF DeviceTick, DeviceInv
    <3>6. Top!Tick(w)
      BY <3>1, <3>3, <3>4, <3>5 DEF DeviceTick, Top!Tick, Top!Engines
    <3>. QED
      BY <3>1, <3>6
  <2>2. ASSUME UNCHANGED deviceVars PROVE UNCHANGED Top!vars
    BY <2>2 DEF deviceVars, computeVars, vars, dmaVars, dmaControl, Top!vars,
       Top!engines, Seu!vars, Seu!control
  <2>. QED
    BY <2>1, <2>2
<1>. QED
  BY <1>1, <1>2, DeviceInvInit, DeviceInvNext, PTL DEF DeviceSpec, Top!Spec

\* Its search path is SppuCompute, so that BeatsAreStored and the theorems
\* about the engine hold of the device.
THEOREM DeviceSearches == DeviceSpec => ComputeSpec
<1>1. DeviceInit => ComputeInit
  BY DEF DeviceInit
<1>2. [DeviceNext]_deviceVars => [ComputeNext]_computeVars
  <2>1. DeviceNext => ComputeNext
    BY DeviceNextIsTick, SearchEnginesClock DEF DeviceTick
  <2>. QED
    BY <2>1 DEF deviceVars
<1>. QED
  BY <1>1, <1>2, PTL DEF DeviceSpec, ComputeSpec

\* Its tree generator is SeuTree whatever software writes to SEU_CTRL, with
\* the reader's writes as the only thing that costs it words of a tree: a word
\* that memory drops or the reader stores over is in lost, of the others
\* TreeIsInMemory holds in the device.
THEOREM DeviceGenerates == DeviceSpec => Seu!Spec
<1>1. DeviceInit => Seu!Init
  BY DEF DeviceInit
<1>2. [DeviceNext]_deviceVars => [Seu!Next]_(Seu!vars)
  <2>1. DeviceNext => Seu!Next
    BY DeviceNextIsTick, SeuEdgeIsNext DEF DeviceTick
  <2>. QED
    BY <2>1 DEF deviceVars
<1>. QED
  BY <1>1, <1>2, PTL DEF DeviceSpec, Seu!Spec
=============================================================================
