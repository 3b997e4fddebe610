----------------------------- MODULE SppuDotprod -----------------------------
(***************************************************************************)
(* fpga/rtl/sppu_dotprod.v: the state machine of the dot-product engine,   *)
(* one step per rising clock edge.                                         *)
(*                                                                         *)
(* The data path is a stub in the source: mul_a, mul_b and add_result are  *)
(* computed but nothing reads them, cur_dot_acc is only ever assigned 0.   *)
(* So no value read from memory reaches a register that is modelled here,  *)
(* and the vector it publishes is always vector 0.                         *)
(***************************************************************************)
EXTENDS Integers

CONSTANTS
  MaxCount, MaxDimension     \* bounds on what software writes to VEC_COUNT
                             \* and DIMENSION

ASSUME DotprodAssumption == MaxCount \in Nat /\ MaxDimension \in Nat

\* best_score before any comparison: 32'h80000000 as a signed number.  It is
\* below every value that is compared with it, so any such number will do.
Lowest == -1

NoIndex == -1      \* best_idx before any comparison: 32'hFFFFFFFF

VARIABLES
  state, busy, done,
  r_vec_count, r_dimension,       \* latched configuration
  cur_vec, cur_dim,
  best_idx, best_score, cur_dot_acc,
  result_idx, result_score

counters == <<r_vec_count, r_dimension, cur_vec, cur_dim>>
best     == <<best_idx, best_score, cur_dot_acc>>
results  == <<result_idx, result_score>>
vars     == <<state, busy, done, counters, best, results>>

States == {"IDLE", "LOAD_TARGET", "COMPUTE", "DONE"}

TypeOK ==
  /\ state \in States /\ busy \in BOOLEAN /\ done \in BOOLEAN
  /\ r_vec_count \in 0..MaxCount /\ r_dimension \in 0..MaxDimension
  /\ cur_vec \in Nat /\ cur_dim \in Nat
  /\ best_idx \in Nat \cup {NoIndex} /\ best_score \in Int
  /\ cur_dot_acc \in Int
  /\ result_idx \in Nat /\ result_score \in Int

\* The reset state; RESULT_IDX and RESULT_SCORE have no reset value in the
\* source and are read only after a search.
Init ==
  /\ state = "IDLE" /\ busy = FALSE /\ done = FALSE
  /\ r_vec_count = 0 /\ r_dimension = 0 /\ cur_vec = 0 /\ cur_dim = 0
  /\ best_idx = NoIndex /\ best_score = Lowest /\ cur_dot_acc = 0
  /\ result_idx = 0 /\ result_score = 0

\* ST_IDLE with start high: latch the configuration.
Start(vec_count, dimension) ==
  /\ state = "IDLE"
  /\ state' = "LOAD_TARGET" /\ busy' = TRUE /\ done' = FALSE
  /\ r_vec_count' = vec_count /\ r_dimension' = dimension
  /\ cur_vec' = 0 /\ cur_dim' = 0
  /\ best_idx' = NoIndex /\ best_score' = Lowest /\ cur_dot_acc' = 0
  /\ UNCHANGED results

\* ST_IDLE with start low; done falls.
Wait ==
  /\ state = "IDLE"
  /\ done' = FALSE
  /\ UNCHANGED <<state, busy, counters, best, results>>

LastDim == cur_dim + 1 >= r_dimension
LastVec == cur_vec + 1 >= r_vec_count

\* One element of the target per cycle.
LoadTarget ==
  /\ state = "LOAD_TARGET"
  /\ \/ /\ LastDim
        /\ state' = "COMPUTE" /\ cur_dim' = 0 /\ cur_vec' = 0
     \/ /\ ~LastDim
        /\ cur_dim' = cur_dim + 1
        /\ UNCHANGED <<state, cur_vec>>
  /\ done' = FALSE
  /\ UNCHANGED <<busy, r_vec_count, r_dimension, best, results>>

\* The comparison of the vector before cur_vec, made at the first element
\* of cur_vec; there is none for the last vector in this state.
ComparePrevious ==
  IF cur_dim = 0 /\ cur_vec > 0
    THEN /\ cur_dot_acc' = 0
         /\ IF cur_dot_acc > best_score
              THEN best_score' = cur_dot_acc /\ best_idx' = cur_vec - 1
              ELSE UNCHANGED <<best_score, best_idx>>
    ELSE UNCHANGED best

\* Mutant: the next vector is not moved on to.
ComputeMutant ==
  /\ state = "COMPUTE"
  /\ ComparePrevious
  /\ \/ ~LastDim /\ cur_dim' = cur_dim + 1 /\ UNCHANGED <<state, cur_vec>>
     \/ LastDim /\ ~LastVec /\ cur_dim' = 0 /\ UNCHANGED <<state, cur_vec>>
     \/ LastDim /\ LastVec /\ cur_dim' = 0 /\ state' = "DONE"
          /\ UNCHANGED cur_vec
  /\ done' = FALSE
  /\ UNCHANGED <<busy, r_vec_count, r_dimension, results>>

\* One element of one vector per cycle.
Compute ==
  /\ state = "COMPUTE"
  /\ ComparePrevious
  /\ \/ ~LastDim /\ cur_dim' = cur_dim + 1 /\ UNCHANGED <<state, cur_vec>>
     \/ LastDim /\ ~LastVec /\ cur_dim' = 0 /\ cur_vec' = cur_vec + 1
          /\ UNCHANGED state
     \/ LastDim /\ LastVec /\ cur_dim' = 0 /\ state' = "DONE"
          /\ UNCHANGED cur_vec
  /\ done' = FALSE
  /\ UNCHANGED <<busy, r_vec_count, r_dimension, results>>

\* The result registers take best_idx and best_score as they were before
\* this edge: the comparison made at the same edge comes too late for them.
Publish ==
  /\ state = "DONE"
  /\ IF cur_dot_acc > best_score
       THEN best_score' = cur_dot_acc /\ best_idx' = cur_vec
       ELSE UNCHANGED <<best_score, best_idx>>
  /\ result_idx'   = IF best_idx = NoIndex THEN 0 ELSE best_idx
  /\ result_score' = IF best_score <= Lowest THEN 0 ELSE best_score
  /\ state' = "IDLE" /\ busy' = FALSE /\ done' = TRUE
  /\ UNCHANGED <<counters, cur_dot_acc>>

Working == LoadTarget \/ Compute \/ Publish

Next ==
  \/ \E vec_count \in 0..MaxCount, dimension \in 0..MaxDimension :
        Start(vec_count, dimension)
  \/ Wait
  \/ Working

Spec == Init /\ [][Next]_vars

\* The clock runs: a busy engine takes a step at every edge, and so does an
\* idle one whose done is still high.
FairSpec == Spec /\ WF_vars(Working) /\ WF_vars(Wait)

(***************************************************************************)
(* Properties.                                                             *)
(***************************************************************************)
Handshake == INSTANCE EngineHandshake WITH Abortable <- FALSE

\* Seen from sppu_top the engine is the handshake SppuTop assumes: it takes
\* a start only when idle, is busy until it raises done for one cycle, and
\* finishes every search it starts.
ImplementsHandshake == Handshake!Spec

\* The part of it that is a matter of single steps.
HandshakeSafety == Handshake!Init /\ [][Handshake!Next]_<<busy, done>>

\* The element being read is one of the search's own: the counters never
\* run past the configured vectors and dimensions, zero counting as one.
CountersInRange ==
  state # "IDLE" =>
    /\ cur_vec = 0 \/ cur_vec < r_vec_count
    /\ cur_dim = 0 \/ cur_dim < r_dimension

\* Every cycle of a search gets closer to its end: a later phase, a later
\* vector, or a later element.
Phase == CASE state = "LOAD_TARGET" -> 1 [] state = "COMPUTE" -> 2
           [] state = "DONE" -> 3 [] OTHER -> 0

StepProgresses ==
  [][busy /\ busy' =>
       \/ Phase' > Phase
       \/ Phase' = Phase /\ cur_vec' > cur_vec
       \/ Phase' = Phase /\ cur_vec' = cur_vec /\ cur_dim' > cur_dim]_vars

\* RESULT_IDX is a vector of the search it answers.
ResultInRange == done => result_idx = 0 \/ result_idx < r_vec_count
=============================================================================
