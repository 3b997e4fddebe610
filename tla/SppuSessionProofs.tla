-------------------------- MODULE SppuSessionProofs --------------------------
(***************************************************************************)
(* A process that has /dev/sppu to itself gets the best match for its own  *)
(* request, for every database, query, batch size and dimension, whatever  *)
(* earlier sessions left in the device.                                    *)
(***************************************************************************)
EXTENDS SppuSession, TLAPS

(***************************************************************************)
(* Types, and the position of each process in its database.  This half     *)
(* holds for any number of processes.                                      *)
(***************************************************************************)
InDatabase ==
  \A c \in Clients :
    /\ pc[c] # "idle" => first[c] < db[c].size
    /\ pc[c] \in {"load", "target", "start", "wait", "result", "answered"}
         => loaded[c] <= Batch(c)

BaseInv == TypeOK /\ InDatabase

\* The databases and queries of the requests have the types assumed of the
\* constants, and a batch is never empty nor larger than the bank.
LEMMA RequestType ==
  ASSUME BaseInv, NEW c \in Clients
  PROVE  /\ db[c].dim \in 1..MaxDimension /\ db[c].size \in Nat \ {0}
         /\ db[c].vec \in [0..db[c].size-1 -> Vector]
         /\ query[c] \in Vector /\ first[c] \in Nat /\ loaded[c] \in Nat
         /\ pc[c] # "idle" => Batch(c) \in 1..MaxVectors
<1>1. db[c] \in Databases /\ query[c] \in Queries /\ first[c] \in Nat
      /\ loaded[c] \in 0..MaxVectors
  BY DEF BaseInv, TypeOK
<1>2. /\ db[c].dim \in 1..MaxDimension /\ db[c].size \in Nat \ {0}
      /\ db[c].vec \in [0..db[c].size-1 -> Vector]
  BY <1>1, SessionAssumption
<1>3. query[c] \in Vector
  BY <1>1, SessionAssumption
<1>4. pc[c] # "idle" => Batch(c) \in 1..MaxVectors
  BY <1>1, <1>2, DriverAssumption DEF BaseInv, InDatabase, Batch
<1>. QED
  BY <1>1, <1>2, <1>3, <1>4

\* A memcpy of a vector over a vector gives a vector that starts with it.
LEMMA OverwriteType ==
  ASSUME NEW old \in Vector, NEW data \in Vector, NEW n \in 0..MaxDimension
  PROVE  /\ Overwrite(old, data, n) \in Vector
         /\ \A d \in 0..n-1 : Overwrite(old, data, n)[d] = data[d]
BY DriverAssumption DEF Overwrite, Vector, Dims

\* A search leaves a typed result.
LEMMA StartType ==
  ASSUME DriverTypeOK, Start
  PROVE  DriverTypeOK'
<1>1. /\ vec_count \in 0..MaxVectors /\ dimension \in 0..MaxDimension
      /\ emu_mem \in [Slots -> Vector] /\ emu_target \in Vector
  BY DEF DriverTypeOK
<1>2. result_idx' \in Slots \cup {NoIndex}
  BY <1>1, DriverAssumption DEF Start, Slots
<1>3. result_score' \in Score
  <2>1. CASE result_idx' = NoIndex
    BY <2>1, ScoreAssumption DEF Start, Score
  <2>2. CASE result_idx' # NoIndex
    <3>1. result_idx' \in Slots
      BY <1>2, <2>2
    <3>2. Dot(emu_mem[result_idx'], emu_target, dimension) \in Score
      BY <1>1, <3>1, DriverAssumption
    <3>. QED
      BY <2>2, <3>1, <3>2 DEF Start, BankScores
  <2>. QED
    BY <2>1, <2>2
<1>. QED
  BY <1>1, <1>2, <1>3 DEF Start, DriverTypeOK

\* Each ioctl keeps the device typed (sppu_ioctl).
LEMMA DeviceType ==
  ASSUME BaseInv, NEW c \in Clients, Call(c)
  PROVE  DriverTypeOK'
<1>0. DriverTypeOK
  BY DEF BaseInv, TypeOK
<1>1. CASE CallReset(c)
  BY <1>0, <1>1 DEF CallReset, Reset, DriverTypeOK
<1>2. CASE CallConfigure(c)
  <2>1. Batch(c) \in 0..MaxVectors /\ db[c].dim \in 0..MaxDimension
    BY <1>2, RequestType, DriverAssumption DEF CallConfigure, At
  <2>. QED
    BY <1>0, <1>2, <2>1 DEF CallConfigure, SetParam, DriverTypeOK
<1>3. CASE CallLoadVector(c)
  <2>1. /\ loaded[c] \in Slots /\ db[c].dim \in 0..MaxDimension
        /\ first[c] + loaded[c] \in 0..db[c].size-1
    BY <1>3, RequestType, DriverAssumption DEF CallLoadVector, At, Slots, Batch
  <2>2. db[c].vec[first[c] + loaded[c]] \in Vector
    BY <2>1, RequestType
  <2>3. emu_mem' \in [Slots -> Vector]
    BY <1>0, <1>3, <2>1, <2>2, OverwriteType
       DEF CallLoadVector, LoadVec, DriverTypeOK
  <2>. QED
    BY <1>0, <1>3, <2>3 DEF CallLoadVector, LoadVec, DriverTypeOK
<1>4. CASE CallSetTarget(c)
  <2>1. db[c].dim \in 0..MaxDimension /\ query[c] \in Vector
    BY RequestType, DriverAssumption
  <2>2. emu_target' \in Vector
    BY <1>0, <1>4, <2>1, OverwriteType DEF CallSetTarget, SetTarget, DriverTypeOK
  <2>. QED
    BY <1>0, <1>4, <2>2 DEF CallSetTarget, SetTarget, DriverTypeOK
<1>5. CASE CallStart(c)
  BY <1>0, <1>5, StartType DEF CallStart
<1>6. CASE UNCHANGED device
  BY <1>0, <1>6 DEF device, DriverTypeOK
<1>. QED
  BY <1>1, <1>2, <1>3, <1>4, <1>5, <1>6
     DEF Call, AllLoaded, PollStatus, CallGetResult, NextBatch, Advance

\* Each step keeps the processes typed.
LEMMA ClientType ==
  ASSUME BaseInv, NEW c \in Clients,
         Request(c) \/ Call(c) \/ SkipBatch(c) \/ Killed(c)
  PROVE  /\ pc' \in [Clients -> PCs]
         /\ db' \in [Clients -> Databases] /\ query' \in [Clients -> Queries]
         /\ first' \in [Clients -> Nat]
         /\ loaded' \in [Clients -> 0..MaxVectors]
         /\ answer' \in [Clients -> [idx : Slots \cup {NoIndex}, score : Score]]
<1>0. /\ pc \in [Clients -> PCs]
      /\ db \in [Clients -> Databases] /\ query \in [Clients -> Queries]
      /\ first \in [Clients -> Nat] /\ loaded \in [Clients -> 0..MaxVectors]
      /\ answer \in [Clients -> [idx : Slots \cup {NoIndex}, score : Score]]
      /\ DriverTypeOK /\ MaxVectors \in Nat
  BY DriverAssumption DEF BaseInv, TypeOK
<1>. USE <1>0 DEF At, GoTo, PCs, kept
<1>1. CASE Request(c)
  <2>1. NoAnswer \in [idx : Slots \cup {NoIndex}, score : Score]
    BY ScoreAssumption DEF NoAnswer, Score
  <2>. QED
    BY <1>1, <2>1 DEF Request
<1>2. CASE CallReset(c)
  BY <1>2 DEF CallReset
<1>3. CASE CallConfigure(c)
  BY <1>3 DEF CallConfigure
<1>4. CASE CallLoadVector(c)
  <2>1. loaded[c] + 1 \in 0..MaxVectors
    <3>1. pc[c] # "idle" /\ loaded[c] < Batch(c)
      BY <1>4 DEF CallLoadVector
    <3>2. Batch(c) \in 1..MaxVectors /\ loaded[c] \in Nat
      BY <3>1, RequestType
    <3>. QED
      BY <3>1, <3>2
  <2>. QED
    BY <1>4, <2>1 DEF CallLoadVector
<1>5. CASE AllLoaded(c)
  BY <1>5 DEF AllLoaded
<1>6. CASE CallSetTarget(c)
  BY <1>6 DEF CallSetTarget
<1>7. CASE CallStart(c)
  BY <1>7 DEF CallStart
<1>8. CASE PollStatus(c)
  BY <1>8 DEF PollStatus
<1>9. CASE CallGetResult(c)
  <2>1. [idx |-> result_idx, score |-> result_score]
          \in [idx : Slots \cup {NoIndex}, score : Score]
    BY DEF DriverTypeOK
  <2>. QED
    BY <1>9, <2>1 DEF CallGetResult
<1>10. CASE NextBatch(c) \/ SkipBatch(c)
  <2>1. pc[c] # "idle" /\ Advance(c)
    BY <1>10 DEF NextBatch, SkipBatch
  <2>2. first[c] + Batch(c) \in Nat
    BY <2>1, RequestType
  <2>. QED
    BY <2>1, <2>2 DEF Advance
<1>11. CASE Killed(c)
  BY <1>11 DEF Killed
<1>. QED
  BY <1>1, <1>2, <1>3, <1>4, <1>5, <1>6, <1>7, <1>8, <1>9, <1>10, <1>11 DEF Call

\* A process is inside its database while it works on a request, and has
\* loaded no more than its batch.
LEMMA StaysInDatabase ==
  ASSUME BaseInv, NEW c \in Clients,
         Request(c) \/ Call(c) \/ SkipBatch(c) \/ Killed(c)
  PROVE  InDatabase'
<1>. SUFFICES ASSUME NEW e \in Clients
              PROVE  /\ pc'[e] # "idle" => first'[e] < db'[e].size
                     /\ pc'[e] \in {"load", "target", "start", "wait",
                                    "result", "answered"}
                          => loaded'[e] <= (Batch(e))'
  BY DEF InDatabase
<1>0. /\ pc \in [Clients -> PCs] /\ db \in [Clients -> Databases]
      /\ first \in [Clients -> Nat] /\ loaded \in [Clients -> 0..MaxVectors]
      /\ pc[e] # "idle" => first[e] < db[e].size
      /\ pc[e] \in {"load", "target", "start", "wait", "result", "answered"}
           => loaded[e] <= Batch(e)
  BY DEF BaseInv, TypeOK, InDatabase
<1>. USE DEF At, GoTo, PCs, kept
<1>1. CASE Request(c)
  <2>1. CASE e = c
    <3>1. PICK d \in Databases : db' = [db EXCEPT ![c] = d]
      BY <1>1 DEF Request
    <3>2. d.size \in Nat \ {0}
      BY SessionAssumption
    <3>. QED
      BY <1>0, <1>1, <2>1, <3>1, <3>2 DEF Request
  <2>2. CASE e # c
    BY <1>0, <1>1, <2>2 DEF Request, Batch
  <2>. QED
    BY <2>1, <2>2
<1>2. CASE CallReset(c)
  BY <1>0, <1>2 DEF CallReset, Batch
<1>3. CASE CallConfigure(c)
  <2>1. pc[c] # "idle" => Batch(c) \in 1..MaxVectors
    BY RequestType
  <2>. QED
    BY <1>0, <1>3, <2>1 DEF CallConfigure, Batch
<1>4. CASE CallLoadVector(c)
  <2>1. UNCHANGED <<pc, db, first>> /\ (Batch(e))' = Batch(e)
    BY <1>4 DEF CallLoadVector, Batch
  <2>2. CASE e = c
    <3>1. pc[c] # "idle" /\ loaded[c] < Batch(c) /\ loaded'[c] = loaded[c] + 1
      BY <1>0, <1>4 DEF CallLoadVector
    <3>2. Batch(c) \in 1..MaxVectors /\ loaded[c] \in Nat
      BY <3>1, RequestType
    <3>. QED
      BY <1>0, <2>1, <2>2, <3>1, <3>2
  <2>3. CASE e # c
    BY <1>0, <1>4, <2>1, <2>3 DEF CallLoadVector
  <2>. QED
    BY <2>2, <2>3
<1>5. CASE AllLoaded(c) \/ CallSetTarget(c) \/ CallStart(c) \/ PollStatus(c)
          \/ CallGetResult(c) \/ Killed(c)
  BY <1>0, <1>5 DEF AllLoaded, CallSetTarget, CallStart, PollStatus,
                    CallGetResult, Killed, Batch
<1>6. CASE NextBatch(c) \/ SkipBatch(c)
  <2>1. Advance(c)
    BY <1>6 DEF NextBatch, SkipBatch
  <2>2. CASE e = c
    BY <1>0, <2>1, <2>2 DEF Advance
  <2>3. CASE e # c
    BY <1>0, <2>1, <2>3 DEF Advance, Batch
  <2>. QED
    BY <2>2, <2>3
<1>. QED
  BY <1>1, <1>2, <1>3, <1>4, <1>5, <1>6 DEF Call

LEMMA BaseInvInit == Init => BaseInv
<1>. SUFFICES ASSUME Init PROVE BaseInv
  OBVIOUS
<1>1. DriverTypeOK
  <2>1. 0 \in Slots /\ 0 \in Score
    BY DriverAssumption DEF Slots, Score
  <2>2. [d \in Dims |-> 0] \in Vector
    BY DriverAssumption DEF Vector
  <2>3. emu_mem \in [Slots -> Vector] /\ emu_target \in Vector
    BY <2>2 DEF Init, DriverInit
  <2>. QED
    BY <2>1, <2>3, DriverAssumption DEF Init, DriverInit, DriverTypeOK
<1>2. NoAnswer \in [idx : Slots \cup {NoIndex}, score : Score]
  BY ScoreAssumption DEF NoAnswer, Score
<1>. QED
  BY <1>1, <1>2, DriverAssumption DEF Init, BaseInv, TypeOK, InDatabase, PCs

LEMMA BaseInvNext == BaseInv /\ [Next]_vars => BaseInv'
<1>1. ASSUME BaseInv, Next PROVE BaseInv'
  <2>1. PICK c \in Clients : Request(c) \/ Call(c) \/ SkipBatch(c) \/ Killed(c)
    BY <1>1 DEF Next
  <2>2. DriverTypeOK'
    <3>1. CASE Call(c)
      BY <1>1, <3>1, DeviceType
    <3>2. CASE Request(c) \/ SkipBatch(c) \/ Killed(c)
      BY <1>1, <3>2 DEF Request, SkipBatch, Advance, Killed, device, BaseInv,
                        TypeOK, DriverTypeOK
    <3>. QED
      BY <2>1, <3>1, <3>2
  <2>. QED
    BY <1>1, <2>1, <2>2, ClientType, StaysInDatabase DEF BaseInv, TypeOK
<1>2. ASSUME BaseInv, UNCHANGED vars PROVE BaseInv'
  BY <1>2 DEF vars, device, client, BaseInv, TypeOK, DriverTypeOK, InDatabase,
              Batch
<1>. QED
  BY <1>1, <1>2

\* The device and every process keep their types, whoever calls what.
THEOREM SessionTypeCorrect == Spec => []TypeOK
<1>1. Spec => []BaseInv
  BY BaseInvInit, BaseInvNext, PTL DEF Spec
<1>. QED
  BY <1>1, PTL DEF BaseInv

\* A library call is an ioctl with arguments the driver accepts, or leaves
\* the device alone.
LEMMA CallIsIoctl ==
  ASSUME BaseInv, NEW c \in Clients, Call(c)
  PROVE  DriverNext \/ UNCHANGED device
<1>1. CASE CallReset(c) BY <1>1 DEF CallReset, Ioctl, DriverNext
<1>2. CASE CallConfigure(c)
  <2>1. Batch(c) \in 0..MaxVectors /\ db[c].dim \in 0..MaxDimension
    BY <1>2, RequestType, DriverAssumption DEF CallConfigure, At
  <2>2. SetParam(Batch(c), db[c].dim) BY <1>2 DEF CallConfigure
  <2>. QED BY <2>1, <2>2 DEF Ioctl, DriverNext
<1>3. CASE CallLoadVector(c)
  <2>. DEFINE data == db[c].vec[first[c] + loaded[c]]
  <2>1. /\ loaded[c] \in Slots /\ db[c].dim \in 0..MaxDimension
        /\ first[c] + loaded[c] \in 0..db[c].size-1
    BY <1>3, RequestType, DriverAssumption DEF CallLoadVector, At, Slots, Batch
  <2>2. data \in Vector BY <2>1, RequestType
  <2>3. LoadVec(loaded[c], data, db[c].dim) BY <1>3 DEF CallLoadVector
  <2>. HIDE DEF data
  <2>. QED BY <2>1, <2>2, <2>3 DEF Ioctl, DriverNext
<1>4. CASE CallSetTarget(c)
  <2>1. db[c].dim \in 0..MaxDimension /\ query[c] \in Vector
    BY RequestType, DriverAssumption
  <2>2. SetTarget(query[c], db[c].dim) BY <1>4 DEF CallSetTarget
  <2>. QED BY <2>1, <2>2 DEF Ioctl, DriverNext
<1>5. CASE CallStart(c) BY <1>5 DEF CallStart, DriverNext
<1>6. CASE UNCHANGED device BY <1>6
<1>. QED
  BY <1>1, <1>2, <1>3, <1>4, <1>5, <1>6
     DEF Call, AllLoaded, PollStatus, CallGetResult, NextBatch, Advance

\* However many processes call and are killed at any point, the device is
\* that of SppuDriver, of which SearchLoop shows the search to be one step.
THEOREM SessionUsesDriver == Spec => DriverSpec
<1>1. Init => DriverInit BY DEF Init
<1>2. BaseInv /\ [Next]_vars => [DriverNext]_device
  <2>1. ASSUME BaseInv, NEW c \in Clients,
               Request(c) \/ Call(c) \/ SkipBatch(c) \/ Killed(c)
        PROVE  DriverNext \/ UNCHANGED device
    BY <2>1, CallIsIoctl DEF Request, SkipBatch, Advance, Killed
  <2>. QED BY <2>1 DEF Next, vars
<1>. QED
  BY <1>1, <1>2, BaseInvInit, BaseInvNext, PTL DEF Spec, DriverSpec

(***************************************************************************)
(* The rest is about a process that has the device to itself.              *)
(***************************************************************************)
SoleClient == \A c, d \in Clients : c = d

Searched == {"wait", "result", "answered"}
Aimed    == {"start"} \cup Searched
Filled   == {"target"} \cup Aimed
Sized    == {"load"} \cup Filled

\* What c has put in the device so far is there, and what it has taken out
\* is the best match for it.
OwnSizes(c)  == vec_count = Batch(c) /\ dimension = db[c].dim
OwnBank(c)   == \A j \in 0..loaded[c]-1, d \in 0..db[c].dim-1 :
                  emu_mem[j][d] = db[c].vec[first[c] + j][d]
OwnTarget(c) == \A d \in 0..db[c].dim-1 : emu_target[d] = query[c][d]
OwnResult(c) == IsBest(OwnScores(c), Batch(c), result_idx, result_score)
OwnAnswer(c) == IsBest(OwnScores(c), Batch(c), answer[c].idx, answer[c].score)

OwnInv ==
  \A c \in Clients :
    /\ pc[c] \in Sized    => OwnSizes(c) /\ OwnBank(c)
    /\ pc[c] \in Filled   => loaded[c] = Batch(c)
    /\ pc[c] \in Aimed    => OwnTarget(c)
    /\ pc[c] \in Searched => OwnResult(c)
    /\ pc[c] = "answered" => OwnAnswer(c)

\* The best match depends on the first n scores only.
LEMMA SameScoresSameBest ==
  ASSUME NEW s, NEW t, NEW n \in Int, \A j \in 0..n-1 : s[j] = t[j],
         NEW idx, NEW best, IsBest(s, n, idx, best)
  PROVE  IsBest(t, n, idx, best)
<1>1. CASE idx = NoIndex /\ best = Floor /\ \A j \in 0..n-1 : ~Above(s[j], Floor)
  BY <1>1 DEF IsBest
<1>2. CASE /\ idx \in 0..n-1 /\ best = s[idx] /\ Above(best, Floor)
           /\ \A j \in 0..n-1 : ~Above(s[j], best)
           /\ \A j \in 0..idx-1 : Above(best, s[j]) \/ s[j] = NaN
  <2>1. \A j \in 0..idx-1 : j \in 0..n-1
    BY <1>2
  <2>. QED
    BY <1>2, <2>1 DEF IsBest
<1>. QED
  BY <1>1, <1>2 DEF IsBest

\* The driver's loop over the elements does not read beyond dimension.
LEMMA SamePrefixSameDot ==
  ASSUME NEW v1 \in Vector, NEW v2 \in Vector, NEW w1 \in Vector,
         NEW w2 \in Vector, NEW n \in 0..MaxDimension,
         \A d \in 0..n-1 : v1[d] = v2[d] /\ w1[d] = w2[d]
  PROVE  Dot(v1, w1, n) = Dot(v2, w2, n)
BY DotReadsPrefix

\* When c calls START, the driver's loop computes c's own scores: it reads
\* nothing that an earlier session left behind.
LEMMA OwnScoresComputed ==
  ASSUME BaseInv, OwnInv, NEW c \in Clients, pc[c] = "start"
  PROVE  \A j \in 0..vec_count-1 : BankScores[j] = OwnScores(c)[j]
<1>. TAKE j \in 0..vec_count-1
<1>1. /\ OwnSizes(c) /\ OwnBank(c) /\ OwnTarget(c) /\ loaded[c] = Batch(c)
  BY DEF OwnInv, Sized, Filled, Aimed
<1>2. /\ Batch(c) \in 1..MaxVectors /\ db[c].dim \in 1..MaxDimension
      /\ db[c].vec \in [0..db[c].size-1 -> Vector] /\ query[c] \in Vector
      /\ first[c] \in Nat /\ db[c].size \in Nat
  BY RequestType
<1>3. emu_mem \in [Slots -> Vector] /\ emu_target \in Vector
  BY DEF BaseInv, TypeOK, DriverTypeOK
<1>4. j \in 0..Batch(c)-1 /\ j \in Slots
  BY <1>1, <1>2, DriverAssumption DEF OwnSizes, Slots
<1>5. first[c] + j \in 0..db[c].size-1
  <2>1. Batch(c) <= db[c].size - first[c]
    BY <1>2, DriverAssumption DEF Batch
  <2>2. j \in Nat /\ j < Batch(c)
    BY <1>2, <1>4
  <2>. QED
    BY <1>2, <2>1, <2>2
<1>6. /\ emu_mem[j] \in Vector /\ db[c].vec[first[c] + j] \in Vector
      /\ emu_target \in Vector /\ query[c] \in Vector
  BY <1>2, <1>3, <1>4, <1>5
<1>7. \A d \in 0..db[c].dim-1 :
        emu_mem[j][d] = db[c].vec[first[c] + j][d] /\ emu_target[d] = query[c][d]
  BY <1>1, <1>4 DEF OwnBank, OwnTarget
<1>8. db[c].dim \in 0..MaxDimension
  BY <1>2, DriverAssumption
<1>9. Dot(emu_mem[j], emu_target, db[c].dim)
        = Dot(db[c].vec[first[c] + j], query[c], db[c].dim)
  <2>1. ASSUME NEW v1, NEW v2, NEW w1, NEW w2, NEW n,
               v1 = emu_mem[j], v2 = db[c].vec[first[c] + j],
               w1 = emu_target, w2 = query[c], n = db[c].dim
        PROVE  Dot(v1, w1, n) = Dot(v2, w2, n)
    \* Names for the four vectors: the solver does not match the terms.
    <3>1. /\ v1 \in Vector /\ v2 \in Vector /\ w1 \in Vector /\ w2 \in Vector
          /\ n \in 0..MaxDimension
      BY <1>6, <1>8, <2>1
    <3>2. \A d \in 0..n-1 : v1[d] = v2[d] /\ w1[d] = w2[d]
      BY <1>7, <2>1
    <3>. QED
      BY <3>1, <3>2, SamePrefixSameDot
  <2>. QED
    BY <2>1, Zenon
<1>10. BankScores[j] = Dot(emu_mem[j], emu_target, db[c].dim)
  BY <1>1, <1>4 DEF OwnSizes, BankScores
<1>11. OwnScores(c)[j] = Dot(db[c].vec[first[c] + j], query[c], db[c].dim)
  <2>1. j < Batch(c)
    BY <1>2, <1>4
  <2>. QED
    BY <1>4, <2>1 DEF OwnScores
<1>. QED
  BY <1>9, <1>10, <1>11

\* The call that fills one more slot of the bank keeps the slots before it.
LEMMA LoadKeepsOwn ==
  ASSUME BaseInv, OwnInv, NEW c \in Clients, CallLoadVector(c)
  PROVE  OwnBank(c)'
<1>1. /\ pc[c] = "load" /\ loaded[c] < Batch(c) /\ OwnBank(c)
      /\ LoadVec(loaded[c], db[c].vec[first[c] + loaded[c]], db[c].dim)
      /\ loaded' = [loaded EXCEPT ![c] = @ + 1]
      /\ UNCHANGED <<db, first>>
  BY DEF CallLoadVector, At, OwnInv, Sized, kept
<1>2. /\ Batch(c) \in 1..MaxVectors /\ db[c].dim \in 1..MaxDimension
      /\ db[c].vec \in [0..db[c].size-1 -> Vector]
      /\ first[c] \in Nat /\ db[c].size \in Nat /\ loaded[c] \in Nat
  BY <1>1, RequestType
<1>3. /\ emu_mem \in [Slots -> Vector]
      /\ loaded \in [Clients -> 0..MaxVectors]
  BY DEF BaseInv, TypeOK, DriverTypeOK
<1>4. loaded[c] \in Slots /\ first[c] + loaded[c] \in 0..db[c].size-1
  BY <1>1, <1>2, DriverAssumption DEF Slots, Batch
<1>5. emu_mem[loaded[c]] \in Vector
      /\ db[c].vec[first[c] + loaded[c]] \in Vector
      /\ db[c].dim \in 0..MaxDimension
  <2>1. emu_mem[loaded[c]] \in Vector
    BY <1>3, <1>4
  <2>2. db[c].vec[first[c] + loaded[c]] \in Vector
    BY <1>2, <1>4
  <2>3. db[c].dim \in 0..MaxDimension
    BY <1>2, DriverAssumption
  <2>. QED
    BY <2>1, <2>2, <2>3
<1>6. \A d \in 0..db[c].dim-1 :
        emu_mem'[loaded[c]][d] = db[c].vec[first[c] + loaded[c]][d]
  BY <1>1, <1>3, <1>4, <1>5, OverwriteType DEF LoadVec
<1>7. \A j \in Slots : j # loaded[c] => emu_mem'[j] = emu_mem[j]
  BY <1>1, <1>3 DEF LoadVec
<1>8. loaded'[c] = loaded[c] + 1
  BY <1>1, <1>3
<1>9. \A j \in 0..loaded'[c]-1 :
        j = loaded[c] \/ (j \in 0..loaded[c]-1 /\ j \in Slots /\ j # loaded[c])
  BY <1>2, <1>4, <1>8, DriverAssumption DEF Slots
<1>. QED
  BY <1>1, <1>6, <1>7, <1>9 DEF OwnBank

LEMMA OwnInvInit == Init => OwnInv
BY DEF Init, OwnInv, Sized, Filled, Aimed, Searched

LEMMA OwnInvNext ==
  ASSUME SoleClient, BaseInv, OwnInv, [Next]_vars
  PROVE  OwnInv'
<1>1. CASE UNCHANGED vars
  BY <1>1 DEF vars, device, client, OwnInv, OwnSizes, OwnBank, OwnTarget,
              OwnResult, OwnAnswer, OwnScores, Batch
<1>2. CASE Next
  <2>1. PICK c \in Clients : Request(c) \/ Call(c) \/ SkipBatch(c) \/ Killed(c)
    BY <1>2 DEF Next
  <2>2. \A e \in Clients : e = c
    BY DEF SoleClient
  <2>3. SUFFICES /\ pc'[c] \in Sized    => OwnSizes(c)' /\ OwnBank(c)'
                 /\ pc'[c] \in Filled   => loaded'[c] = Batch(c)'
                 /\ pc'[c] \in Aimed    => OwnTarget(c)'
                 /\ pc'[c] \in Searched => OwnResult(c)'
                 /\ pc'[c] = "answered" => OwnAnswer(c)'
    BY <2>2 DEF OwnInv
  <2>4. /\ pc[c] \in Sized    => OwnSizes(c) /\ OwnBank(c)
        /\ pc[c] \in Filled   => loaded[c] = Batch(c)
        /\ pc[c] \in Aimed    => OwnTarget(c)
        /\ pc[c] \in Searched => OwnResult(c)
    BY DEF OwnInv
  <2>5. /\ pc \in [Clients -> PCs] /\ loaded \in [Clients -> 0..MaxVectors]
        /\ DriverTypeOK
        /\ answer \in [Clients -> [idx : Slots \cup {NoIndex}, score : Score]]
    BY DEF BaseInv, TypeOK
  <2>. USE DEF At, GoTo, Sized, Filled, Aimed, Searched
  <2>6. CASE Request(c) \/ CallReset(c) \/ NextBatch(c) \/ SkipBatch(c)
             \/ Killed(c)
    <3>1. pc'[c] \in {"idle", "reset", "configure"}
      BY <2>5, <2>6 DEF Request, CallReset, NextBatch, SkipBatch, Killed, Advance
    <3>. QED
      BY <3>1
  <2>7. CASE CallConfigure(c)
    <3>1. pc'[c] = "load" /\ loaded'[c] = 0 /\ OwnSizes(c)'
      BY <2>5, <2>7 DEF CallConfigure, SetParam, OwnSizes, Batch, kept
    <3>. QED
      BY <3>1 DEF OwnBank
  <2>8. CASE CallLoadVector(c)
    <3>1. pc'[c] = "load" /\ OwnSizes(c)'
      BY <2>4, <2>8 DEF CallLoadVector, LoadVec, OwnSizes, Batch, kept
    <3>. QED
      BY <2>8, <3>1, LoadKeepsOwn
  <2>9. CASE AllLoaded(c)
    <3>1. pc[c] = "load" /\ loaded[c] = Batch(c) /\ pc'[c] = "target"
      BY <2>5, <2>9 DEF AllLoaded
    <3>2. UNCHANGED <<device, db, query, first, loaded>>
      BY <2>9 DEF AllLoaded, kept
    <3>. QED
      BY <2>4, <3>1, <3>2 DEF device, OwnSizes, OwnBank, Batch
  <2>10. CASE CallSetTarget(c)
    <3>1. /\ pc[c] = "target" /\ pc'[c] = "start"
          /\ SetTarget(query[c], db[c].dim)
          /\ UNCHANGED <<db, query, first, loaded>>
      BY <2>5, <2>10 DEF CallSetTarget, kept
    <3>2. emu_target \in Vector /\ query[c] \in Vector
          /\ db[c].dim \in 0..MaxDimension
      BY <2>5, RequestType, DriverAssumption DEF DriverTypeOK
    <3>3. OwnTarget(c)'
      BY <3>1, <3>2, OverwriteType DEF SetTarget, OwnTarget
    <3>. QED
      BY <2>4, <3>1, <3>3 DEF SetTarget, OwnSizes, OwnBank, Batch
  <2>11. CASE CallStart(c)
    <3>1. /\ pc[c] = "start" /\ pc'[c] = "wait" /\ Start
          /\ UNCHANGED <<db, query, first, loaded, vec_count, dimension,
                         emu_mem, emu_target>>
      BY <2>5, <2>11 DEF CallStart, Start, kept
    <3>2. IsBest(OwnScores(c), vec_count, result_idx', result_score')
      <4>1. \A j \in 0..vec_count-1 : BankScores[j] = OwnScores(c)[j]
        BY <3>1, OwnScoresComputed
      <4>2. IsBest(BankScores, vec_count, result_idx', result_score')
        BY <3>1 DEF Start
      <4>3. vec_count \in Int
        BY <2>5, DriverAssumption DEF DriverTypeOK
      <4>. QED
        BY <4>1, <4>2, <4>3, SameScoresSameBest
    <3>3. UNCHANGED <<Batch(c), OwnScores(c)>>
      BY <3>1 DEF Batch, OwnScores
    <3>4. OwnResult(c)'
      BY <2>4, <3>1, <3>2, <3>3 DEF OwnResult, OwnSizes
    <3>. QED
      BY <2>4, <3>1, <3>3, <3>4 DEF OwnSizes, OwnBank, OwnTarget
  <2>12. CASE PollStatus(c) \/ CallGetResult(c)
    <3>1. /\ pc[c] \in {"wait", "result"} /\ pc'[c] \in {"result", "answered"}
          /\ UNCHANGED <<device, db, query, first, loaded>>
      BY <2>5, <2>12 DEF PollStatus, CallGetResult, kept
    <3>2. UNCHANGED <<Batch(c), OwnScores(c)>>
      BY <3>1 DEF Batch, OwnScores
    <3>3. /\ OwnSizes(c)' /\ OwnBank(c)' /\ loaded'[c] = Batch(c)'
          /\ OwnTarget(c)'
      BY <2>4, <3>1, <3>2 DEF device, OwnSizes, OwnBank, OwnTarget
    <3>4. OwnResult(c)'
      BY <2>4, <3>1, <3>2 DEF device, OwnResult
    <3>5. pc'[c] = "answered" => OwnAnswer(c)'
      <4>1. CASE PollStatus(c)
        BY <2>5, <4>1 DEF PollStatus
      <4>2. CASE CallGetResult(c)
        BY <2>4, <2>5, <3>2, <4>2 DEF CallGetResult, OwnResult, OwnAnswer
      <4>. QED
        BY <2>12, <4>1, <4>2
    <3>. QED
      BY <3>3, <3>4, <3>5
  <2>. QED
    BY <2>1, <2>6, <2>7, <2>8, <2>9, <2>10, <2>11, <2>12 DEF Call
<1>. QED
  BY <1>1, <1>2

\* A process with the device to itself always gets the best match for its
\* own request, whatever sessions before it left in the device.
THEOREM AnswerIsOwnWhenSole == SoleClient => (Spec => []AnswerIsOwn)
<1>. SUFFICES ASSUME SoleClient PROVE Spec => []AnswerIsOwn
  OBVIOUS
<1>1. OwnInv => AnswerIsOwn
  BY DEF OwnInv, OwnAnswer, AnswerIsOwn, At
<1>2. BaseInv /\ OwnInv /\ [Next]_vars => (BaseInv /\ OwnInv)'
  BY BaseInvNext, OwnInvNext
<1>. QED
  BY BaseInvInit, OwnInvInit, <1>1, <1>2, PTL DEF Spec
=============================================================================
