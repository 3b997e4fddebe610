---------------------------- MODULE SeuTreeProofs ----------------------------
(***************************************************************************)
(* The SEU tree generator offers the handshake sppu_top relies on, its     *)
(* status register follows its runs, and at its done pulse the tree is in  *)
(* memory but for the words the DMA reader cost, for every SEU_TREE_CONFIG *)
(* and SEU_DEPTH, software writing SEU_DEPTH or resetting the generator    *)
(* and the reader writing to memory at any time.                           *)
(***************************************************************************)
EXTENDS SeuTree, TLAPS

(***************************************************************************)
(* The inductive invariant.  Written is the tree area as it will be after  *)
(* the next edge if the reader leaves the port alone then; the words it    *)
(* has lost are not spoken of.                                             *)
(***************************************************************************)
ControlInv ==
  /\ busy <=> state # "IDLE"
  /\ done => state = "IDLE"
  /\ StatusTracksRun

\* How many entries the loops visit: with total_entries 0 still one.
Size == IF total_entries = 0 THEN 1 ELSE total_entries

Filled(n) == {i \in Buffer : i < n}
Entry(i)  == IF i \in Buffer THEN Token(i) ELSE Undefined
Prefix(n) == [i \in Index |-> IF i < n THEN Entry(i) ELSE Old]
Complete  == [Prefix(Size) EXCEPT ![total_entries] = Flags(branch_valid)]

Computing == state \in {"LOAD_CONTEXT", "LOAD_WEIGHTS", "COMPUTE"}
Embedding == state \in {"EMBED_SEARCH", "EMBED_WAIT", "APPLY_WEIGHTS"}

BufferInv ==
  /\ state = "LOAD_CONTEXT" => cur_idx = 0
  /\ Computing => path_tokens = Filled(cur_idx) /\ cur_idx < Size
  /\ Embedding => path_tokens = Filled(Size) /\ cur_idx = 0
  /\ state = "WRITE_RESULTS" => path_tokens = Filled(Size) /\ cur_idx < Size

Holds(area) == \A i \in Index : i \in lost \/ tree[i] = area[i]
WillHold(area) ==
  \A i \in Index : i \in lost \ Presented \/ Written[i] = area[i]

MemoryInv ==
  /\ Computing \/ Embedding => WillHold(Prefix(0))
  /\ state = "WRITE_RESULTS" => WillHold(Prefix(cur_idx))
  /\ state = "VALIDATE" => WillHold(Prefix(Size))
  /\ state = "DONE" => WillHold(Complete)
  /\ done => Holds(Complete) /\ tree_count = total_entries

TreeInv == TypeOK /\ ControlInv /\ BufferInv /\ MemoryInv

LEMMA WordsDiffer ==
  /\ \A i : Token(i) # Old /\ Flags(i) # Old
  /\ Undefined # Old
  /\ Foreign \in Word
  /\ \A i \in Buffer : Token(i) \in Word
  /\ \A v \in SUBSET {0} : Flags(v) \in Word
  /\ Old \in Word /\ Undefined \in Word
BY DEF Token, Flags, Old, Undefined, Foreign, Word

\* Before the end of a loop over the entries, cur_idx does not wrap.
LEMMA Successor ==
  ASSUME total_entries \in Index, cur_idx \in Index, cur_idx < Size
  PROVE  /\ Next5(cur_idx) = cur_idx + 1 /\ Next5(cur_idx) \in Index
         /\ LastEntry <=> cur_idx + 1 = Size
BY DEF Index, Size, Next5, LastEntry

\* Reading entry i of a full buffer.
LEMMA ReadEntry ==
  ASSUME NEW i \in Index, i < Size, path_tokens = Filled(Size)
  PROVE  Read(i) = Entry(i) /\ Read(i) \in Word /\ Read(i) # Old
BY WordsDiffer DEF Read, Entry, Filled

LEMMA StatusesDiffer == BUSY # READY /\ BUSY # DONE
BY DEF READY, BUSY, DONE

LEMMA TreeInvInit == Init => TreeInv
<1>. SUFFICES ASSUME Init PROVE TreeInv
  OBVIOUS
<1>. USE DEF Init
<1>1. /\ port \in [at : Index, word : Word] /\ tree \in [Index -> Word]
      /\ lost \in SUBSET Index
  BY WordsDiffer DEF NoWrite, Index
<1>2. r_config \in Config /\ r_depth \in Nat
  BY DEF Config
<1>3. /\ cur_variant \in 0..15 /\ cur_level \in 0..7 /\ cur_idx \in Index
      /\ total_entries \in Index
      /\ tree_count \in Index /\ entries_total \in Index
      /\ branch_valid \in SUBSET {0} /\ path_tokens \in SUBSET Buffer
  BY DEF Index
<1>4. /\ state \in States /\ busy \in BOOLEAN /\ done \in BOOLEAN
      /\ embed_start \in BOOLEAN /\ embed_done \in BOOLEAN
      /\ tree_status \in {READY, BUSY, DONE}
  BY DEF States
<1>5. TypeOK
  BY <1>1, <1>2, <1>3, <1>4 DEF TypeOK
<1>6. ControlInv
  BY StatusesDiffer DEF ControlInv, StatusTracksRun
<1>7. BufferInv /\ MemoryInv
  BY DEF BufferInv, MemoryInv, Computing, Embedding
<1>. QED
  BY <1>5, <1>6, <1>7 DEF TreeInv

(***************************************************************************)
(* The state register, the flags and the status.                           *)
(***************************************************************************)
LEMMA ControlStep ==
  ASSUME TypeOK, ControlInv, Next
  PROVE  /\ state' \in States /\ busy' \in BOOLEAN /\ done' \in BOOLEAN
         /\ tree_status' \in {READY, BUSY, DONE}
         /\ ControlInv'
<1>. USE StatusesDiffer DEF ControlInv, StatusTracksRun, GoTo
<1>0. /\ state \in States /\ busy \in BOOLEAN /\ done \in BOOLEAN
      /\ tree_status \in {READY, BUSY, DONE}
  BY DEF TypeOK
<1>1. CASE \E c \in TreeConfigs, d \in Depths : Start(c, d)
  BY <1>0, <1>1 DEF Start, States
<1>2. CASE Wait
  BY <1>0, <1>2 DEF Wait, States
<1>3. CASE LoadContext \/ LoadWeights \/ EmbedSearch \/ EmbedWait \/ ApplyWeights
  BY <1>0, <1>3 DEF LoadContext, LoadWeights, EmbedSearch, EmbedWait,
                    ApplyWeights, kept, States
<1>4. CASE \E d \in Depths : Compute(d)
  <2>1. /\ state = "COMPUTE"
        /\ state' \in {"EMBED_SEARCH", "WRITE_RESULTS", "LOAD_WEIGHTS"}
        /\ done' = FALSE /\ busy' = busy /\ tree_status' = tree_status
    BY <1>4 DEF Compute, kept
  <2>. QED
    BY <1>0, <2>1 DEF States
<1>5. CASE WriteResults \/ Validate
  BY <1>0, <1>5 DEF WriteResults, Validate, kept, States
<1>6. CASE Finish
  BY <1>0, <1>6 DEF Finish, States
<1>7. CASE SeuReset
  BY <1>0, <1>7 DEF SeuReset, States
<1>. QED
  BY <1>1, <1>2, <1>3, <1>4, <1>5, <1>6, <1>7 DEF Next, Working

(***************************************************************************)
(* Configuration, counters and results; the embedding search's handshake.  *)
(***************************************************************************)
CountersTyped ==
  /\ r_config \in Config /\ r_depth \in Nat
  /\ cur_variant \in 0..15 /\ cur_level \in 0..7 /\ cur_idx \in Index
  /\ total_entries \in Index
  /\ tree_count \in Index /\ entries_total \in Index
  /\ branch_valid \in SUBSET {0}

LEMMA ContextLength ==
  ASSUME r_config \in Config
  PROVE  cfg_context_len(r_config) \in 0..7
BY DEF Config, cfg_context_len

LEMMA EntryCount ==
  ASSUME r_config \in Config, NEW d \in Nat
  PROVE  entry_count(r_config, d) \in Index
<1>1. cfg_max_branches(r_config) \in Nat
  BY DEF Config, cfg_max_branches
<1>2. clamped_depth(d) \in 1..3
  BY DEF clamped_depth
<1>3. (clamped_depth(d) + 1) * cfg_max_branches(r_config) \in Nat
  BY <1>1, <1>2
<1>. QED
  BY <1>3 DEF entry_count, Index

LEMMA CountersStep ==
  ASSUME TypeOK, Next
  PROVE  CountersTyped'
<1>0. CountersTyped
  BY DEF TypeOK, CountersTyped
<1>1. CASE \E c \in TreeConfigs, d \in Depths : Start(c, d)
  <2>1. PICK c \in TreeConfigs, d \in Depths : Start(c, d)
    BY <1>1
  <2>2. c \in Config /\ d \in Nat
    BY SeuAssumption
  <2>3. entry_count(r_config, d) \in Index
    BY <1>0, <2>2, EntryCount DEF CountersTyped
  <2>. QED
    BY <1>0, <2>1, <2>2, <2>3 DEF Start, CountersTyped, Index
<1>2. CASE Wait
  BY <1>0, <1>2 DEF Wait, CountersTyped, latched, position, results
<1>3. CASE LoadContext
  BY <1>0, <1>3, ContextLength DEF LoadContext, CountersTyped, kept, latched, Index
<1>4. CASE LoadWeights \/ EmbedWait \/ Validate
  BY <1>0, <1>4 DEF LoadWeights, EmbedWait, Validate, Output, CountersTyped,
                    kept, latched, position
<1>5. CASE EmbedSearch
  BY <1>0, <1>5 DEF EmbedSearch, CountersTyped, kept, latched, position
<1>6. CASE ApplyWeights
  BY <1>0, <1>6 DEF ApplyWeights, CountersTyped, kept, latched, position
<1>7. CASE \E d \in Depths : Compute(d)
  <2>1. PICK d \in Depths : Compute(d)
    BY <1>7
  <2>2. clamped_depth(d) \in 1..3
    BY SeuAssumption DEF clamped_depth
  <2>3. cur_idx' \in Index /\ cur_level' \in 0..7 /\ cur_variant' \in 0..15
    BY <1>0, <2>1, <2>2 DEF Compute, CountersTyped, Next5, Index
  <2>. QED
    BY <1>0, <2>1, <2>3 DEF Compute, CountersTyped, kept, latched
<1>8. CASE WriteResults
  BY <1>0, <1>8 DEF WriteResults, Output, CountersTyped, kept, latched, Next5, Index
<1>9. CASE Finish
  BY <1>0, <1>9 DEF Finish, CountersTyped, latched, position
<1>10. CASE SeuReset
  BY <1>0, <1>10 DEF SeuReset, CountersTyped, latched, position, Index
<1>. QED
  BY <1>1, <1>2, <1>3, <1>4, <1>5, <1>6, <1>7, <1>8, <1>9, <1>10
     DEF Next, Working

LEMMA EmbedStep ==
  ASSUME TypeOK, Next
  PROVE  embed_start' \in BOOLEAN /\ embed_done' \in BOOLEAN
<1>0. embed_start \in BOOLEAN
  BY DEF TypeOK
<1>. QED
  BY <1>0 DEF Next, Working, Start, Wait, LoadContext, LoadWeights, Compute,
     EmbedSearch, EmbedWait, ApplyWeights, WriteResults, Validate, Finish,
     SeuReset, Clocked, Quiet, Output

(***************************************************************************)
(* The token buffer, the write port and the tree area keep their types.    *)
(***************************************************************************)
MemoryTyped ==
  /\ port \in [at : Index, word : Word]
  /\ path_tokens \in SUBSET Buffer
  /\ tree \in [Index -> Word] /\ lost \in SUBSET Index

LEMMA ClockedTyped ==
  ASSUME MemoryTyped, Clocked
  PROVE  tree' \in [Index -> Word] /\ lost' \in SUBSET Index
<1>1. Presented \subseteq Index
  BY DEF MemoryTyped, Presented
<1>2. CASE Stored
  BY <1>1, <1>2 DEF Stored, Written, MemoryTyped
<1>3. ASSUME NEW taken \in SUBSET Index, Dropped(taken)
      PROVE  tree' \in [Index -> Word] /\ lost' \in SUBSET Index
  BY <1>1, <1>3, WordsDiffer DEF Dropped, MemoryTyped
<1>. QED
  BY <1>2, <1>3, SeuAssumption DEF Clocked

LEMMA MemoryTypeStep ==
  ASSUME TypeOK, Next
  PROVE  MemoryTyped'
<1>0. MemoryTyped /\ cur_idx \in Index /\ total_entries \in Index
      /\ branch_valid \in SUBSET {0}
  BY DEF TypeOK, MemoryTyped
<1>1. Clocked => tree' \in [Index -> Word] /\ lost' \in SUBSET Index
  BY <1>0, ClockedTyped
<1>2. NoWrite \in [at : Index, word : Word]
  BY WordsDiffer DEF NoWrite, Index
<1>3. CASE \E c \in TreeConfigs, d \in Depths : Start(c, d)
  BY <1>0, <1>2, <1>3, WordsDiffer DEF Start, Quiet, MemoryTyped
<1>4. CASE Wait \/ LoadContext \/ LoadWeights \/ EmbedSearch \/ EmbedWait
           \/ ApplyWeights \/ Finish \/ SeuReset
  BY <1>0, <1>1, <1>2, <1>4 DEF Wait, LoadContext, LoadWeights, EmbedSearch,
     EmbedWait, ApplyWeights, Finish, SeuReset, Quiet, MemoryTyped
<1>5. CASE \E d \in Depths : Compute(d)
  BY <1>0, <1>1, <1>2, <1>5 DEF Compute, Quiet, MemoryTyped
<1>6. CASE WriteResults
  <2>1. Read(cur_idx) \in Word
    BY <1>0, WordsDiffer DEF Read, MemoryTyped
  <2>. QED
    BY <1>0, <1>1, <1>6, <2>1 DEF WriteResults, Output, MemoryTyped
<1>7. CASE Validate
  <2>1. Flags(branch_valid) \in Word
    BY <1>0, WordsDiffer
  <2>. QED
    BY <1>0, <1>1, <1>7, <2>1 DEF Validate, Output, MemoryTyped
<1>. QED
  BY <1>3, <1>4, <1>5, <1>6, <1>7 DEF Next, Working

LEMMA TypeStep ==
  ASSUME TypeOK, ControlInv, Next
  PROVE  TypeOK' /\ ControlInv'
BY ControlStep, CountersStep, EmbedStep, MemoryTypeStep
   DEF TypeOK, CountersTyped, MemoryTyped

(***************************************************************************)
(* The token buffer and the position in the loops.                         *)
(***************************************************************************)
LEMMA BufferStep ==
  ASSUME TypeOK, BufferInv, Next
  PROVE  BufferInv'
<1>0. /\ cur_idx \in Index /\ total_entries \in Index
      /\ Size \in 1..31 /\ BufferInv
  BY DEF TypeOK, Index, Size
<1>. USE DEF Computing, Embedding, GoTo
<1>1. CASE \E c \in TreeConfigs, d \in Depths : Start(c, d)
  <2>1. /\ state' = "LOAD_CONTEXT" /\ cur_idx' = 0 /\ path_tokens' = {}
        /\ total_entries' \in Index
    BY <1>1, CountersStep DEF Start, CountersTyped
  <2>2. Filled(0) = {} /\ 0 < Size'
    BY <2>1 DEF Filled, Buffer, Size, Index
  <2>. QED
    BY <2>1, <2>2 DEF BufferInv
<1>2. CASE Wait \/ Finish \/ SeuReset
  BY <1>2 DEF Wait, Finish, SeuReset, BufferInv
<1>3. CASE LoadContext
  <2>1. /\ state = "LOAD_CONTEXT" /\ state' \in {"LOAD_CONTEXT", "LOAD_WEIGHTS"}
        /\ cur_idx' \in {cur_idx, 0} /\ path_tokens' = path_tokens
        /\ total_entries' = total_entries
    BY <1>3 DEF LoadContext, kept
  <2>2. cur_idx' = cur_idx /\ Size' = Size
    BY <1>0, <2>1 DEF BufferInv, Size
  <2>. QED
    BY <1>0, <2>1, <2>2 DEF BufferInv, Filled
<1>4. CASE LoadWeights
  BY <1>0, <1>4 DEF LoadWeights, kept, position, BufferInv, Size, Filled
<1>5. CASE \E d \in Depths : Compute(d)
  <2>1. /\ state = "COMPUTE" /\ total_entries' = total_entries
        /\ path_tokens' = path_tokens \cup ({cur_idx} \cap Buffer)
        /\ path_tokens = Filled(cur_idx) /\ cur_idx < Size
    BY <1>0, <1>5 DEF Compute, kept, BufferInv
  <2>2. Size' = Size
    BY <2>1 DEF Size
  <2>3. path_tokens' = Filled(cur_idx + 1)
    <3>1. \A i \in Buffer : i < cur_idx + 1 <=> i < cur_idx \/ i = cur_idx
      BY <1>0 DEF Buffer, Index
    <3>. QED
      BY <2>1, <3>1 DEF Filled
  <2>4. CASE LastEntry
    <3>1. /\ cur_idx' = 0
          /\ state' \in {"EMBED_SEARCH", "WRITE_RESULTS"}
      BY <1>5, <2>4 DEF Compute
    <3>2. cur_idx + 1 = Size
      BY <1>0, <2>1, <2>4, Successor
    <3>3. path_tokens' = Filled(Size)' /\ 0 < Size
      BY <1>0, <2>2, <2>3, <3>2 DEF Filled
    <3>. QED
      BY <2>2, <3>1, <3>3 DEF BufferInv
  <2>5. CASE ~LastEntry
    <3>1. cur_idx' = Next5(cur_idx) /\ state' = "LOAD_WEIGHTS"
      BY <1>5, <2>5 DEF Compute
    <3>2. cur_idx' = cur_idx + 1 /\ cur_idx' < Size
      BY <1>0, <2>1, <2>5, <3>1, Successor DEF Index
    <3>3. path_tokens' = Filled(cur_idx)'
      BY <2>3, <3>2 DEF Filled
    <3>. QED
      BY <2>2, <3>1, <3>2, <3>3 DEF BufferInv
  <2>. QED
    BY <2>4, <2>5
<1>6. CASE EmbedSearch \/ EmbedWait \/ ApplyWeights
  <2>1. /\ Embedding
        /\ Embedding' \/ state' = "WRITE_RESULTS"
        /\ cur_idx' = cur_idx /\ path_tokens' = path_tokens
        /\ total_entries' = total_entries
    BY <1>6 DEF EmbedSearch, EmbedWait, ApplyWeights, kept, position
  <2>2. Size' = Size /\ Filled(Size)' = Filled(Size) /\ 0 < Size
    BY <1>0, <2>1 DEF Size, Filled
  <2>. QED
    BY <1>0, <2>1, <2>2 DEF BufferInv
<1>7. CASE WriteResults
  <2>1. /\ state = "WRITE_RESULTS" /\ cur_idx' = Next5(cur_idx)
        /\ path_tokens' = path_tokens /\ total_entries' = total_entries
        /\ state' = IF LastEntry THEN "VALIDATE" ELSE "WRITE_RESULTS"
        /\ path_tokens = Filled(Size) /\ cur_idx < Size
    BY <1>0, <1>7 DEF WriteResults, kept, BufferInv
  <2>2. Size' = Size /\ Filled(Size)' = Filled(Size)
    BY <2>1 DEF Size, Filled
  <2>3. ~LastEntry => cur_idx' < Size
    BY <1>0, <2>1, Successor DEF Index
  <2>. QED
    BY <2>1, <2>2, <2>3 DEF BufferInv
<1>8. CASE Validate
  BY <1>8 DEF Validate, BufferInv
<1>. QED
  BY <1>1, <1>2, <1>3, <1>4, <1>5, <1>6, <1>7, <1>8 DEF Next, Working

(***************************************************************************)
(* The tree area.                                                          *)
(***************************************************************************)
\* An edge brings what was on the port into memory, or loses it.
LEMMA ClockedHolds ==
  ASSUME NEW area, MemoryTyped, Clocked, WillHold(area)
  PROVE  Holds(area)'
<1>1. CASE Stored
  BY <1>1 DEF Stored, WillHold, Holds
<1>2. ASSUME NEW taken, Dropped(taken)
      PROVE  Holds(area)'
  <2>1. \A i \in Index \ Presented : Written[i] = tree[i]
    BY DEF Written, Presented, MemoryTyped
  <2>. QED
    BY <1>2, <2>1 DEF Dropped, WillHold, Holds
<1>. QED
  BY <1>1, <1>2 DEF Clocked

\* With nothing on the port afterwards it stays so for one more edge.
LEMMA QuietWritten ==
  ASSUME NEW area, Holds(area)', port' = NoWrite
  PROVE  WillHold(area)'
BY DEF Holds, WillHold, Written, Presented

LEMMA OutputWritten ==
  ASSUME NEW at \in Index, NEW word, word # Old, NEW area \in [Index -> Word],
         Holds(area)', Output(at, word), MemoryTyped'
  PROVE  WillHold([area EXCEPT ![at] = word])'
<1>1. port' # NoWrite /\ port'.at = at /\ port'.word = word
  BY DEF Output, NoWrite
<1>2. Presented' = {at} /\ Written' = [tree' EXCEPT ![at] = word]
  BY <1>1 DEF Presented, Written
<1>. QED
  BY <1>2 DEF Holds, WillHold, MemoryTyped

LEMMA AreasTyped ==
  ASSUME NEW n
  PROVE  Prefix(n) \in [Index -> Word]
<1>1. \A i \in Index : Entry(i) \in Word /\ Old \in Word
  BY WordsDiffer DEF Entry
<1>. QED
  BY <1>1 DEF Prefix

LEMMA PrefixGrows ==
  ASSUME NEW n \in Index
  PROVE  [Prefix(n) EXCEPT ![n] = Entry(n)] = Prefix(n + 1)
<1>1. \A i \in Index : i < n + 1 <=> i < n \/ i = n
  BY DEF Index
<1>. QED
  BY <1>1 DEF Prefix

LEMMA MemoryStep ==
  ASSUME TypeOK, BufferInv, MemoryInv, Next
  PROVE  MemoryInv'
<1>0. /\ cur_idx \in Index /\ total_entries \in Index
      /\ branch_valid \in SUBSET {0}
      /\ BufferInv /\ MemoryInv /\ MemoryTyped /\ MemoryTyped'
  BY MemoryTypeStep DEF TypeOK, MemoryTyped
<1>. USE DEF Computing, Embedding, GoTo
<1>1. CASE \E c \in TreeConfigs, d \in Depths : Start(c, d)
  <2>1. /\ state' = "LOAD_CONTEXT" /\ done' = FALSE /\ port' = NoWrite
        /\ tree' = [i \in Index |-> Old]
    BY <1>1 DEF Start, Quiet
  <2>2. Prefix(0) = [i \in Index |-> Old]
    BY DEF Prefix, Index
  <2>3. WillHold(Prefix(0))'
    BY <2>1, <2>2 DEF WillHold, Written, Prefix
  <2>. QED
    BY <2>1, <2>3 DEF MemoryInv
<1>2. CASE Wait \/ SeuReset
  BY <1>2 DEF Wait, SeuReset, MemoryInv
<1>3. CASE \/ LoadContext \/ LoadWeights \/ EmbedSearch \/ EmbedWait
           \/ ApplyWeights \/ \E d \in Depths : Compute(d)
  <2>1. Computing \/ Embedding
    BY <1>3 DEF LoadContext, LoadWeights, EmbedSearch, EmbedWait, ApplyWeights,
                Compute
  <2>2. Clocked /\ port' = NoWrite /\ done' = FALSE
    BY <1>3 DEF LoadContext, LoadWeights, EmbedSearch, EmbedWait, ApplyWeights,
                Compute, Quiet
  <2>3. WillHold(Prefix(0))'
    BY <1>0, <2>1, <2>2, ClockedHolds, QuietWritten DEF MemoryInv, Prefix
  <2>4. state' = "WRITE_RESULTS" => cur_idx' = 0
    BY <1>0, <1>3 DEF LoadContext, LoadWeights, EmbedSearch, EmbedWait,
       ApplyWeights, Compute, BufferInv, position
  <2>5. state' \notin {"VALIDATE", "DONE"}
    BY <1>3 DEF LoadContext, LoadWeights, EmbedSearch, EmbedWait, ApplyWeights,
                Compute
  <2>. QED
    BY <2>2, <2>3, <2>4, <2>5 DEF MemoryInv
<1>4. CASE WriteResults
  <2>0. PICK n, word : n \in Index /\ n = cur_idx /\ word = Read(cur_idx)
    BY <1>0
  <2>n. n \in Index
    BY <2>0
  <2>1. /\ state = "WRITE_RESULTS" /\ cur_idx' = Next5(cur_idx) /\ done' = FALSE
        /\ state' = IF LastEntry THEN "VALIDATE" ELSE "WRITE_RESULTS"
        /\ total_entries' = total_entries
        /\ Clocked /\ Output(n, word)
    BY <1>4, <2>0 DEF WriteResults, kept
  <2>2. path_tokens = Filled(Size) /\ cur_idx < Size /\ WillHold(Prefix(n))
    BY <1>0, <2>0, <2>1 DEF BufferInv, MemoryInv
  <2>3. word = Entry(n) /\ word # Old
    BY <1>0, <2>0, <2>2, ReadEntry
  <2>4. Holds(Prefix(n))'
    BY <1>0, <2>1, <2>2, ClockedHolds
  <2>5. WillHold(Prefix(n + 1))'
    <3>1. WillHold([Prefix(n) EXCEPT ![n] = word])'
      BY <1>0, <2>n, <2>1, <2>3, <2>4, OutputWritten, AreasTyped
    <3>2. [Prefix(n) EXCEPT ![n] = word] = Prefix(n + 1)
      BY <2>n, <2>3, PrefixGrows
    <3>. QED
      BY <3>1, <3>2
  <2>6. cur_idx' = n + 1 /\ (LastEntry <=> n + 1 = Size) /\ Size' = Size
    BY <1>0, <2>0, <2>1, <2>2, Successor DEF Size
  <2>7. state' = "VALIDATE" => WillHold(Prefix(Size))'
    BY <2>1, <2>5, <2>6
  <2>8. state' = "WRITE_RESULTS" => WillHold(Prefix(cur_idx))'
    BY <2>5, <2>6
  <2>. QED
    BY <2>1, <2>7, <2>8 DEF MemoryInv
<1>5. CASE Validate
  <2>0. PICK n, size, flags : /\ n \in Index /\ n = total_entries
                              /\ size = Size /\ flags = Flags(branch_valid)
    BY <1>0
  <2>n. n \in Index
    BY <2>0
  <2>1. /\ state = "VALIDATE" /\ state' = "DONE" /\ done' = FALSE
        /\ Clocked /\ Output(n, flags)
    BY <1>5, <2>0 DEF Validate
  <2>2. Complete' = [Prefix(size) EXCEPT ![n] = flags]
    BY <1>5, <2>0 DEF Validate, kept, Complete, Size
  <2>3. Holds(Prefix(size))'
    BY <1>0, <2>0, <2>1, ClockedHolds DEF MemoryInv
  <2>4. flags # Old
    BY <2>0, WordsDiffer
  <2>5. WillHold([Prefix(size) EXCEPT ![n] = flags])'
    BY <1>0, <2>n, <2>1, <2>3, <2>4, OutputWritten, AreasTyped
  <2>. QED
    BY <2>1, <2>2, <2>5 DEF MemoryInv
<1>6. CASE Finish
  <2>0. PICK area : area = Complete
    OBVIOUS
  <2>1. /\ state = "DONE" /\ state' = "IDLE" /\ Clocked
        /\ tree_count' = total_entries /\ total_entries' = total_entries
        /\ Complete' = area
    BY <1>6, <2>0 DEF Finish, Complete, Size
  <2>2. Holds(area)'
    BY <1>0, <2>0, <2>1, ClockedHolds DEF MemoryInv
  <2>. QED
    BY <2>1, <2>2 DEF MemoryInv
<1>. QED
  BY <1>1, <1>2, <1>3, <1>4, <1>5, <1>6 DEF Next, Working

LEMMA TreeInvNext == TreeInv /\ [Next]_vars => TreeInv'
<1>1. ASSUME TreeInv, Next PROVE TreeInv'
  BY <1>1, TypeStep, BufferStep, MemoryStep DEF TreeInv
<1>2. ASSUME TreeInv, UNCHANGED vars PROVE TreeInv'
  <2>. USE <1>2 DEF vars, control, latched, position, results, embed, memory,
                    TreeInv
  <2>1. TypeOK'
    BY DEF TypeOK
  <2>2. ControlInv'
    BY DEF ControlInv, StatusTracksRun
  <2>3. BufferInv'
    BY DEF BufferInv, Computing, Embedding, Size, Filled
  <2>4. MemoryInv'
    BY DEF MemoryInv, Computing, Embedding, Size, Prefix, Complete, Written,
           Holds, WillHold, Presented
  <2>. QED
    BY <2>1, <2>2, <2>3, <2>4
<1>. QED
  BY <1>1, <1>2

LEMMA TreeInvariant == Spec => []TreeInv
BY TreeInvInit, TreeInvNext, PTL DEF Spec

\* Every register of the generator keeps its type: in particular the 4-bit
\* variant and the 3-bit level never wrap and the index stays in five bits,
\* whatever software writes to SEU_DEPTH during a run.
THEOREM TreeTypeCorrect == Spec => []TypeOK
BY TreeInvariant, PTL DEF TreeInv

\* SEU_STATUS always tells what the machine does.
THEOREM StatusIsRight == Spec => []StatusTracksRun
BY TreeInvariant, PTL DEF TreeInv, ControlInv

\* When the done pulse comes the tree is in memory, but for the words a write
\* of the DMA reader cost, wherever and whenever that writes.
THEOREM TreeIsInMemory == Spec => []TreeInMemory
<1>1. ASSUME TreeInv PROVE TreeInMemory
  <2>. SUFFICES ASSUME done PROVE TreeInMemory
    BY DEF TreeInMemory
  <2>1. Holds(Complete) /\ tree_count = total_entries /\ total_entries \in Index
    BY <1>1 DEF TreeInv, MemoryInv, TypeOK
  <2>2. Prefix(Size) \in [Index -> {Entry(i) : i \in Index} \cup {Old}]
    BY DEF Prefix
  <2>3. tree_count \in lost \/ tree[tree_count] = Flags(branch_valid)
    BY <2>1, <2>2 DEF Complete, Holds
  <2>4. \A i \in Index \ lost : i # tree_count =>
          tree[i] = IF i < Size THEN Entry(i) ELSE Old
    BY <2>1, <2>2 DEF Complete, Prefix, Holds
  <2>5. \A i \in Index : /\ i < tree_count => i < Size /\ i # tree_count
                         /\ i > tree_count => ~(i < Size) /\ i # tree_count
    BY <2>1 DEF Size, Index
  <2>. QED
    BY <2>3, <2>4, <2>5 DEF TreeInMemory, Entry
<1>. QED
  BY <1>1, TreeInvariant, PTL

\* Every step of the generator is a step of the handshake, or does not show.
THEOREM GeneratorImplementsHandshake == Spec => HandshakeSafety
<1>1. Init => Handshake!Init
  BY DEF Init, Handshake!Init
<1>2. TreeInv /\ [Next]_vars => [Handshake!Next]_<<busy, done>>
  <2>. SUFFICES ASSUME TreeInv, [Next]_vars
                PROVE  [Handshake!Next]_<<busy, done>>
    OBVIOUS
  <2>0. busy \in BOOLEAN /\ (busy <=> state # "IDLE")
    BY DEF TreeInv, TypeOK, ControlInv
  <2>. USE <2>0 DEF GoTo, Handshake!Next, Handshake!Step, Handshake!Idle,
               Handshake!Work, Handshake!Finish, Handshake!Abort
  <2>1. CASE \E c \in TreeConfigs, d \in Depths : Start(c, d)
    <3>1. ~busy /\ busy' = TRUE /\ done' = FALSE
      BY <2>1 DEF Start
    <3>. QED
      BY <3>1
  <2>2. CASE Wait
    BY <2>2 DEF Wait
  <2>3. CASE \/ LoadContext \/ LoadWeights \/ EmbedSearch \/ EmbedWait
             \/ ApplyWeights \/ (\E d \in Depths : Compute(d))
             \/ WriteResults \/ Validate
    <3>1. busy /\ busy' = TRUE /\ done' = FALSE
      BY <2>3 DEF LoadContext, LoadWeights, EmbedSearch, EmbedWait,
         ApplyWeights, Compute, WriteResults, Validate, kept
    <3>. QED
      BY <3>1
  <2>4. CASE Finish
    BY <2>4 DEF Finish
  <2>5. CASE SeuReset
    BY <2>5 DEF SeuReset
  <2>6. CASE UNCHANGED vars
    BY <2>6 DEF vars, control
  <2>. QED
    BY <2>1, <2>2, <2>3, <2>4, <2>5, <2>6 DEF Next, Working
<1>. QED
  BY <1>1, <1>2, TreeInvariant, PTL DEF Spec, HandshakeSafety
=============================================================================
