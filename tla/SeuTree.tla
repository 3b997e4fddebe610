------------------------------- MODULE SeuTree -------------------------------
(***************************************************************************)
(* fpga/rtl/seu_tree.v: the state machine of the SEU tree generator, one   *)
(* step per rising clock edge, with its write port into vector memory and  *)
(* the embedding-search stub of sppu_top.v that answers it.                *)
(*                                                                         *)
(* What a token is does not matter here, only which entry of which run it  *)
(* belongs to.  The words of the tree area are numbered from tree_addr.    *)
(* The DMA reader writes to the same memory and goes first: at any edge it *)
(* may cost the generator a word, on its way or already there.             *)
(* The scores (read back through SEU_PROB_READBACK), the read port and the *)
(* generator's best_idx and best_score, which the stub makes constants,    *)
(* are left out; so is branch_mask, which reaches nothing but the seed of  *)
(* the scores.                                                             *)
(***************************************************************************)
EXTENDS Naturals

CONSTANTS
  TreeConfigs,   \* SEU_TREE_CONFIG (with SEU_EMBED_ADDR) as software sets it
  Depths,        \* SEU_DEPTH as software sets it
  Exposed        \* words of the tree area the DMA reader may cost us: all in
                 \* the device, some in a run

\* validates: auto_validate is set and embed_addr is not 0.
Config == [branches : 0..15, context_len : 0..15, validates : BOOLEAN]

READY == 0
BUSY  == 1
DONE  == 2

Index   == 0..31    \* a 5-bit index
Buffer  == 0..15    \* the indices path_tokens has

ASSUME SeuAssumption ==
  TreeConfigs \subseteq Config /\ Depths \subseteq Nat /\ Exposed \subseteq Index

VARIABLES
  state, busy, done, tree_status,
  r_config, r_depth,             \* latched; r_depth is never looked at
  cur_variant, cur_level, cur_idx, total_entries,
  tree_count, entries_total, branch_valid,
  embed_start, embed_done,       \* the embedding search's handshake
  port,                          \* write presented to vector memory
  path_tokens,                   \* buffer entries computed in this run
  tree,                          \* tree area: what this run wrote to it
  lost                           \* history: words of it lost to the DMA reader

control  == <<state, busy, done, tree_status>>
latched  == <<r_config, r_depth>>
position == <<cur_variant, cur_level, cur_idx>>
results  == <<tree_count, entries_total, branch_valid>>
embed    == <<embed_start, embed_done>>
memory   == <<port, path_tokens, tree, lost>>
vars     == <<control, latched, position, total_entries, results, embed, memory>>

States == {"IDLE", "LOAD_CONTEXT", "LOAD_WEIGHTS", "COMPUTE", "EMBED_SEARCH",
           "EMBED_WAIT", "APPLY_WEIGHTS", "WRITE_RESULTS", "VALIDATE", "DONE"}

\* A word of the tree area: not written in this run, the token of an entry,
\* what a read beyond the token buffer gives, the word of valid flags, or one
\* of the DMA reader's.
Token(i)     == [kind |-> "token", val |-> i]
Flags(valid) == [kind |-> "flags", val |-> valid]
Old          == [kind |-> "old", val |-> 0]
Undefined    == [kind |-> "undefined", val |-> 0]
Foreign      == [kind |-> "foreign", val |-> 0]
Word == {Token(i) : i \in Buffer} \cup {Flags(v) : v \in SUBSET {0}}
          \cup {Old, Undefined, Foreign}

NoWrite == [at |-> 0, word |-> Old]     \* vmem_c_wen low

TypeOK ==
  /\ state \in States /\ busy \in BOOLEAN /\ done \in BOOLEAN
  /\ tree_status \in {READY, BUSY, DONE}
  /\ r_config \in Config /\ r_depth \in Nat
  /\ cur_variant \in 0..15 /\ cur_level \in 0..7 /\ cur_idx \in Index
  /\ total_entries \in Index
  /\ tree_count \in Index /\ entries_total \in Index
  /\ branch_valid \in SUBSET {0}
  /\ embed_start \in BOOLEAN /\ embed_done \in BOOLEAN
  /\ port \in [at : Index, word : Word]
  /\ path_tokens \in SUBSET Buffer
  /\ tree \in [Index -> Word] /\ lost \in SUBSET Index

Init ==
  /\ state = "IDLE" /\ busy = FALSE /\ done = FALSE /\ tree_status = READY
  /\ r_config = [branches |-> 0, context_len |-> 0, validates |-> FALSE]
  /\ r_depth = 0
  /\ cur_variant = 0 /\ cur_level = 0 /\ cur_idx = 0 /\ total_entries = 0
  /\ tree_count = 0 /\ entries_total = 0 /\ branch_valid = {}
  /\ embed_start = FALSE /\ embed_done = FALSE
  /\ port = NoWrite /\ path_tokens = {}
  /\ tree = [i \in Index |-> Old] /\ lost = {}

(***************************************************************************)
(* Configuration wires.                                                    *)
(***************************************************************************)
cfg_max_branches(config) == IF config.branches = 0 THEN 16 ELSE config.branches

\* The three low bits of the length, which is 1 where software wrote 0.
cfg_context_len(config) ==
  IF config.context_len = 0 THEN 1 ELSE config.context_len % 8

clamped_depth(depth) ==
  IF depth < 2 THEN 1 ELSE IF depth > 4 THEN 3 ELSE depth - 1

\* Mutant: the product is not cut to five bits.
EntryCountMutant(config, depth) ==
  (clamped_depth(depth) + 1) * cfg_max_branches(config)

entry_count(config, depth) ==
  ((clamped_depth(depth) + 1) * cfg_max_branches(config)) % 32

Next5(i) == (i + 1) % 32

\* The entry at cur_idx is the last one.
LastEntry == Next5(cur_idx) >= total_entries

(***************************************************************************)
(* What happens at every edge besides: memory takes the write on the port  *)
(* unless the DMA reader writes too, the stub answers a search started in  *)
(* the cycle before.                                                       *)
(***************************************************************************)
Presented == IF port = NoWrite THEN {} ELSE {port.at}

Written == IF port = NoWrite THEN tree
                             ELSE [tree EXCEPT ![port.at] = port.word]

Stored == tree' = Written /\ lost' = lost \ Presented

\* The reader writes: to the word in taken, or elsewhere if taken is empty.
Dropped(taken) ==
  /\ Presented \subseteq Exposed
  /\ tree' = [i \in Index |-> IF i \in taken THEN Foreign ELSE tree[i]]
  /\ lost' = lost \cup Presented \cup taken

Clocked ==
  /\ embed_done' = embed_start
  /\ Stored \/ Dropped({}) \/ \E a \in Exposed : Dropped({a})

Quiet == port' = NoWrite /\ embed_start' = FALSE

(***************************************************************************)
(* One action per state of the machine.                                    *)
(***************************************************************************)
GoTo(next) == state' = next /\ done' = FALSE

\* ST_IDLE with start high.  The number of entries is computed from the
\* configuration of the previous run, r_config before this edge.  From here
\* on nothing in the tree area or the buffers counts as this run's.
Start(config, depth) ==
  /\ state = "IDLE" /\ GoTo("LOAD_CONTEXT")
  /\ busy' = TRUE /\ tree_status' = BUSY
  /\ r_config' = config /\ r_depth' = depth
  /\ cur_variant' = 0 /\ cur_level' = 0 /\ cur_idx' = 0
  /\ total_entries' = entry_count(r_config, depth)
  /\ branch_valid' = {}
  /\ Quiet /\ embed_done' = embed_start
  /\ path_tokens' = {} /\ tree' = [i \in Index |-> Old] /\ lost' = {}
  /\ UNCHANGED <<tree_count, entries_total>>

Wait ==
  /\ state = "IDLE" /\ GoTo("IDLE")
  /\ Clocked /\ Quiet
  /\ UNCHANGED <<busy, tree_status, latched, position, total_entries, results,
                 path_tokens>>

\* What the working states leave alone.
kept == <<busy, tree_status, latched, total_entries, tree_count, entries_total>>

LoadContext ==
  /\ state = "LOAD_CONTEXT"
  /\ \/ /\ cur_level + 1 >= cfg_context_len(r_config)
        /\ cur_level' = 0 /\ cur_idx' = 0 /\ GoTo("LOAD_WEIGHTS")
     \/ /\ cur_level + 1 < cfg_context_len(r_config)
        /\ cur_level' = cur_level + 1 /\ UNCHANGED cur_idx
        /\ GoTo("LOAD_CONTEXT")
  /\ Clocked /\ Quiet
  /\ UNCHANGED <<kept, cur_variant, branch_valid, path_tokens>>

LoadWeights ==
  /\ state = "LOAD_WEIGHTS" /\ GoTo("COMPUTE")
  /\ Clocked /\ Quiet
  /\ UNCHANGED <<kept, position, branch_valid, path_tokens>>

\* One entry.  depth is the register as it is now, not r_depth: software may
\* have written it since the start.  A store beyond the buffer is lost.
Compute(depth) ==
  /\ state = "COMPUTE"
  /\ path_tokens' = path_tokens \cup ({cur_idx} \cap Buffer)
  /\ \/ /\ LastEntry
        /\ cur_idx' = 0 /\ cur_level' = 0 /\ cur_variant' = 0
        /\ GoTo(IF r_config.validates THEN "EMBED_SEARCH" ELSE "WRITE_RESULTS")
     \/ /\ ~LastEntry
        /\ cur_idx' = Next5(cur_idx)
        /\ \/ /\ cur_level + 1 > clamped_depth(depth)
              /\ cur_level' = 0 /\ cur_variant' = (cur_variant + 1) % 16
           \/ /\ cur_level + 1 <= clamped_depth(depth)
              /\ cur_level' = cur_level + 1 /\ UNCHANGED cur_variant
        /\ GoTo("LOAD_WEIGHTS")
  /\ Clocked /\ Quiet
  /\ UNCHANGED <<kept, branch_valid>>

EmbedSearch ==
  /\ state = "EMBED_SEARCH" /\ GoTo("EMBED_WAIT")
  /\ Clocked /\ port' = NoWrite /\ embed_start' = TRUE
  /\ UNCHANGED <<kept, position, branch_valid, path_tokens>>

EmbedWait ==
  /\ state = "EMBED_WAIT" /\ GoTo(IF embed_done THEN "APPLY_WEIGHTS"
                                                ELSE "EMBED_WAIT")
  /\ Clocked /\ Quiet
  /\ UNCHANGED <<kept, position, branch_valid, path_tokens>>

\* The stub always answers branch 0.
ApplyWeights ==
  /\ state = "APPLY_WEIGHTS" /\ GoTo("WRITE_RESULTS")
  /\ branch_valid' = branch_valid
                       \cup {b \in {0} : b < cfg_max_branches(r_config)}
  /\ Clocked /\ Quiet
  /\ UNCHANGED <<kept, position, path_tokens>>

Output(at, word) == port' = [at |-> at, word |-> word] /\ embed_start' = FALSE

\* The token at index i of the buffer.
Read(i) == IF i \in path_tokens THEN Token(i)
           ELSE IF i \in Buffer THEN Old ELSE Undefined

\* Mutant: the last entry is left out.
WriteResultsMutant ==
  /\ state = "WRITE_RESULTS"
  /\ cur_idx' = Next5(cur_idx)
  /\ GoTo(IF Next5(cur_idx) + 1 >= total_entries THEN "VALIDATE"
                                                 ELSE "WRITE_RESULTS")
  /\ Clocked /\ Output(cur_idx, Read(cur_idx))
  /\ UNCHANGED <<kept, cur_variant, cur_level, branch_valid, path_tokens>>

WriteResults ==
  /\ state = "WRITE_RESULTS"
  /\ cur_idx' = Next5(cur_idx)
  /\ GoTo(IF LastEntry THEN "VALIDATE" ELSE "WRITE_RESULTS")
  /\ Clocked /\ Output(cur_idx, Read(cur_idx))
  /\ UNCHANGED <<kept, cur_variant, cur_level, branch_valid, path_tokens>>

Validate ==
  /\ state = "VALIDATE" /\ GoTo("DONE")
  /\ Clocked /\ Output(total_entries, Flags(branch_valid))
  /\ UNCHANGED <<kept, position, branch_valid, path_tokens>>

Finish ==
  /\ state = "DONE"
  /\ state' = "IDLE" /\ busy' = FALSE /\ done' = TRUE /\ tree_status' = DONE
  /\ tree_count' = total_entries /\ entries_total' = total_entries
  /\ Clocked /\ Quiet
  /\ UNCHANGED <<latched, position, total_entries, branch_valid, path_tokens>>

\* Mutant: busy and tree_status are cleared, the machine goes on.
SeuResetMutant ==
  /\ busy' = FALSE /\ done' = FALSE /\ tree_status' = READY
  /\ tree_count' = 0 /\ branch_valid' = {}
  /\ Clocked /\ Quiet
  /\ UNCHANGED <<state, latched, position, total_entries, entries_total,
                 path_tokens>>

\* Mutant: tree_status survives the reset.
SeuResetStatusMutant ==
  /\ state' = "IDLE" /\ busy' = FALSE /\ done' = FALSE
  /\ tree_count' = 0 /\ branch_valid' = {}
  /\ Clocked /\ Quiet
  /\ UNCHANGED <<tree_status, latched, position, total_entries, entries_total,
                 path_tokens>>

\* seu_reset, in any state.  It clears the counts but not entries_total.
SeuReset ==
  /\ state' = "IDLE" /\ busy' = FALSE /\ done' = FALSE /\ tree_status' = READY
  /\ tree_count' = 0 /\ branch_valid' = {}
  /\ Clocked /\ Quiet
  /\ UNCHANGED <<latched, position, total_entries, entries_total, path_tokens>>

Working ==
  \/ LoadContext \/ LoadWeights \/ (\E depth \in Depths : Compute(depth))
  \/ EmbedSearch \/ EmbedWait \/ ApplyWeights
  \/ WriteResults \/ Validate \/ Finish

Next ==
  \/ \E config \in TreeConfigs, depth \in Depths : Start(config, depth)
  \/ Wait \/ Working \/ SeuReset

Spec == Init /\ [][Next]_vars

\* The clock runs: while seu_reset is low, a busy generator works, and an
\* idle one lowers done.
FairSpec == Spec /\ WF_vars(Working) /\ WF_vars(Wait)

(***************************************************************************)
(* Properties.                                                             *)
(***************************************************************************)
Handshake == INSTANCE EngineHandshake WITH Abortable <- TRUE

\* Seen from sppu_top the generator is the handshake SppuTop assumes of it:
\* a start is taken only when idle, done is one cycle long, seu_reset ends a
\* run at once and without done, and a run that is not reset finishes,
\* embedding search or not.
ImplementsHandshake == Handshake!Spec

\* The part of it that is a matter of single steps.
HandshakeSafety == Handshake!Init /\ [][Handshake!Next]_<<busy, done>>

\* SEU_STATUS tells what the machine does: BUSY exactly during a run, and
\* DONE from the cycle of the done pulse on.
StatusTracksRun ==
  /\ tree_status = BUSY <=> state # "IDLE"
  /\ done => tree_status = DONE

\* At the done pulse the tree is in memory, the write port's delay included:
\* every entry of the buffer with the token this run computed for it, then the
\* word of valid flags, equal to SEU_TREE_RESULT_FLAGS, and nothing behind it.
\* TREE_COUNT is the number of entries in front of it.  Excepted are exactly
\* the words a write of the DMA reader cost, at the edge at which they were to
\* be stored or on top of them later: no register tells of those.
TreeInMemory ==
  done =>
    /\ tree_count \in lost \/ tree[tree_count] = Flags(branch_valid)
    /\ \A i \in Index \ lost :
         /\ i < tree_count =>
              tree[i] = IF i \in Buffer THEN Token(i) ELSE Undefined
         /\ i > tree_count => tree[i] = Old
=============================================================================
