----------------------------- MODULE SpecBackend -----------------------------
(***************************************************************************)
(* One program at a time on the SEU: sppu_predict_tree of libsppu, and the *)
(* speculative cycle of sdk/src/sppu_backend.c, with its polling loop, the *)
(* validation callback, accept and rollback.  A program may be killed at   *)
(* any call and another may begin; the device keeps what it was left with. *)
(***************************************************************************)
EXTENDS SeuDriver

CONSTANT MaxPolls     \* polls before sppu_speculative_build gives up (1000)

ASSUME PollsAssumption == MaxPolls \in Nat \ {0}

VARIABLES
  pc,
  depth, offset,      \* of the tree being predicted
  max_branches,       \* of the tree being built
  polls, valid,       \* the polling loop, and the flags its last poll read
  from_ready          \* history: the tree was started with the SEU READY

client == <<pc, depth, offset, max_branches, polls, valid, from_ready>>
vars   == <<device, client>>

PCs == {"idle", "configure", "start", "poll", "predicted", "build", "branches",
        "entries", "offered", "accept", "rollback"}

TypeOK ==
  /\ DriverTypeOK
  /\ pc \in PCs
  /\ depth \in Depths /\ offset \in Offsets /\ max_branches \in BranchCounts
  /\ polls \in 0..MaxPolls /\ valid \in SUBSET Branches
  /\ from_ready \in BOOLEAN

Init ==
  /\ DriverInit
  /\ pc = "idle"
  /\ depth \in Depths /\ offset \in Offsets /\ max_branches \in BranchCounts
  /\ polls = 0 /\ valid = {} /\ from_ready = FALSE

\* A new request: what the generator did so far was for an earlier one.
Outdate ==
  /\ run' = IF run = "own" THEN "old" ELSE run
  /\ tree_of' = IF tree_of = "own" THEN "old" ELSE tree_of

deviceRest == <<emulation, lock, config, seu_status, branch_valid,
                entries_total, emulated, start_bit, r_config, r_total>>

(***************************************************************************)
(* sppu_predict_tree.                                                      *)
(***************************************************************************)
Predict ==
  /\ pc = "idle" /\ pc' = "configure"
  /\ depth' \in Depths /\ offset' \in Offsets
  /\ Outdate
  /\ UNCHANGED <<deviceRest, max_branches, polls, valid, from_ready>>

asked == <<depth, offset, max_branches>>

CallConfigure ==
  /\ pc = "configure" /\ pc' = "start"
  /\ SeuConfig(depth, offset)
  /\ UNCHANGED <<asked, polls, valid, from_ready>>

CallStart ==
  /\ pc = "start" /\ pc' = "poll"
  /\ SeuStart
  /\ from_ready' = (seu_status = "READY")
  /\ UNCHANGED <<asked, polls, valid>>

\* A poll that reads another status sleeps and polls again: no change.
PollTree ==
  /\ pc = "poll" /\ lock = "free" /\ seu_status = "DONE"
  /\ pc' = "predicted"
  /\ UNCHANGED <<device, asked, polls, valid, from_ready>>

UseTree ==
  /\ pc = "predicted" /\ pc' = "idle"
  /\ UNCHANGED <<device, asked, polls, valid, from_ready>>

(***************************************************************************)
(* sppu_speculative_run: build, poll, offer, validate, accept or rollback. *)
(* The context tokens it loads first go to the search's vectors.           *)
(***************************************************************************)
Speculate ==
  /\ pc = "idle" /\ pc' = "build"
  /\ max_branches' \in BranchCounts
  /\ polls' = 0 /\ valid' = {}
  /\ Outdate
  /\ UNCHANGED <<deviceRest, depth, offset, from_ready>>

\* The mask run passes: every requested branch.
CallBuild ==
  /\ pc = "build" /\ pc' = "branches"
  /\ BuildTree(max_branches, 0..(max_branches - 1))
  /\ from_ready' = (seu_status = "READY")
  /\ UNCHANGED <<asked, polls, valid>>

deviceButLock == <<emulation, config, seu_status, branch_valid, entries_total,
                   emulated, hardware>>

\* GET_BRANCHES reads the flags first and the number of entries last, with
\* the lock held and the generator running.
ReadFlags ==
  /\ pc = "branches" /\ lock = "free"
  /\ pc' = "entries" /\ lock' = "held"
  /\ valid' = branch_valid
  /\ UNCHANGED <<deviceButLock, asked, polls, from_ready>>

\* Mutant: GET_BRANCHES returns with the lock when there is no tree yet.
ReadEntriesMutant ==
  /\ pc = "entries"
  /\ lock' = IF entries_total > 0 THEN "free" ELSE lock
  /\ polls' = polls + 1
  /\ pc' = IF entries_total > 0 THEN "offered"
           ELSE IF polls' = MaxPolls THEN "idle" ELSE "branches"
  /\ valid' = valid \cap 0..(max_branches - 1)
  /\ UNCHANGED <<deviceButLock, asked, from_ready>>

\* Entries: the hypotheses are the valid branches.  None: another poll, or
\* ETIMEDOUT.
ReadEntries ==
  /\ pc = "entries" /\ lock' = "free"
  /\ polls' = polls + 1
  /\ pc' = IF entries_total > 0 THEN "offered"
           ELSE IF polls' = MaxPolls THEN "idle" ELSE "branches"
  /\ valid' = valid \cap 0..(max_branches - 1)
  /\ UNCHANGED <<deviceButLock, asked, from_ready>>

\* No hypothesis, or calloc fails, or the callback does, or it accepts none:
\* rollback.  Only if it accepts one: accept.
Validate ==
  /\ pc = "offered"
  /\ pc' \in {"rollback"} \cup (IF valid # {} THEN {"accept"} ELSE {})
  /\ UNCHANGED <<device, asked, polls, valid, from_ready>>

CallAccept ==
  /\ pc = "accept" /\ pc' = "idle"
  /\ Accept /\ UNCHANGED <<asked, polls, valid, from_ready>>

CallRollback ==
  /\ pc = "rollback" /\ pc' = "idle"
  /\ Rollback /\ UNCHANGED <<asked, polls, valid, from_ready>>

\* sppu_speculative_rollback, or sppu_seu_rollback, called by itself.
GiveBack ==
  /\ pc = "idle" /\ pc' = "rollback"
  /\ UNCHANGED <<device, asked, polls, valid, from_ready>>

(***************************************************************************)
(* What may happen at any time.                                            *)
(***************************************************************************)
Killed ==
  /\ pc # "idle" /\ lock = "free" /\ pc' = "idle"
  /\ UNCHANGED <<device, asked, polls, valid, from_ready>>

\* A program that calls ioctl itself, with an address that cannot be copied.
BadAddress == pc = "idle" /\ FaultLocked /\ UNCHANGED client

Generator == ~emulation /\ (ApplyWeights \/ Finish) /\ UNCHANGED client

Call ==
  \/ CallConfigure \/ CallStart \/ PollTree \/ UseTree
  \/ CallBuild \/ ReadFlags \/ ReadEntries \/ Validate
  \/ CallAccept \/ CallRollback

Next ==
  \/ Predict \/ Speculate \/ GiveBack \/ Call \/ Killed \/ BadAddress
  \/ Generator

Spec == Init /\ [][Next]_vars

\* The generator finishes, as SeuTree shows, and a program in the middle of
\* a call is scheduled again and again.
FairSpec == Spec /\ WF_vars(Call) /\ WF_vars(Generator)

(***************************************************************************)
(* Properties.                                                             *)
(***************************************************************************)

\* sppu_predict_tree returns its own tree: in emulation, when SEU_STATUS
\* reads DONE, the 16 * depth entries a tree of that depth has are all from
\* this request, whatever deeper tree, tree build or killed program filled
\* the array before.  (The entries behind them are those of a deeper tree.)
PredictionIsOwn ==
  emulation /\ pc = "predicted" =>
    \A i \in Index : i < Variants * depth => seu_tree[i] = <<depth, offset>>

\* A build that finds the SEU READY is generated: when its hypotheses are
\* offered, the generator is at work on this request or has finished it.
\* (The START edge and the two writes of the rollback before.)
HypothesesAreOwn ==
  pc = "offered" /\ from_ready =>
    \/ seu_status = "BUSY" /\ run = "own"
    \/ tree_of = "own"

\* Every call returns and every speculative cycle ends, accepted, rolled
\* back or timed out, unless a copy faulted with the lock held.
CycleEnds == pc # "idle" ~> pc = "idle" \/ lock = "stuck"
=============================================================================
