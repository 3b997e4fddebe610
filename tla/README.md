# Verification of the SPPU project in TLA+

The SPPU is a search accelerator: given a bank of vectors and a target vector it
finds the stored vector with the largest dot product.  Beside the search it has a
*speculative execution unit* (SEU) that generates trees of candidate
continuations.  The repository holds the FPGA design, a Linux driver with a
software emulation of the device, a C library with Python bindings, a QEMU model
of the device and programs that use it.  This directory holds TLA+ models of the
parts where the difficulty is (who does what in which order), TLC configurations
that check them on small instances, and TLAPS proofs for every instance.

Run, in this directory:

    tlc -workers 2 -config SppuTop.cfg MCSppuTop     # a run of PROJECT.json
    tlapm SppuHostProofs.tla                         # a proof module

## 1. The system

| part | state it keeps | operations | correct means |
|---|---|---|---|
| `fpga/rtl/sppu_regs.v` register file | software registers; write and read channel state | AXI-Lite write and read | a write reaches one register once |
| `fpga/rtl/sppu_top.v` control | START edge detectors, `status_reg`, `seu_status_reg`, interrupt flags | one process per register at every clock edge | status, start wires and engines stay in step; no completion interrupt is lost |
| `fpga/rtl/sppu_dotprod.v` search engine | state, counters, best candidate, result | load target, compute, publish | ends; counters stay in range; publishes the best vector |
| `fpga/rtl/sppu_dma.v` DMA reader | state, source, destination, remaining length, burst buffer | read bursts from the host, write vector memory | takes as many beats as it asked for and stores each |
| `fpga/rtl/seu_tree.v` tree generator | state, position in two loops, token and weight buffers, results | load, compute, embed, write, validate, reset | ends; what memory took of the tree is there before `done`; status tells the truth |
| `fpga/rtl/sppu_vecmem.v` vector memory | 4K words | two write ports, two read ports | the DMA goes first; what the generator loses by it is bounded by the collisions |
| `kernel_module/sppu_driver.c` | `sppu.lock`, emulated registers, bank, target, tree, `done_flag`, `seu_done_flag` | 15 ioctls, open, release, interrupt handler, probe and remove | an ioctl is atomic; a search answers for the parameters set; waits end |
| `sdk/src/libsppu.c` | a file descriptor | one ioctl per call; two polling loops | waits end; the result is of the search started |
| `sdk/src/sppu_backend.c` | hypotheses of the current tree | build, poll, validate, accept, rollback | the hypotheses are of the tree just built; a cycle ends |
| `examples/semantic_search/sppu_searchd.c` | the database; a process per request | `/load`, `/search`: batches and a top-K heap | the answer is the best of the batches' results, in order |
| `tools/sppu_search.c` | database, result list | the same batch loop | as the daemon |
| `qemu/sppu_qemu.c` | registers, vector bank, tree, interrupt line | register reads and writes | the line stays high while a completion is unreported |
| `emulator/`, `sdk/python/`, benchmark, test benches, board files | - | straight-line or wrappers | - |

The driver's load and unload are a part of their own: init, exit, probe and remove
run beside open files, ioctls and the interrupt handler, and each of their calls
may fail.

The parts meet at five places: the 32-bit registers (driver to device, one access
at a time), the start/busy/done handshake (`sppu_top` to its engines, one clock
edge at a time), vector memory (DMA and SEU write, search engine and SEU read),
the interrupt line, and `/dev/sppu`, which any number of processes may have open
at once with one device behind it.

What is hard: software writes registers while engines run; a status register is
cleared by one party and set by another at the same edge; START is an edge, not a
level; the interrupt handler runs without the driver's lock; a wait may time out
or its process be killed while the engine goes on; ioctls are atomic but sessions
of a dozen ioctls are not; nothing clears the vector bank between sessions.
`PROJECT.json` lists these hazards at their source lines with the properties that
cover them.

## 2. The modules

| module | models | kind |
|---|---|---|
| `EngineHandshake` | what an engine promises `sppu_top` | abstract specification |
| `SppuTop` | `sppu_top.v` control logic and the write channel of `sppu_regs.v`, over any bus traffic | component; uses the handshake twice |
| `SppuDotprod` | `sppu_dotprod.v` | component; implements `EngineHandshake` |
| `SppuDma` | `sppu_dma.v`, the two write ports of `sppu_vecmem.v`, the host's memory port | component; implements `EngineHandshake` |
| `SppuCompute` | the search path of `sppu_top.v`: one START wire, both engines | composition of `SppuDotprod` and `SppuDma` |
| `SeuTree` | `seu_tree.v`, its write port, and the embedding stub of `sppu_top.v` | component; implements `EngineHandshake` |
| `SppuDevice` | `sppu_top.v` as wired: control logic, the three engines, vector memory | composition of `SppuCompute`, `SeuTree` and the control of `SppuTop`; implements all three |
| `SppuHost` | driver in hardware mode, interrupt handler, polling loops of `libsppu.c` | composition with `SppuTop` |
| `BestMatch` | what a search result is | definitions |
| `SearchLoop` | the START ioctl with `sppu_emu_run_search`, iteration by iteration, beside the other ioctls | component; implements `SppuDriver` |
| `SppuDriver` | the search ioctls in emulation mode | actions and device state |
| `SppuSession` | processes, `libsppu` and the daemon's batch loop | composition with `SppuDriver` |
| `SeuDriver` | the tree ioctls, in emulation and on the hardware | actions and device state |
| `SpecBackend` | `sppu_predict_tree`, and `sppu_speculative_run` of `sppu_backend.c` | composition with `SeuDriver` |
| `DriverLifecycle` | init, exit, probe, remove, open, release and their error paths | actions and state |
| `QemuDevice` | register writes of `sppu_qemu.c`, the interrupt line | actions and device state |
| `QemuGuest` | a process, the ioctls, the handler and the kernel's interrupt core | composition of `DriverLifecycle` and `QemuDevice` |
| `VectorDb` | database files and the two loaders; a batch's result | definitions |
| `Searchd` | the daemon: parent, a process per request, batches, heap | component |
| `SearchTool` | the search mode of `sppu_search.c` | component |
| `SearchClients` | daemon and tool over the same files | composition of `Searchd` and `SearchTool` |
| `MC*` | values for TLC | |
| `*Proofs` | theorems and their proofs | |

**FPGA.** In `SppuTop` one step is one rising clock edge: `Tick(w)` is the
conjunction of the source's clocked processes, each an operator of its own
(`SearchControl`, `SeuControl`, `SearchIrq`, `SeuIrq`, `TreeStatus`, `Engines`,
`WriteChannel`), and the wires between them are operators without parameters with
the source's names (`dp_start`, `seu_start`, `irq`).  A register is the set of its
bits that are 1; only the bits with a meaning are kept.  Registers that only carry
addresses and lengths are left out: no control decision of `sppu_top` looks at
them.  The engines are `EngineHandshake`: start is seen only when idle, a run
takes any positive number of cycles, `done` is one cycle long.  `SppuDotprod`,
`SppuDma` and `SeuTree` are the real machines, and `EnginesImplementHandshake` and
`ImplementsHandshake` show that this is a fair description of each.
`SppuCompute` puts the first two on the one START wire, as `sppu_top` does, with
the tree generator's writes taking the memory's write port whenever they like and
the host's memory port answering as slowly as it likes.  `SppuDma` keeps, for each
word of vector memory, the beat it holds, and in the history variable `received` the
beats the host has sent for the transfer.  `SeuTree` numbers the words of the tree
area from `tree_addr` and keeps, for each, which entry of *this* run is there.
`sppu_vecmem.v` gives the DMA priority: at any edge a word the generator presents may
be dropped (`Dropped`), or one that is already in memory be stored over, and the
history variable `lost` names the words this run lost so.  `Exposed` says which words
the reader may reach: any in the proofs, one in the run.  `SppuDevice` wires
everything together: the control logic of `SppuTop`, each real engine on its own
start wire, the generator's write port on port C of the memory, the reader's writes on
port A as what the generator loses words to (`TreeMemory`), and one SEU_STATUS
register, the generator's.

**Hardware mode.** `SppuHost` replaces the arbitrary bus traffic by three actors:
a process that searches (reset, mask, START, poll, result), one that has trees
predicted (enable, START, poll), and `sppu_irq_handler`.  `sppu_predict_tree` ends
with the tree or, after its timeout, without it, and leaves the SEU as it is;
`sppu_seu_rollback` is a call of its own, which the process makes between two
predictions or not.  Either process may give up waiting at any time (`Abandon`,
`AbandonTree`) and come back.  Each register access is one action and takes one
clock; between two the device and the others run for any number of clocks (`Clock`).
`sppu.lock` is taken where the ioctls take it; the handler takes none.  History
variables, which no step reads, tell whether a result belongs to the latest START,
whether a search began behind one that was given up (`behind`), and whether a
prediction is the first since a rollback (`rolled_back`).

**Emulation mode.** In emulation START runs the search inside the ioctl, under the
lock.  `SppuDriver` has each ioctl as one step; its START publishes what `BestMatch`
says a search finds.  `SearchLoop` extends it with START as the code runs it: STATUS
is BUSY, the loop goes on vector by vector, then the result and STATUS are written,
and the other ioctls wait for the lock; with CTRL and STATUS read as they were when
the lock was taken, that is one START of `SppuDriver` (`StartIsAtomic`).
`SppuSession` adds processes making the library's calls
one ioctl at a time for requests from `sppu_searchd.c`: several batches, databases
of different size and dimension, failing calls, kills.  A vector is a function
from dimensions to elements; the dot product is a constant operator of which only
one thing is assumed, that it reads no element beyond the dimension
(`DotReadsPrefix`).  `NaN` is a score no score is above.

**Speculation.** `SeuDriver` has the device the tree ioctls see, in both modes:
`emulation` chooses which.  An entry of the emulated tree is the request it was
generated for (`emulated`), so an entry left from a deeper tree or from a killed
program can be told from one of the current request.  On the hardware the tree is
`run` (how far the generator is, and for whom) with `start_bit` and the registers
the next tree's size is computed from.  Copies to user space that fault return
with `sppu.lock` held, as the code does; every later call then waits.
`SpecBackend` has one program after another: a plain prediction, or the whole
speculative cycle with its polling limit, callback, accept or rollback.

**Load and unload, virtual machine.** In `DriverLifecycle` each step of init,
exit, probe and remove is an action with its failure, and each error label is a
step.  The module core runs init and exit, the PCI core probe and remove, and the
two overlap except where the kernel orders them.  `QemuGuest` adds what uses the
resources meanwhile: a process that opens the device and makes ioctls that write
registers of `QemuDevice`, and `sppu_irq_handler`, called while the line is up and
the handler is installed; the kernel disables an interrupt nobody handles.

**Clients.** `VectorDb` has a file as its lines and what each of the two loaders
keeps of them.  `Searchd` is the parent and its children: a child inherits the
parent's database, loads another one for itself or searches.  `load_done` and
`after_load`, history variables, tell which connections were accepted after a `/load`
was answered.  The heap is the code's
array with its sift-down, indices are taken modulo 2^32.  `SearchTool` sorts a list
instead.  The result of a batch is a value of the file and the query (`Batch`);
that the device returns it is `SppuSession`'s subject.

## 3. What the runs check

Every property is falsified by at least one mutant of the model in
`PROJECT.json` (a dropped guard, a missing reset, an off-by-one).

| run | question | bounds |
|---|---|---|
| `SppuTop` | can software bring STATUS out of step with the engines, or SEU_STATUS out of step with the generator, with any sequence of writes to CTRL, SEU_CTRL, INT_MASK, INT_STATUS and SEU_IRQ_STATUS? does BUSY always end? | all values of all bits in use; no bound on time |
| `SppuHost` | do a search and tree predictions at once, with rollbacks or without, each given up at any time and tried again, get their own results, as far as the device allows? does each wait end? is an interrupt that is enabled lost or left unreported? | two processes and the handler; INT_MASK as the driver writes it; RESET before each search |
| `SppuHost_driver_mask` (violation) | the INT_MASK value the driver writes | one process, the handler; nobody gives up |
| `SppuCompute` | do both engines on one START wire implement the handshake whatever the other does? is each beat the host sent in memory when the reader is done, in its place? does each cycle advance the search? | up to 2 vectors, 0 to 4 words, bursts of 2 words, a memory of 12 that the fourth word wraps in, the tree's word at the place of the second, any delay of the host |
| `SeuTree` | does the generator implement the handshake, and is the tree in memory at `done`, but for what the DMA took? | configurations whose number of entries is 0 by truncation, 2 to 14, and 28, beyond the 16-entry buffers; 2 and 4 levels; word 2 of the tree area within the reader's reach at every edge |
| `SearchLoop` | is START one step to the other ioctls, which publishes the first best vector of the bank as it then is, with ties, scores at and below the floor, and NaN? does the loop end? | 0 to 3 vectors of 4 values, every order of ioctls |
| `SppuSession_sole` | does a process with the device to itself get answers for its own requests after any earlier sessions? does each request end? | 2 slots, 2 dimensions, databases of 3 and 2 vectors (two batches; dimensions 2 and 1), 3 queries |
| `SppuSession_shared` (violation) | the same for two processes at once | 2 processes |
| `SpecBackend` | in emulation, is a predicted tree the one asked for; in both modes, are the hypotheses of a build that found the SEU READY of that build, on a device any earlier program may have left at any call? does a cycle end? | depths 5 and 8, 2 offsets, 4 and 16 branches (16 is 0 in five bits), 2 polls, both modes |
| `QemuGuest` | is a resource left behind, or used after it is given back? is a completion lost between device, handler and driver? does rmmod return? | none cut: one device, one process, one file |
| `SearchClients` | do daemon and tool give the best batch results, best first, whatever order they come in, and name vectors of the file? is the best of the whole file first? do they agree on what a file holds? | files of up to 9 vectors (five batches of 2), an empty, a malformed and a missing one, top_k from 0 to beyond the limit, one connection at a time |
| `SearchClients_load` (violation) | does a `/load` that was answered serve a later search? | one connection at a time, any number of them after each other |

Why the bounds are enough.  The control logic of `SppuTop` and `SppuHost` is
finite: no parameter is cut there, only registers it does not look at are left
out; the same is true of `QemuGuest`.  In the other modules the interesting cases
are the ends of loops, a partial last burst, a remainder of an earlier session
that is longer than the current one, a second batch, a tie, a heap that overflows;
each needs two or three elements, and where section 4 has a proof it removes the
bound.  `SppuDevice` has no run: its parts are run one by one, and that it is made of them is
proved (section 4).  `SearchClients` serves one connection at a time because children of
the daemon share nothing after the fork but the device, which `SppuSession` is about.

Three runs do not check for deadlock, because the system really may stop there:
in `SpecBackend` everyone waits for a lock that a faulting copy left held, in
`QemuGuest` a failed load with the device file still open leaves a module nobody
can use, and in `SearchClients` the tool ends, as a stopped daemon does.

The three violations, each a disagreement between the code and what the
repository says of it (`PROJECT.json`, "findings", quotes the sentences):

- `SppuHost_driver_mask`: the driver writes bit 2 to INT_MASK, the hardware looks
  at bit 0, so in hardware mode no search completion raises an interrupt.  Waiting
  works because the library polls.
- `SppuSession_shared`: the daemon forks per request and each child drives the one
  device.
- `SearchClients_load`: `/load` loads into the child, which exits; a search whose
  connection is accepted after the answer is told to "Use POST /load first".

`FreshResult` has one exemption.  RESET does not stop the search engine, so the
late completion of a search that was given up can end the wait for the next one.
The property therefore excepts a search that was begun while the engine was still
at work on an abandoned one (`behind`), and nothing else.  `FreshTree` is about the
first prediction since a rollback: of a second one nothing is said, because its START
finds the SEU at DONE, starts nothing, and the poll reads the tree before
(section 5).  `CompletionReported` and `NoLostCompletion` are about completions whose
interrupt is enabled; under the driver's INT_MASK these are the SEU's.

### Fairness

- The clock runs: `WF` of `Next` in `SppuTop`, of the working states and of the
  edge that lowers `done` in `SeuTree`, of the clock while anything is left to do in `SppuCompute`, of
  `Clock` in `SppuHost`.
- An engine finishes: `WF` of its `Finish` step in `SppuTop`, of a clock in which
  it finishes in `SppuHost`.  Not an assumption about the design: `SppuCompute`
  and `SeuTree` show it from the clock alone (the refinement includes the
  handshake's fairness).  The DMA reader needs the host's memory port:
  `SppuCompute` assumes that the port accepts an address that is offered and sends
  the beats it owes, which AXI requires of a slave.
- A process in the middle of a call is scheduled: `WF` in `SppuSession` and
  `SpecBackend`, where a step once enabled stays so, `SF` in `SppuHost`, where the
  spin lock and the write channel are taken and released by others.  The handler
  is called while the interrupt line is high.
- In `QemuGuest` the handler, an ioctl that has begun, exit, and a probe or remove
  that has begun go on, and the PCI core removes the device of a driver that is
  being unregistered.
- The driver's search loop runs to its end once it has begun (`SearchLoop`), and
  the tree generator that `SpecBackend` sees finishes, as `SeuTree` shows.
- Nothing is assumed of beginning a request, a prediction or a rollback, giving up,
  failing, loading, opening, closing, or being killed.

## 4. What is proved

For every value of the constants, from the named assumptions in the modules.  Most
give the types of the constants.  The others are `DotReadsPrefix`;
`DriverAssumption` (a dot product is a score, a number or NaN);
`SessionAssumption` (a database has vectors, of at most MaxDimension elements);
`DbAssumption` (the count in a file's header and its number of lines are below
2^32, and the whole vectors of a binary file have the header's dimension, since
both readers read so many floats); `SearchdAssumption` and `ToolAssumption` (the dot
product of a file's vector and a query of its dimension is a score).

| theorem | statement | along which invariant |
|---|---|---|
| `SppuHostProofs`: `TypeCorrect`, `BusyHasEngineAlways`, `TreeStatusCorrect` | `TypeOK`, `BusyHasEngine`, `TreeStatusTracksEngine` under any bus traffic | `BusyHasEngine` needs to know what happens at the edge that sets BUSY: the engine takes its start at that same edge because `begins` requires it idle |
| `SppuHostProofs`: `HostTypeCorrect`, `CompletionsKept`, `TreesFresh`, `ResultsFresh` | `HostTypeOK`, `NoLostCompletion`, `FreshTree`, for every mask; `FreshResult` when processes reset first | `SeuInv` goes through a prediction phase by phase (at rest, asked for, at work, finished): `FirstPrediction` says it of the first since a rollback; what SEU_CTRL holds, and that a reset puts the generator to rest, is true of any; the phase decides what may be in SEU_CTRL, the edge detector, the generator and its status, so that no write of the search process or of the handler can move it.  `SearchPhases` (`CtrlInv`, `SearchInv`, `PulseInv`) is the same for a search |
| `SppuHostProofs`: `DriverIsBusMaster`, `StatusUnderDriver` | the device under driver, handler and processes takes the steps of `SppuTop`: they are one of its bus masters, so that `BusyHasEngine` and `TreeStatusTracksEngine` hold under the driver | each register access is one clock with at most one write, and is made only when the write channel is free (`WritesWhenReady`) |
| `SppuComputeProofs`: `DotprodTypeCorrect`, `CountersStayInRange`, `ResultStaysInRange`, `SearchProgresses`, `EngineImplementsHandshake` | the engine, for every VEC_COUNT and DIMENSION | `DotInv`: flags agree with the state register, counters in range, and the best candidate so far is one of the search's vectors, which `ResultInRange` alone does not say before the end |
| `SppuComputeProofs`: `DmaTypeCorrect`, `BeatsAreStored`, `ReaderImplementsHandshake`, `EngineInComposition` | types, `BeatsStored` and the handshake of the reader for every burst size, dimension, memory and delay; the composition restricted to the engine is the engine | `DmaInv`: `FlagsInv` (handshake wires against the state register), `HostInv` (beats owed and received make up the burst), `BurstInv` (position, remainder and buffer of the current burst), `StoredInv` (every word before the position is in memory as the beat received for it, unless it lies in the tree's area or a later one went to its place) |
| `SppuComputeProofs`: `DeviceImplementsTop`, `DeviceSearches`, `DeviceGenerates` | `SppuDevice` implements `SppuTop`, `SppuCompute` and `SeuTree`: `BusyHasEngine` and `TreeStatusTracksEngine`, proved over handshakes, hold over the real machines, and the machines' theorems hold inside the device; what the generator loses there is what collides with, or is stored over by, the reader's writes | `DeviceInv`: each busy flag is up exactly outside its machine's idle state; of the start wires, that the reader gets a start only together with the engine |
| `SeuTreeProofs`: `TreeTypeCorrect`, `StatusIsRight`, `TreeIsInMemory`, `GeneratorImplementsHandshake` | for every SEU_TREE_CONFIG and SEU_DEPTH, the latter changing at any time | `TreeInv`: how far the token buffer is filled in each state, and what the tree area will hold after the write that is on the port (`Written`), from the first entry to the word of flags, all of it outside the words lost to the reader's writes, which may come at any edge |
| `SearchLoopProofs`: `SearchTypeCorrect`, `LoopKeepsBest`, `StartIsAtomicStep` | `StartIsAtomic`, that is the refinement of `SppuDriver`, for every number of vectors and all scores, NaN included | `LoopInv`: the locals are the best match of the vectors seen, and while the lock is held CTRL and STATUS are those of the START that holds it |
| `SppuSessionProofs`: `SessionUsesDriver` | every step of any number of processes is a step of `SppuDriver` or none of the device, with arguments the driver accepts; with `StartIsAtomicStep` the loop under the lock so serves whole sessions | `SessionTypeCorrect` |
| `SppuSessionProofs`: `SessionTypeCorrect`, `AnswerIsOwnWhenSole` | for all databases, queries, batch sizes, dimensions and any history of earlier, failed or killed sessions | `OwnInv`: at each call, what of the device this session has already set (parameters, the loaded part of the bank, target, result); the remains of earlier sessions lie where `DotReadsPrefix` says no score looks |
| `SpecBackendProofs`: `TypeCorrect`, `Predictions`, `Hypotheses` | `TypeOK`, `PredictionIsOwn`, `HypothesesAreOwn` for all depths, offsets, branch counts and poll limits | `PredictInv`: before START the registers, after it the first 16 * depth entries are the request's; `EmulationInv`: in emulation nothing counts entries, so nothing is offered; `EdgeInv`: the START bit is never left set while the SEU is READY, so a START written over READY has its edge; `BuiltInv` carries that through the polling loop, which `PollsInv` bounds |
| `QemuGuestProofs`: `TypeCorrect`, `Leaks`, `Memory`, `HandlerRegisters` | `TypeOK`, `NothingLeaks`, `FileHasMemory`, `RunningHandlerHasRegisters` | `PartsInPlace`: which parts of the character device exist at each step of init, exit and their error labels; `HeldByStep`: the same of the PCI resources for probe and remove; `ModesApart`: what emulation and hardware mode hold is never mixed; `HandlerInv`: a running handler is installed, or remove is waiting for it |
| `SearchClientsProofs`: `SearchClientsInvariant`, `TypeCorrect`, `DaemonCorrect`, `ToolCorrect`, `NamesCorrect`, `BestCorrect`, `LoadersCorrect` | all invariants of `SearchClients`, for any number of children, any files, queries, batch sizes and numbers of results | a batch finds an index none before it has found, so all results differ; then a child's heap, and the tool's list, is an arrangement of a set of results of which none left out is better (`Best`), `PushKeeps` and `AddResultKeeps`; a ranking of such a set has as many results of each score and better as the reference definition counts (`RankingCounts`).  `Batched`: while no batch has failed, none of the vectors searched is above all results |
| `SearchClientsProofs`: `SessionGivesWinner` | the answer that `AnswerIsOwnWhenSole` says a process gets for a batch is the `Winner` that `SearchClients` takes for it | only one index is the best match of a batch (`BestIsUnique`) |

`AnswerIsOwnWhenSole` is stated under `SoleClient` (one process); with two it is
false, as `SppuSession_shared` shows.  `EngineImplementsHandshake`,
`ReaderImplementsHandshake` and `GeneratorImplementsHandshake` are the safety part
of the refinements.

The heap's sift-down and the filter of CSV lines are recursive functions.  What such
a function is at `n` is found without an induction rule over operators: the numbers
up to which it is as claimed are a set that has 0 and the next of each of its
members (`SetInduction`), and that the function exists at all is a lemma of the
same kind (`Iterates`).

Only model-checked: all liveness (`BusySearchCompletes`, `SearchEnds`,
`PredictionEnds`, `CompletionReported` of `SppuHost` and of `QemuGuest`,
`SearchTerminates`, `RequestEnds`, `CycleEnds`, `UnloadEnds` and the fairness of
the handshakes), which the prover does not do.

## 5. What is abstracted, and what was met on the way

- The bus master of `SppuTop` presents address and data together, as
  `fpga/sim/tb_sppu.v` does, and a write takes effect when the driver issues it
  (posted writes are not delayed).
- `SppuDotprod` does not compute: the data path of the source is a stub (the
  accumulator is only ever assigned 0, and vector 0 is published), and the proofs
  about the engine are about its control.
- `SppuDma` counts in words, since `sppu_top` asks for `4 * DIMENSION` bytes.  The
  destination of word `k` is address `4 * k`, because the reader adds bytes to an
  address that `sppu_vecmem.v` takes as a word's (its line 12 puts the target at
  words 0 to 767); a target of more than 192 dimensions so runs over the tree area
  at 0x300.  A transfer longer than the burst buffer reads its first burst again,
  because the source address never moves.  Both are in the model as they are.
  `BeatsStored` says what is then true: every beat the host sent is at its place,
  whichever word of the target it is; it says neither that the target was
  transferred whole nor that it lies where the search engine or a reader of
  `sppu_vecmem.v` looks for it, and neither is so.
- A word of a tree that meets a word of the target at the write port is dropped, and
  the target may be stored over a tree; `done`, SEU_STATUS and the count of entries
  are as if nothing had happened.  `TreeInMemory` excepts the words lost so.
- `sppu_top.v:169` says that the search starts "after DMA completes"; both start at
  the same edge.  `SppuCompute` has it so, and `SppuTop` too.
- `SeuTree` leaves out the data it computes from: the read port, weights, context
  tokens and scores.  `branch_mask` reaches only the scores' seed, and `best_idx`
  and `best_score` are constants of the stub.  The size of a tree is computed from
  the configuration *before* the one being started, in five bits; the model keeps
  this in `entry_count`, and `TreeInMemory` is about the entries the generator decides
  on.  `SeuDriver` has the effect on the driver: on hardware the first build, and any
  after a build with 16 branches, counts 0 entries, and its polling gives up.
- In hardware mode a START over a STATUS that is not READY starts nothing: a
  second search without RESET reads the first one's result, and so does a second
  prediction without rollback.  The daemon and the search tool reset before each
  search, and the process of `SppuHost`'s runs does (`ResetsFirst`), so they do not show a search without.
  `sppu_predict_tree` does not roll back, and `sdk/python/examples/sppu_demo.py:62` and `:80`
  predict twice in a row: in hardware mode the second prediction returns the first
  one's tree, which `sdk/include/sppu.h:88` does not say.  `SppuHost` has such
  predictions, and `FreshTree` excepts them; `PredictionIsOwn` of `SpecBackend` is
  about emulation, and `HypothesesAreOwn` about builds that found the SEU READY.  After ACCEPT the START bit stays set and the next build has no edge.
- Emulation never writes the number of entries of a build, which `sdk/include/sppu.h:124`
  calls "total tree entries written" and the backend polls: in emulation a cycle
  ends by giving up.  `emu_branch_scores` is added to by each build and never
  cleared; scores are not in the model.
- Copies that fault in BUILD_TREE and GET_BRANCHES return with `sppu.lock` held.
  `SeuDriver` has them; `CycleEnds` holds of programs that do not meet a held lock.
- SET_PARAM accepts a VEC_COUNT above SPPU_MAX_VECTORS; `SppuDriver` has the
  arguments the library's callers in the repository pass, which are within it.
- A failing allocation in the driver and a failing `open` are `SkipBatch`; a
  polling wait never times out in emulation, because START has finished before the
  first poll.
- `DriverLifecycle`: the character device exists before the memory of the
  emulation is allocated and, in hardware mode, before a device is bound, so an
  open and an ioctl may come too early, and after an unbind too late (`NoRegisters`
  of `QemuGuest`: the ioctl is lost from there on).  `FileHasMemory` is about a
  loaded module.  After a probe that got no
  vectors `sppu.irq` keeps the number of the device before it.
- `QemuDevice`: the device's BARs 1 and 2 have no callbacks and its PCI id (0x5780)
  is not the driver's (0x5781); in `QemuGuest` it is bound through `new_id`.
  Clearing SEU_DONE does not lower the line: after an interrupt of the SEU alone the
  handler is called again, finds nothing, and the kernel disables the interrupt.
  Clearing COMPLETE lowers it even if SEU_DONE has come since the handler's read,
  which then has no interrupt.  RESET leaves the line as it is.
  `CompletionReported` is about search completions.
- `Searchd`: `/load` changes the child's database only; the next request finds the
  start-up one, and a daemon started without one answers "No database loaded. Use
  POST /load first." for ever (`SearchClients_load`).  Each batch gives
  one candidate, so a second best of a batch is lost; `DaemonAnswersTop` and
  `ToolPrintsTop` are about the batches' bests, `BestComesFirst` about the first
  result, which is the best of the whole file unless a batch failed.  The daemon takes a heading row
  for a zero vector (the tool refuses the file), and its second pass takes a line
  of CR LF alone for a vector, so that the last one is lost; `LoadersAgree` excepts
  such files.  When no vector of a batch is above the floor the index wraps to
  the one before the batch, as 32-bit arithmetic has it; `ResultsNameVectors`
  excepts exactly those.
- Floating point is an ordered set with NaN; rounding is not modelled.

## 6. Not modelled

- `sppu_regs.v`: a master that presents address and data apart, and the read
  channel, which changes nothing but its own handshake.
- `sppu_vecmem.v` read ports, and with them the data of `sppu_dotprod.v` (a stub)
  and the weights and context of `seu_tree.v`.
- Driver, hardware mode: LOAD_VEC and SET_TARGET (copies to BAR 2 outside the
  lock), the three unlocked reads of GET_RESULT (their caller is alone in
  `SppuHost`; whole sessions mix already, `SppuSession_shared`), and
  `sppu_hw_wait_done`, which nothing calls.
- Branch scores, in the driver and the backend.
- QEMU: what a search computes (no guest can give the device vectors) and the
  migration of its state.
- `sppu_search.c` as a generator of random files; the text of HTTP and JSON.
- `sppu_pynq_top.v` (renames ports), `seu_tree_stub.v` (not in the design), the
  Python bindings and client (wrappers of one call each), the stand-alone emulator
  (a straight-line computation), the benchmark (SIMD kernels, timing), test
  benches, demos, build and board files.

Next, in this order: address and data apart in the write channel, refining that of
`SppuTop`; the read ports of vector memory, with which run's weights a tree is
computed from; branch scores.
