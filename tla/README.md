# Verification of the FreeToken expert cache, checkpoints and desktop control plane

TLA+ models, TLC runs and TLAPS proofs for this repository's own code: the
MoE expert cache and executor it adds to llama.cpp
(`src/llama.cpp/freetoken/`), the semantic checkpoints it adds to llama-server
(`src/llama.cpp/tools/server/`), and the desktop host that owns a llama-server
process (`src/desktop/`).

## The system

| Component | Source | State | Operations |
|---|---|---|---|
| Slot table `ggml_moe_cache` | freetoken/src/cache.cpp 15-121, 301-319 | slots (key, status, generation, lease, last use), serial, counters | acquire, acquire_existing, complete_load, release, usable, resident, clear |
| Storage `ggml_moe_cache_storage` | cache.cpp 123-299, 308-324 | device arena, staging buffer, backend stream, one slot table | acquire (chunked transfer), tensor, release, clear |
| Route planning | freetoken/src/moe.cpp 270-347, 445-462 | none (pure) | plan_routes, filter by branch, prioritize_hits |
| Executor `cached_executor` | moe.cpp 404-711, 723-1165 | one cache per weight layout, backends, two retained workspaces, calibration | execute, execute_device, resize, metrics |
| Context hooks, reconfigure | llama.cpp/src/llama-context.cpp | executor of a context | node callback, llama_moe_reconfigure |
| Scheduler hook | ggml/src/ggml-backend.cpp, ggml-cuda.cu | node matcher | graph split, route readback |
| Semantic checkpoints | tools/server/server-context.cpp 1505-1618, 2260-2283, 3093-3607; server-task.cpp 1713-1870 | slot's prompt, bounded list of prompt states, prompt cache, sequence memory | launch, reuse, restore, create, evict, decode, cancel, erase |
| Desktop host `Host::Impl` | desktop/control.cpp | engine state, settings, chats, flags, worker threads, locks | load, unload, chat, cancel, conversation, select, settings, shutdown |
| Child process `Process` | desktop/platform.cpp | child, log thread | start, running, stop |
| Library, core, UI shells, frontend, scripts | desktop/, scripts/ | files, widgets | scan, validate, save, draw |

How they interact. A llama context hands each matched MoE node to the executor.
The executor plans tiles over the routed experts, pins or loads their slots
through the storage, submits graphs that read the slots, and releases the tickets
when the graph has been read back. With `pipeline` the storage copies on a second
backend, so transfers and graphs are unordered; with a CPU share a second host
thread computes some of the misses. The executor keeps its workspaces and caches from call to
call, and calibrates its CPU share against a worker thread. llama-server splits a prompt at
message starts, saves the sequence state there, and restores a saved state when a later prompt shares it. The desktop host starts llama-server, follows
its log on a reader thread, polls `/health` on an engine worker, streams replies on
a chat worker, and answers HTTP requests on a thread pool.

What is hard here:

* asynchronous copies and kernels read their sources and slots after they were
  submitted, on two unordered streams;
* every step of a call can fail or be cancelled, and must give back every pin;
* tickets outlive the slots' contents, and serials are finite;
* graphs kept from call to call name arenas that a selection, a shape change or a resize frees;
* the server's tokens, the memory's cells and the checkpoints are three accounts of one
  prompt, changed at different moments by edits, cancellations, failures and swaps;
* the order of loads decides what is evicted from under a later tile;
* the host's state is written by five kinds of threads under several small locks,
  and the child can die, answer or print at any moment.

`PROJECT.json` lists these hazards with their lines, the properties that cover them
and, where none does, why.

## Modules

| Module | Models | Notes |
|---|---|---|
| `ExpertLru` | the abstract cache | residency, pins and least-recently-used order, no slots or tickets |
| `MoeCache` | the slot table | each call is an action; refused calls are stutters |
| `MoeStorage` | the storage | EXTENDS MoeCache; `Device` runs the oldest queued work |
| `RoutePlan` | route planning | recursive functions on sequences, no RECURSIVE |
| `MoeExecutor` | `execute` | EXTENDS MoeStorage and RoutePlan; scheduler, two streams, CPU worker |
| `MoeRuntime` | `cached_executor` across calls | select, workspaces, execute_device, calibration, resize; experts are held only as resident or not |
| `SemanticCheckpoints` | one slot of llama-server | prompt, memory, checkpoints, prompt cache |
| `DesktopHost` | control plane, process, child | a label per access to shared state |
| `MoeCacheProofs` | theorems on MoeCache, then on MoeStorage | also that MoeCache implements ExpertLru |
| `RoutePlanProofs` | what each stage of planning returns | lemmas only |
| `MCRoutePlanProofs` | theorems on the stages of MCRoutePlan | EXTENDS RoutePlanProofs |
| `MoeExecutorProofs` | theorems on MoeExecutor | EXTENDS MoeCacheProofs and RoutePlanProofs |
| `MoeRuntimeProofs` | theorems on MoeRuntime | |
| `SemanticCheckpointsProofs` | theorems on SemanticCheckpoints | |
| `DesktopHostProofs` | theorems on DesktopHost | |
| `Sums` | the sum of a sequence | used by MoeRuntime and SemanticCheckpoints |
| `Induction` | induction over naturals, recursive functions, sums | lemmas only |
| `MC*` | instances for TLC | |

**MoeCache.** `slots`, `serial` and `stats` are the object's members. `issued` is
history: every ticket ever returned, with its key. `complete_load` and `release`
are tried with all of them, so stale tickets are part of every behaviour.
`acquire` is `Hit` and `Load`, both guarded by `Answer`, the status the code
returns. `MaxSerial` is the counters' numeric limit: the run reaches it.

**MoeStorage.** The bytes of chunk c of expert k are `<<k, c>>`. `load` is the
program counter inside `acquire`: check the abort callback, submit a chunk,
drain, next chunk, finish, or the catch block. A staged copy reads what the
staging buffer holds when the device executes it, not when it was queued.

**MoeExecutor.** `host` is the scheduler thread's position in `execute_ffn`,
`kernel` the graph in flight, `worker` the CPU branch. Outputs are symbolic: a row
is the key whose bytes were in the slot when the graph ran, or `Mixed`. The
compute stream is not ordered with the storage's stream; when `pipeline` is off
this allows nothing extra, because transfers are drained inside acquire. The
CPU share is any count of the misses (`Execute`), which covers every configured
percentage and every calibration result. `Return` leaves a worker that still runs
where it is: that none does is the wait in front of `Rethrow`, and `NothingLeftBehind`.

**MoeRuntime.** The complement of `MoeExecutor`: there the experts of one call, here what
outlives a call. Work in `stream` records which retained objects it refers to
(the expert workspace, the merge workspace, the arena of one layout's caches of one
generation), and freeing an object is a change of its variable. A call is cut into
batches of one resident expert. `execute` drops the merge workspace, `execute_device`
keeps both, and each checks the shared budget at its own moment: a workspace is
counted by its rows. `calibrates` is the two ways to run, because
`supports_device` refuses a CPU share. `worker` and `stop` are the calibration's
thread and flag. A probe may fail before or after its load is counted. Freed slots,
eviction order and bytes are the other modules' concern. `traffic` is history: the
loads that calls made, which the metrics must equal.

**SemanticCheckpoints.** A memory state is the tokens it was computed from and the
first position the sliding-window layers still hold, so that equality of states
stands for equality of numerical state. `prompt` is what the server believes the memory holds:
it grows when the batch is filled, the memory when it is decoded. The window may lose
any cells the newest micro-batch masked, since they are purged when their space is needed.
Saved states leave masked cells out. A state costs one unit per cell, the full
part and the window's. `Launch` is the selection of the slot with the prompt cache
exchange, `StartPrompt` one pass of the prompt branch of `pre_decode` down to the filled batch,
`Fill` the batch and the checkpoint taken in front of it. Copies, restores and decodes may fail.
`staleTail` is history: a checkpoint was restored that differs in its last token from the prompt.

**DesktopHost.** `at[t]` is where thread t stands. `set_engine` is three steps
(store, snapshot, publish) because three different locks are taken one after
the other. Process::stop is two (kill, join of the log thread). Admission of a
chat and of a switch is one step under `chatOperationMutex`; the settings and
selection handlers are split at each unlock. A load reads `generating` and `engine` one after the
other, and is refused late if the settings cannot be written. A request that is refused changes
nothing. The child prints lines, turns healthy, prints that it listens and
exits as it pleases. `running`, `wanted` and `log` are history.

Slips. Each module has a few operators marked as slips before the action they
vary: a dropped wait, a missing guard. They are used by no specification; put in
place of the action next to them, they make TLC report the property named in
`PROJECT.json`, which shows that the property can fail. `Unwind_NoDrain` is a second one for
`NothingLeftBehind`.

## Runs

| Run | Instance | Properties |
|---|---|---|
| cache | 3 experts, 2 slots, serials to 6 | type, OneSlotPerKey, OneTicketPerPin, ClockSound, StatsBalance, StaleForever, PinProtects, refinement of ExpertLru |
| storage | 2 experts, 2 slots, 2 chunks, staging, stream of 2 | ContentIsExpert, NoWorkOnFreeSlot, PendingSourceIntact, LoadEnds |
| routes | 4 experts, up to 4 assignments, capacities 1-3 | EachAssignmentOnce, TilesFit, HitsFirst |
| pipeline | 4 experts, 3 slots, batches of 2, prefetch, staged, 2 calls | NoNeedlessTransfer |
| hybrid | 3 experts, 3 slots, batches of 2, prefetch and CPU worker, unstaged, fair | NoLogicError, OutputsRight, NothingLeftBehind, KernelUndisturbed, CallEnds |
| runtime | 2 layers of 2 layouts, 2 experts, 1 slot each, shapes 1-2, budget 4 rows and a table of 1, 3 calls, fair | GraphReadsSelected, ComputeBudgetHeld, MetricsExact, NothingFreedInUse, RuntimeCallEnds |
| checkpoints | 5 prompts of 3 to 6 tokens, window 2, batch 2, context 7, 2 checkpoints, 3 requests, fair | BudgetsHeld, WindowComplete, NoAbort, ExactButForTail, RequestEnds |
| engine | 2 handlers, load/unload/cancel/shutdown, no chat, 2 requests | SettledWithoutServer, ReadyHasServer, HandlersReturn, ShutdownEnds |
| chat | 2 handlers, 2 models, 2 chats, 3 requests | ThreadsJoined, RepliesFollowQuestions |
| select, edits, exact | 3 requests | one violated statement each |

Bounds. Two slots with three experts force eviction, refusal when full and reuse of
a slot; three slots with three experts add the odd split of `capacity / 2` and a prefetch that
works beside two resident experts. With one slot, where the prefetch finds the cache full, the
hybrid instance was run once by hand (`Capacity = 1`, 330,000 states, no error). In the pipeline
run a fourth expert makes loads and prefetches evict.
The executor without prefetch (2 layers of 3 experts, 2 slots, `Pipeline = FALSE`) was run once by hand with all its safety
properties (247,000 states, no error); the theorems cover both. Six serials allow three loads
or reloads with their releases, enough for a ticket to become stale, its slot to be
reused by another expert and by the same one again, and the serial to run out.
Two chunks are the least that can overwrite each other in staging. With staging each chunk is drained before
the next point of abort, so that copies are still queued when a load fails happens without it only: `QueuedSlotsPinned` and
`CachedBytesRight` prove both cases; the storage instance with `Staged = FALSE` was run once by hand (2,400 states, no
error, and `NoWorkOnFreeSlot` fails when `FailLoad` does not wait). Two calls
show what the first leaves behind for the second. The executor's `MaxSerial`
is larger than two calls can use. Two requests are
enough for an unload during a load and for a shutdown (not counted) during
either; three let a chat and an edit follow a load. `MaxLines` bounds the unread output
of the child: two lines allow one before and one after it turns healthy.

In `MoeRuntime` two layouts and two row counts are the least with which a kept workspace
can be of the wrong cache or shape; the budget holds the largest workspace beside the
table but not beside a merge of two rows, so that both refusals occur; three calls
are a call, a resize or calibration, and a call. In `SemanticCheckpoints` the
prompts branch off one another at every distance from a message start; three requests
are the least that can create a checkpoint, leave its branch, and meet it again; the budgets are below what
two long checkpoints or two cached prompts need, so eviction happens in both.

Fairness. In `MoeStorage`, the device works through its stream and a running
`acquire` proceeds; what the caller does next is unconstrained. In `MoeExecutor`
the scheduler thread, the worker and both streams are weakly fair; cancellation and
failures are never required. In `MoeRuntime` the calling thread, the
worker and the device are. In `SemanticCheckpoints` the server loop runs while a slot is processing, and a
decode succeeds or fails. In `DesktopHost` every thread is weakly fair, including
the ends of the health loop and of a reply, which their own timeouts (5 minutes, read
timeout 300 s) force; nothing is assumed of the clients or of the child. As the five minutes may pass at
any point of the model, `HandlersReturn` and `ShutdownEnds` show that a loop with a deadline lets everyone go; a loop that
missed a cancellation or the child's exit, and ended by its deadline alone, they do not tell apart.
Deadlock checking is off because all systems may rest: no request need come,
serials and requests are bounded, and a caller may keep a pin for ever.

### Statements the code does not keep

* **exact** (`FREETOKEN_GAP_CLOSURE.md:25-29`, "contains exactly the consumed prefix",
  "exact-prefix caching"): when a prompt is edited, checkpoints beyond the common prefix are
  erased by `pos_max > pos_next`, which spares one that ends a single token past it.
  Its last token is of the old branch. Once the prompt has grown over that position, the search
  compares counts and positions, not tokens, and restores it: the memory then holds a token
  the prompt does not have. `ExactButForTail` shows that this is the only way.
* **select** (`desktop/README.md:31`, "Selecting another model disables sending
  until that model is loaded"): a model selected while another loads raises no flag.
  The web frontend reloads after a selection in its own tab; the API does not rely on it.
* **edits** (`desktop/README.md:31`, "Valid settings edits save automatically"):
  an edit between another writer's copy and write-back is lost.

Five more statements were tried on `DesktopHost` and refuted by TLC. No document
states them as strictly, so no run keeps them; the hazards give their lines:

* at rest the last state published (`bus`) is the engine's: two threads in `set_engine` can
  publish in the opposite order of their snapshots.
* `engine = "Loading"` implies that a lifecycle operation or the loader is at work: the line
  "listening on" is printed after `/health` turned 200, and its stage puts
  Loading over Ready. Later loads are then refused until an unload.
* at rest and without a child the engine is not Ready: the chat worker
  stores the state it read before an unload.
* no reload while a reply is generated: `generating` is tested before the chat's
  handler sets it.
* no child after shutdown: a load admitted during shutdown starts one.

## Proofs

Each theorem holds for every value of the constants allowed by the named assumptions of its
module: `KeyAssumption`, `CapacityAssumption`, `SerialAssumption` (a zero key that is no
expert, at least one slot, a last serial), `ChunksAssumption`, `StreamAssumption`,
`LayoutAssumption`, `OptionsAssumption`, `BatchAssumption`, `RoutingAssumption` (a key is a layer and an expert, a launch takes
at least one assignment, the experts are finitely many), `RuntimeAssumption`, `CheckpointsAssumption`, `HostAssumption`. They type the
constants; beyond that, that a micro-batch is no longer than a batch and a prompt shorter than the context, both of
which the code enforces, and that threads have distinct names.

| Module | Theorem | Property |
|---|---|---|
| MoeCacheProofs | TypeCorrect | CacheTypeOK |
| | ExpertsHeldOnce | OneSlotPerKey |
| | ClockNeverRepeats | ClockSound |
| | TicketsExact | OneTicketPerPin |
| | StaleTicketsStayStale | StaleForever (action) |
| | PinsProtect | PinProtects (action) |
| | SlotTableImplementsLru | ImplementsLru (refinement) |
| | CountersBalance | StatsBalance |
| | StorageTypeCorrect | TypeOK |
| | CachedBytesRight | ContentIsExpert |
| | QueuedSlotsPinned | NoWorkOnFreeSlot |
| | StagedBytesKept | PendingSourceIntact |
| | StorageUsesTable | `Spec => CacheSpec` |
| MoeExecutorProofs | CallsComputeRight | OutputsRight |
| | CallsLeaveNothing | NothingLeftBehind |
| | KernelsUndisturbed | KernelUndisturbed |
| | LogicErrorsUnreachable | NoLogicError |
| | TransfersNeeded | NoNeedlessTransfer (action) |
| | ExecutorUsesStorage | `ExecutorSpec => Spec` |
| MCRoutePlanProofs | AssignmentsComputedOnce | EachAssignmentOnce |
| | TilesAlwaysFit | TilesFit |
| | HitsComeFirst | HitsFirst |
| MoeRuntimeProofs | GraphsReadSelected | GraphReadsSelected |
| | BudgetShared | ComputeBudgetHeld |
| | FreesWhenDrained | NothingFreedInUse (action) |
| | MetricsAreExact | MetricsExact |
| SemanticCheckpointsProofs | CkptsTypeCorrect | CkptsTypeOK |
| | BudgetsNeverExceeded | BudgetsHeld |
| | WindowsComplete | WindowComplete |
| | NeverAborts | NoAbort |
| | ExactUntilStaleTail | ExactButForTail |
| DesktopHostProofs | HostTypeCorrect | HostTypeOK |
| | WorkersJoined | ThreadsJoined |
| | RepliesInPlace | RepliesFollowQuestions |
| | SettledIsQuiet, without chats | SettledWithoutServer |
| | ReadyIsServed, without chats | ReadyHasServer |

**MoeCacheProofs.** The inductive invariant is
`CacheTypeOK /\ OneSlotPerKey /\ ClockSound /\ Owned`. `OneSlotPerKey` alone is inductive
because `Load` is taken only when no occupied slot holds the key. That a pinned
slot has one live ticket needs `ClockSound`: leases come from a clock that never
repeats, so two issued tickets with the same lease are the same ticket. It also
needs `Owned`, which says that every pinned slot's (slot, generation, lease, key)
is in `issued`. A ticket's match against a slot is
by generation and lease, so a fresh lease, which is above every issued one, makes
all earlier tickets of the slot stale, for good: this gives `StaleForever`.
`PinProtects` has two halves. That only a completion or a release changes the state of a pinned slot, and nothing its
expert, generation or lease, follows from the guards of `Victim`, `Answer` and `Clear`, action by action; that every
ticket presented in such a step is the slot's own follows from `Checked`, `Owned` and `ClockSound`. `HitSlot` and `LoadSlot` name the slot an action takes; the type proof has a
lemma per action, the other parts a lemma per part with a case per action.

Then comes the refinement. Under the mapping in `MoeCache` (held experts, pins, order of last use) the
initial state is the abstract one, and each action is a step of `ExpertLru` or a stutter.
It adds `Keyed` (an occupied slot's key is an expert): the abstract cache
knows experts only. That the victim is the oldest unpinned expert is where `ClockSound` is used again: last uses
are distinct. The counters follow by the cardinality of a set that gains or loses one slot.

**MoeCacheProofs, the storage.** The device runs behind the host, so nothing can be said of the arena without the
queue. `StorageInv` adds to the table's invariant: the load under way holds the live ticket of the one loading
slot (`LoadOwnsSlot`); a queued copy is part of that load and, out of staging, the last one
submitted, and a queued kernel reads the expert its slot is in use for (`QueueSound`); every chunk sent has
arrived or is queued (`SentArrives`). `ContentIsExpert` at the end of a load is then: all chunks were sent, nothing is
queued, so all have arrived. A step of the storage is a step of the table or leaves it alone
(`StorageUsesTable`), so the table's theorems are used as they stand.

**RoutePlanProofs, MCRoutePlanProofs.** These theorems assume nothing of the constants: they hold for every
set of experts, every number of assignments and every capacity. `Plan` says of tiles what the three stages have in common: they fit the
capacity, each computes exactly those of the assignments that name its experts (`RightTile`: each once, under its
expert's position), and their experts, one tile after another, are all the named ones in rising rank (`InOrder`). As ranks
rise, no expert repeats. The rank of an expert is its first assignment; once hits are known, it is that
among the hits, and past all of theirs for the others (`HitRank`). A lemma per stage shows that it takes a plan to a plan: `PlanRoutesPlans`
by induction over the assignments, whose step (`RouteKeeps`) adds an expert of the highest rank or an assignment to a known one;
`KeepSelectedPlans`, because filters keep order and what holds of each tile; `HitsFirstHas`
and `RetiledPlans`, because a rising sequence is partitioned and then cut into stretches of the capacity.
`PlanInv` is `Plan` at every stage, and each property is a reading of it.

**MoeExecutorProofs.** The inductive invariant has three layers. `ExecInv` is the storage's invariant and an account of the
tickets (`Account`): every lease is the live ticket of a slot in use for its expert, every slot in use is leased
(`Leases`); the tiles are a plan of the GPU's assignments at every step, first in the router's order, then with hits first
(`Planned`, from RoutePlanProofs); which experts are leased at each step of the host, which expert a load under way is for, and
that the experts of a graph in flight stay leased until it is read (`Standing`). `NothingLeftBehind` is a reading of it.
So is `KernelUndisturbed`: a leased slot is in use, hence ready by `ContentIsExpert`, and a queued copy is of the slot that is loading.
The second layer, `Results`, is what has been computed: all rows of the tiles behind the host
and of the batches already read, exactly the batch for a graph in flight, and for the worker every row of an expert it no longer has to do.
With `ExecUndisturbed` the rows of a graph are those of its experts; that the tiles and the CPU's share
cover all assignments (`TilesCover`, from `Plan`) gives `OutputsRight` when the two are merged.
The third, `Transfers`, is what is transferred. The experts resident at the start are leased before the tiles are made
(`HitsPinned`), so the plan in use has exactly them first (`HitsAhead`), and an expert of the tiles to come that is not leased is
neither resident nor loaded already (`Spared`): this gives `NoNeedlessTransfer`. When a miss is awaited, a lease
of a later tile would be a hit behind a miss, which the plan excludes; so only the other experts of this tile are leased
(`LeasedHere`), fewer than there are slots, and one of the slots can be evicted (`MissFindsSlot`, a pigeonhole):
the table never answers "full", and `NoLogicError` follows. A lemma per action for each layer.

**MoeRuntimeProofs.** `RuntimeInv` follows the queue through the steps of a call: at which steps nothing is queued or
nothing that reads the workspace (`StreamByStep`), that a kept workspace is over the selected cache of today
(`WorkspaceCurrent`), and that only a device call works beside a merge workspace (`MergeOfDeviceCalls`),
without which the budget test of `execute`, which counts the workspace alone, would not be enough. A second layer,
`LoadsAccounted`, says at every step what `MetricsExact` says outside a calibration: the loads of all caches, less what
the probes under way have loaded (`Measured`) and what earlier ones did, are the traffic of the calls. It changes
by one layout at a time, so what it needs of the sum is `SumOneChanged`. `Layout` is 1 up to the number of caches because the
code indexes a vector of them.

**SemanticCheckpointsProofs.** `CkptsInv` says that the memory lags behind the prompt by the batch, that every
checkpoint and cached entry is a saved state that holds the window of its position, within both limits,
and, while `staleTail` is false, that each agrees with the prompt it is kept for in all but
possibly its last token (`Agreeing`). That last clause is the strengthening: the filter
`pos_max > pos_next` spares exactly one token, and exactness survives because a restore of such a
checkpoint is what sets `staleTail`. The limits are sums over sequences, by recursive
functions; the first part of the module proves what the filter of checkpoints returns and that no
part of a list weighs more than the whole.

**DesktopHostProofs.** `Control` is the ownership of locks and workers: which points of a handler hold which mutex
(`Exclusive`), and that a handler past its join has an idle worker. From it follow
`ThreadsJoined` and, with `Talking` (while a question is asked or answered it is the last message, and
no other handler can be asking), `RepliesFollowQuestions`. The two engine properties add `Startup`:
under which points of a startup or an unload the child and its log thread are gone. They assume
`"chat" \notin Requests`, which is the scope in which the run checks them: with chats they are false, since the chat worker
writes back a state it read earlier (hazard at control.cpp:677, and the third of the five statements above).

**Induction.** The library's induction theorems take an operator as a parameter and cannot be instantiated here. Over a
set of naturals instead of an operator they can: `Induction` is proved from the well-foundedness of `<`,
and `Recursion` gives, for a start and a step function, the function they define. What `Sum` returns
(`SumRecursion`), and how it changes with one element, follow from it.

What the proof attempts found about the models: the outcomes in `SubmitChunk` were a CASE with overlapping guards
(true together at the last chunk of a staged load, where TLC takes the first), now an IF
chain; sums and filters in `SemanticCheckpoints`, the sum of `MetricsExact` and the plans of `RoutePlan` were folds and
SelectSeq, of which the provers know nothing, and are now recursive functions with the same values.

Only model-checked:

* all liveness (`LoadEnds`, `CallEnds`, `RuntimeCallEnds`, `RequestEnds`, `HandlersReturn`, `ShutdownEnds`): the
  prover has neither fairness nor ENABLED;
* the two engine properties of the host when chats are requested (false, see above).

Neither engine property speaks of Loading, which the late line "listening on" may set over Ready (second of the five statements above),
nor of what a shutdown leaves: `ReadyHasServer` exempts it from the kill on, and takes a child that exited for a child until it is stopped.

## Not modelled

* `llama_moe_reconfigure` and the context hooks: straight-line code around the executor, whose
  failure path is a return.
* How long a calibration measures, and the bandwidths it finds: its result is a free choice of
  the CPU share in `Execute`, its protocol and counters are in `MoeRuntime`. Counters other than loads
  (evictions, bytes, waits) are subtracted by the same code in the same place.
* Host banks, validation of arguments and tensors, CUDA graph captures, timers.
* Numerical results: an output is which expert produced it, a state which tokens.
* The server beyond one slot with semantic checkpoints: several slots, draft models, multimodal
  prompts, LoRA, context shift, chunk reuse, slot files, a failed allocation in the
  prompt cache. Semantic mode supports one sequence and no draft model
  (`FREETOKEN_GAP_CLOSURE.md:29`).
* A selection or a settings edit whose settings.json cannot be written: the memory keeps the edit, the
  request is answered with an error.
* Desktop telemetry, SSE queues, library scan, adding models, bootstrap; the FLTK
  and web user interfaces; scripts; vendored llama.cpp beyond what is named above.
* The joins of `shutdown` and of a handler on one std::thread at the same time, which C++
  leaves undefined, are both waits in the model.

## Plan

Done first: the slot table and its proofs, since every other part rests on
it, then the storage, the plans, the executor and the host; then the executor across calls
and the server's checkpoints.

1. Extend the model: subscribers' bounded queues and the library scan of the desktop host;
   several slots of the server.
2. Prove more: every invariant and every action property that a passing run checks is a theorem, so what is left is to
   find statements worth adding: that a call of the executor is never stuck (a safety half of `CallEnds`, stated with the
   guards of its steps), and an abstract prompt cache that the server's slot implements.

## Running

    tlc -workers 2 -config MCMoeCache.cfg MCMoeCache
    tlapm MoeCacheProofs.tla

and likewise for every other configuration and proof module.

The configurations are named after their module, with the run's name appended where
a module has several.
