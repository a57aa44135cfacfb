# Verification of FreeToken-Intel

TLA+ models of FreeToken-Intel: who owns which row, slot, snapshot, lock and
buffer, what a forward reads, what a client receives, and what a start leaves
behind. TLC checks the models on small instances
(`tlc -config MCPrefix.cfg MCPrefix`), TLAPS proves central invariants for every
instance (`tlapm SchedulerProofs.tla`). `PROJECT.json` maps each definition to the
source lines it stands for and lists runs, mutants, findings, hazards and
theorems.

Paths below are relative to `src/python/freetoken/`.

## 1. The system

A server process holds one `Engine`. A route thread encodes a chat to token ids,
calls `Engine.add_request` and then `Engine.generate`, which repeats
`Engine.step` until the scheduler has nothing to run. One step is: ask the
scheduler for a batch, run the model over it (which writes K/V through the page
table and, for an offloaded MoE, streams experts through the slot cache or shares
them with the CPU), sample, commit finished sequences to the prefix cache, hand
the batch back. Tokens go through the detokenizer and the parsers to the client.
A daemon may supervise the server process.

| Component | State | Operations | Module |
| --- | --- | --- | --- |
| Scheduler (`scheduler/`) | free page-table rows, pending queue with at most one split prompt, decode set | `add`, `abort`, `schedule`, `complete` | `Scheduler` |
| Engine and KV pool (`engine/engine.py`, `kvcache/mha_pool.py`) | page table, free slots, `_full_ids`, per-request `Req` | `add_request`, `abort_request`, `step`, `generate` | `EngineKV` |
| Radix prefix cache (`kvcache/radix_cache.py`, `scheduler/cache.py`) | tree with ref counts and timestamps | match, insert, lock, unlock, evict, reset | `RadixTree`, `RadixCache` |
| Hybrid radix cache (`kvcache/hybrid_radix_cache.py`) | a tree with two currencies | match, insert, locks, two evictions | `HybridRadix` |
| Linear-state pool (`kvcache/linear_state_pool.py`) | state slots, snapshots | alloc, free, copy, snapshot, restore | `LinearState` |
| Budget planner (`engine/cache_budget.py`) | sizes of pools and page table | plan, `rebuild_cache` | `CacheBudget` |
| Expert slot cache (`moe/offload_cache.py`) | id and slot maps, `usage`, copy plan, the slots' bytes | `materialize_layer`, `ensure_experts`, `copy_missing`, `rebuild`, `reset` | `OffloadCache` |
| MoE dispatch (`moe/__init__.py`, MoE blocks) | none (per call) | fused, offload, CPU, hybrid | `MoeDispatch` |
| CPU worker (`kernel/csrc/cpu_moe/cpu_moe.cpp`, `kernel/cpu_moe.py`) | one job slot, mutex, three condition variables | submit, wait, exit | `CpuMoeWorker` |
| Bandwidth profile (`moe/benchbw.py`, `moe/bench_profile.py`) | JSON files per card | bench, read at start | `BenchProfile` |
| Models, attention, graphs (`models/`, `attention/`, `engine/graph.py`) | KV buffers, row states, captured graph | forward, capture, replay | `ForwardPass`, `ExpertRouter` |
| Sampler (`engine/sample.py`) | none | `sample` | `Sampler` |
| Server (`server/`) | lazily built engine, shared parsers | routes, `engine_holder`, `stream_chat` | `Serve`, `ResponseStream`, `ToolCalls` |
| Tokenizer (`tokenizer/`) | decode contexts, probed templates | incremental decode, effort | `Detokenizer`, `Effort` |
| Daemon (`daemon/`) | one supervised child under a lock | `start`, `stop`, `status` | `Daemon` |
| Loader (`models/loader.py`, `models/weight.py`) | parameters, expert banks | `load_model`, expert streamers | `ModelLoad`, `ExpertBanks` |
| Kernel builds (`kernel/utils.py`, `kernel/aot.py`) | content-addressed directory | build, load | `KernelCache` |

What is hard here:

* **ownership across components**: a page-table row, a KV slot, a state slot and
  an expert slot each pass through several owners, and the code derives "who
  frees it" from index ranges or set differences;
* **splitting**: a prompt is cut into chunks around which other prompts are passed
  over, admitted or aborted; a tree node is split while handles to it are held;
  text is cut anywhere and has to be put together again;
* **claims before facts**: the maps of the slot cache say "resident" before the
  bytes are copied; a sequence is committed before its last token was forwarded;
  a kernel file exists before it is whole;
* **threads**: routes over one engine and one parser object, the CPU worker behind
  a one-slot handoff, daemon routes behind a lock that is held while waiting,
  processes that compile to the same path;
* **failure half-way**: `add_request` matches, locks, queues, then allocates, and
  two of these can raise; an XPU half that raises leaves a job behind;
* **bounds**: pools sized exactly, budgets computed once in advance.

The `hazards` list of `PROJECT.json` gives these at the line where they bite.

## 2. Modules

Each component has a module of its own, independent of the instances it is
checked with. `*Proofs` modules hold the theorems about it (section 5). `MC*`
modules are suites: they put components that belong together side by side in one
run. A behaviour of a suite draws a *part* from the constant
`Parts` and exercises that component, in one configuration, while the others rest
in an initial state, so the states of the parts add up instead of multiplying.
Configurations of one module (a chunked and an unchunked engine, one and two
route threads) are `INSTANCE`s that share that module's variables. `Stops` lets a
component that has a bounded amount of work end; a component that should never
block is checked for that by a property of its own. Components that interact
through state are composed for real: `EngineKV` and `HybridRadix` work on
`RadixTree` (`LockedTree` is that tree with its locks), `MoeDispatch` leaves threads to `CpuMoeWorker`, and `ExpertBanks`
says what a bank of `ModelLoad` holds.

| Suite | Parts |
| --- | --- |
| `MCScheduler` | `Scheduler` |
| `MCMemory` | `OffloadCache`, `LinearState`, `CacheBudget` |
| `MCPrefix` | `EngineKV`, `RadixCache` (implements `PrefixCache`), `HybridRadix` |
| `MCExperts` | `CpuMoeWorker` (implements `OneSlotExecutor`), `MoeDispatch`, `BenchProfile`, `ExpertRouter` |
| `MCForward` | `ForwardPass`, `Sampler` |
| `MCServing` | `ResponseStream`, `ToolCalls`, `Detokenizer`, `Effort` |
| `MCServices` | `Serve` with one thread and with several, `Daemon`, `KernelCache`, under fairness |
| `MCStartup` | `ModelLoad`, `ExpertBanks`, `KernelCache` with processes that die |

A definition whose comment starts with "A bug:" is a wrong variant of the
definition after it, as a plausible slip would leave it. No specification uses
it; `PROJECT.json` says which property tells the two apart.

### Scheduler

`pendingList`, `runningReqs` and `freeSlots` are `pending_list`, `running_reqs`
and `_free_slots`; the last is a function from rows to *how often* the list holds
the row, so that a double free is visible. `pending[r]` has the `PendingReq`
fields, `req[r]` the `Req` or `ChunkedReq` built last. Lengths stand for token
lists. `add` and `abort` are the scheduler's methods; `begin_pass`, `admit_one`,
`skip_one`, `prefill_batch`, `decode_batch` and `idle_step` are `schedule()`, one
step per entry of the admission loop; `complete(eos)` is the rest of
`Engine.step` with `Scheduler.complete`. `generate` is the start of a call of
`Engine.generate`: it works out the step budget once, from what is queued then
(`counted`), so a request that is added later, or was decoding, shares what was
granted to others. `add` may happen during a forward, as `running_before` is
taken after it; `abort` is called between steps. `kv`, `outcome`, `steps`,
`stepBudget` and `counted` are history variables.

### EngineKV, RadixTree, RadixCache, PrefixCache, HybridRadix

A place in the tree is the sequence of pages that leads to it; a node is named by
the place of its end. `split_at` keeps the old object for the suffix, so this
name never changes and also stands for the node a `RadixCacheHandle` holds. A tie
of timestamps is broken either way, as `heapq` on `__lt__` promises nothing.
Evictions are one step per popped leaf. `PrefixCache` is what a prefix cache
promises: a map from prefixes to slots, with locks; splits, stamps and sizes are
stuttering steps of it.

`EngineKV` drives that tree: `add_request` matches, clamps, locks and takes a row;
the steps of `_allocate_slot` follow (`allocate`, or `begin_evict`, `evict_pop`
..., `allocate`, or `allocate_fails`); `prefill_chunk`, `sample` and `finish` are
`step()` for one request of a batch (requests of a batch touch disjoint slots).
Any token may be sampled, any sampled token may be an EOS. `kv[s]` is history: the
token prefix whose K/V slot `s` holds. `HybridRadix` adds snapshots to the nodes,
with a lock count and an eviction of their own; no engine uses the class yet, so
its caller is taken from its docstrings and tests.

### LinearState, CacheBudget, OffloadCache

A recurrent state is the sequence of tokens folded into it since it was zero, so
a state that was restored twice, or belongs to another request, shows. Three
history variables say what a state is made of: `origin` the state a request
started from or was last restored from, and how often it was; `frozen` the same
for a snapshot when it was taken; `lost` the prefixes whose slot the abort of
their own request gave away. `CacheBudget` has whole numbers of bytes for sizes
and a percentage for a ratio; the arithmetic (floors, caps, reserved pages, the
pinned and the automatic path) is the code's. A request's row may be shorter than
the pages allocated to it (`rows`, `alloc`); `RebuildCache` may find live rows,
and `RebuildRaises` is the pin that is smaller than a layer: the loader passes
over it, `OffloadMoeCache.rebuild` raises on it before it or `rebuild_cache` has
replaced anything. `OffloadCache` has the tensors of `OffloadMoeCache`; `bank[s]` is
whose weights slot `s` really holds; one iteration of the loop over the misses and
one copied row are steps of their own.

### CpuMoeWorker, OneSlotExecutor, MoeDispatch, BenchProfile, ExpertRouter

A section under `mu_` is one step of `CpuMoeWorker`, a notification sent after
the unlock another; a blocked thread moves only when it is notified or wakes
spuriously. `OneSlotExecutor` is the docstring's "backpressure a max_workers=1
executor would apply"; `raised` are the jobs whose forward an exception has left. In `MoeDispatch` a floating-point sum is a sequence of
groups of terms, so that two orders of adding differ. `BenchProfile` opens (and
empties) a file before it writes it and may die in between; each of the two
halves and the overlapped pair may give no number (`Measurements`), and without
either half the format is left out of the profile; cards are exchanged, and the
environment a reader finds (`env`) is part of the state.
`ExpertRouter` replaces logits by positive integer affinities with a denominator
and covers the routers and expert loops of fourteen families.

### ForwardPass, Sampler

A key is where it comes from: layer, request, position. Every architecture is a
list of two layers with an address mode, a mask, a reader and a row state;
`seen` records what each query of the last step was given. Prompts share a
prefix, are cut by a token budget, finish or are aborted, and rows and slots are
used again. `Sampler` has integer masses in place of probabilities; the rows of a
batch ask for a limit on k, on p, on both or on nothing (-1, the default of k).

### Serve, ResponseStream, ToolCalls, Detokenizer, Effort, Daemon

Routes are threads; a step of the engine is two actions around the forward. A
token with its events is one step of `ResponseStream`, and streams interleave on
the one parser object, of which `alone` tells the replies that had it to
themselves. Characters are symbols; a tag has two of them, a tool-call
marker three, enough for every way to cut one. The three steps of `next_id`
(count, append, read the last) are three actions, between which the other streams
run. A token of `Detokenizer` may hold half a character. A chat template is what
its renderings show; `life` counts the processes that probed it, which a tie at
the top of the scale depends on. In `Serve` a build and a forward may fail. `Daemon` has routes as processes, a lock, children that exit,
resist SIGTERM or outlive a wait, clients that give up, and restarts.

### ModelLoad, ExpertBanks, KernelCache

A tensor name is [kind, layer, expert] and its spelling; a checkpoint is a
sequence of shards. `ShipsItsModel` says what it takes that a checkpoint is one of
its architecture: the tensors `load_model` reads without checking that they are there.
`StreamedLayers` are the layers a streamer demands banks of: those behind the
leading dense ones for plain checkpoints, all for packed ones (`packed`: GGUF and
the quantized formats), while the loader numbers the layers with experts.
`ExpertBanks` takes the tensors in shard order through the
streamer of the quantization. In `KernelCache` a file is partial from the start
of a compile to the end of its last writer; a compile may fail, and a compiler may
outlive the process that started it (`outlive`).

## 3. Runs

Nine runs pass.

| Run | Bounds | Shows |
| --- | --- | --- |
| `scheduler` | 3 requests, 2 rows, 2 prompt tokens per step, prompts of 1 and 5, outputs 0 and 2, any cached prefix, pages of 2 | `RowOwnership`; `ChunksAreSound` (one continuation, history written, step and output budgets); `ContinuationAdvances` |
| `scheduler_live` | prompts of 1 and 3, pool budget 4 | `EventuallyFinished` |
| `memory` | pools of 3 and 4 slots for 2 layers of 3 experts; 3 requests with prompts of 1 and 5 tokens in chunks of 2, the opener second, up to 3 sampled tokens, one abort; devices of 8 to 41 bytes, two rebuilds or resizes while requests run | `MapsAgree`, `ResidentBytes`, `GatherReadsRightExpert`, `RoomBeforeEviction`; `StatesAreHistories`; `BudgetIsKept` |
| `prefix` | 3 requests, 2 rows of 5 positions, 13 slots, and 1 row with 6 slots; prompts that share, extend and diverge, 2 locks, 6 clock ticks | `SlotsAreOwned`, `HistoriesStay`, `RadixTreeIsSound`, `HybridTreeIsSound`, `LockedPrefixesStay` |
| `experts` | 3 threads of 2 forwards (2 threads where the XPU half raises); 3 MoE layers of 4 experts, caps -1 to 2; 3 cards, 2 of one name, benches with and without numbers, written where the servers look; 14 routers over 4 experts in 2 groups | `SlotIsMine`, `ResultIsMine`, `BuffersKept`, `NoLostJob`, `WorkerServes`, `ImplementsExecutor`, `DispatchIsReference`, `HybridIsMeasured`, `RoutedSumIsReference` |
| `forward` | 2 or 3 requests in 2 rows of 5, prompts of 2 and 3 sharing 2 tokens, 3 prefill tokens per step; batches of 2 rows over 4 tokens, with k unlimited, 1 or 3 and p from 0 to all | `ReadsOwnHistory`, `AttendsItsWindow`, `NothingIsOverwritten`, `DrawsAreAllowed` |
| `serving` | one reply of 4 tokens, and two of 2 that share a parser, one of which may break off; 5 replies of two streams cut in every way; 5 ids, with half characters; 7 efforts against all templates, one restart | `EventsCarryTheReply`, `CallsAreTheBlocks`, `SentIsTheDecoding`, `EffortIsServed` |
| `services` | 3 clients of one thread and 2 of two, each with a failing build and forward; 3 daemon calls; 2 processes that build a kernel, one edit | `OneThreadServes`, `SupervisorOwnsItsChild`, `EveryCallEnds` |
| `startup` | checkpoints of 2 and 3 layers with 2 experts, dense layers, ties, vision towers and MTP heads, packed or not, complete or not; expert tensors of every quantization cut by shards, behind a dense layer too; 3 threads of 2 processes, one of which may die, and a compile that fails | `ModelIsItsCheckpoint`, `BanksHoldTheirExperts`, `KernelsAreWhole` |

A bundle such as `BudgetIsKept` is the conjunction of named invariants of a
component's module; its comment in the suite states them together, the
component's module one by one.

Why the bounds are enough to meet the interesting cases: five prompt tokens at
two per step give three chunks with an odd one at the end; with three requests
one is split, one decodes and one waits, and two rows make the third wait for a
release. A pool of three slots for three experts is exactly one layer, so every
other call evicts everything. Three prompts with two branching points produce
splits of locked and of unlocked nodes; two locks give a node held twice. 13 KV
slots are one reserved, five per row and one spare per row: what two whole matches
pin. A third thread at the CPU worker makes a submitter wait behind one that
already waits, where a `notify_one` could wake the wrong one; a second forward
per thread reuses its handle. Two affinities tie in some router inputs, and the
best group by its best two differs from the best group by its best one. A prompt of five tokens whose second is
the opener, in chunks of two, is restored from its snapshot before two chunks, so
that the second restore loses what the first chunk folded. A prompt
of three tokens with a window of two leaves one key outside; three prefill
tokens per step cut two prompts in one step. Distributions of four tokens with a k
of 3 or none have a wrapped element that is masked and one that is not. Two characters per tag and four
tokens per reply cut a tag in every place, with text before and behind it. Two
processes and a third thread are enough for a reader that meets a writer while a
second writer waits.

`MaxStep`, `MaxClock`, `MaxLocks`, `MaxForwards`, `MaxAborts`, `MaxRebuilds`,
`MaxRestarts`, `MaxStuck`, `MaxBuildFails`, `MaxForwardFails`, `MaxBenches`,
`MaxChanges`, `MaxCrashes`, `MaxFails`, `MaxBroken`, `MaxIds` and `MaxTokens` bound counters;
each request or call is made once. Symmetry over request identities is used in
safety runs only. Deadlock is checked in every run but the scheduler's, where all
requests may be done; a suite lets a bounded part stop instead.

**Fairness.** In `Scheduler`, weak fairness of `EngineStep`: `Engine.generate` is
a loop that calls `step` while requests are admitted. In `MCServices`, weak
fairness of each route thread of the server and of each thread inside a kernel
load; strong fairness of each daemon route, because it waits for a lock that
others take again and again, which the interpreter's lock grants in the end; weak
fairness of the death of a child that got SIGKILL. In `MCExperts`, weak fairness
of the worker and of every thread inside a forward. Nothing is assumed of
clients, aborts, crashes, edits, exits, new forwards, spurious wakeups, or of
which token is sampled.

**Violations.** Three runs state what a comment says and TLC refutes it:
`prefix_tail` (a committed sequence includes its last token, which has no K/V,
and a follow-up prompt matches it), `serving_order` (the parser swaps what it may
show with what it must hold), `services_mix` (two requests with the uid 0 take
each other's tokens).

## 4. Where the code and its documents part

Further statements of comments, docstrings and tests are written down as
properties of the modules and are not met by the code. Each was refuted by TLC
on an instance of its module of the size used in the suites; they are kept as
definitions, and the suites check what does hold beside them.

| Module, property | What the code does |
| --- | --- |
| `Scheduler`, `DecodeSetFitsPool` | `inflight_tokens` (`scheduler/decode.py:71`) counts what decoding requests have still to write, not what they hold. |
| `OffloadCache`, `DecodeSparesDoubleBuffer` | A decode evicts from all slots, the first 2E included (`moe/offload_cache.py:624`). |
| `EngineKV`, `QueuedHasSlots` | With the default pool a whole match makes `allocate` raise after the request was queued (`engine/engine.py:643`). |
| `EngineKV`, `RejectedCleanly` | A request refused for lack of a row keeps its prefix locked (`engine/engine.py:609`). |
| `EngineKV`, `SlotOwnership` | With pages of more than a token, the partial last page of a committed sequence leaks (`engine/engine.py:1005`). |
| `LinearState`, `StartsFromZero` | Nobody zeroes a state slot that is popped (`engine/engine.py:613`). |
| `LinearState`, `CachedPrefixRestored` | A K/V match that goes past the snapshot restores nothing (`engine/engine.py:625`). |
| `LinearState`, `TokensFoldedOnce` | With chunks the snapshot is restored again before every chunk, and what the last one folded is lost (`engine/engine.py:846`). `RestoreKeepsTokens` of `MCMemory` states it for the run's own instance. |
| `LinearState`, `SnapshotsNotFree` | An abort frees a track slot that is registered as a snapshot (`engine/engine.py:717`). |
| `LinearState`, `SlotsForEveryRow` | Donated slots never come back (`engine/engine.py:1018`). |
| `CacheBudget`, `BudgetKept` | The automatic path ignores the page of slack, and pages are sized as tokens (`engine/engine.py:192`, `engine/cache_budget.py:416`). |
| `CacheBudget`, `LiveRowsOwnSlots` | On the automatic path a rebuild with live rows always remakes the pool with every slot free (`engine/engine.py:1128`). |
| `Serve`, `OneEngine` | Two first requests build two engines (`server/launch.py:286`). |
| `Serve`, `IdleBetweenRequests` | A forward that raises leaves its request running and its row taken (`engine/engine.py:850`); with the server's one row every later request fails. |
| `Serve`, `RowFreedOnce` | Two threads that stepped the same request free its row twice (`engine/engine.py:1032`). |
| `Serve`, `CleanUnavailable` | With `stream=true` the 503 comes after the 200 (`server/openai_api.py:117`). |
| `ResponseStream`, `ThinkTextIsReasoning` | `in_think` is forgotten between tokens (`server/reasoning_parser.py:75`). |
| `ResponseStream`, `OwnTextOnly` | Streams share `_pending`, and a stream that breaks off leaves its text in it (`server/reasoning_parser.py:128`, `server/generation.py:324`). |
| `ResponseStream`, `ThinkingBlockFirst` | Blocks open in the order of the deltas (`server/anthropic_api.py:190`). |
| `ResponseStream`, `NotReadyIsReported` | The error body is bytes, which `json.dumps` refuses (`server/anthropic_api.py:154`). |
| `ToolCalls`, `OneCallPerBlock` | Text before and behind a call is joined and searched again (`server/function_call_parser.py:139`). |
| `ToolCalls`, `IdsInStreamOrder` | Call ids go on from one stream to the next (`server/function_call_parser.py:188`). |
| `ToolCalls`, `IdsAreUnique` | Two threads in `next_id` count the same length and give one id twice (`server/function_call_parser.py:68`). |
| `Detokenizer`, `StreamIsDecode` | Half a character is sent as U+FFFD and never replaced, against the docstring of line 72 (`tokenizer/detokenize.py:107`). |
| `Effort`, `SameRawSameGear` | The default of a tie depends on the hash seed of the process, against the docstring of line 136 (`tokenizer/effort.py:230`). |
| `Daemon`, `NoOrphan` | A daemon that ends leaves its child, and the next may start another (`daemon/__init__.py:84`). |
| `Daemon`, `UnreachableMeansDown` | A client gives up after 5 s while `stop` may hold the lock for 20 (`daemon/client.py:41`). |
| `CpuMoeWorker`, `ForwardsEnd`, `BuffersAlive` | When the XPU half raises nobody waits for the CPU job: the next submit blocks for ever, and the worker uses freed buffers (`models/qwen3_moe/__init__.py:828`). |
| `MoeDispatch`, `RouterWeights` | The hybrid CPU half of qwen3_5_moe is unweighted (`models/qwen3_5_moe/__init__.py:1557`); `WeightsButTheCpuHalf` says that nothing else is. |
| `MoeDispatch`, `SameSum` | The CPU experts are added last; `threads=0` sums per core (`models/qwen3_moe/__init__.py:852`, `moe/cpu_executor.py:90`). |
| `MoeDispatch`, `CpuHalfNotFetched` | A hybrid prefill splits too, and fetches the CPU half (`models/qwen3_moe/__init__.py:576`). |
| `MoeDispatch`, `FetchIsCapped` | A cap of 0 means no cap (`engine/engine.py:133`). |
| `MoeDispatch`, `CpuLayersHonoured`, `OmittedMeansAll` | A layer list is ignored under offload and hybrid, and an omitted one means none (`models/qwen3_moe/__init__.py:454`, `moe/__init__.py:87`). |
| `BenchProfile`, `BenchIsFound` | `--dtype mxfp4` is stored under a key nobody reads (`moe/benchbw.py:485`). |
| `BenchProfile`, `WriterAndReaderAgree` | With the standalone pair reader and writer use different formulas (`moe/bench_profile.py:264`); `FractionIsWrittenIfOverlapped` says how far they part. |
| `BenchProfile`, `HalvesFinishTogether` | The overlapped pair is two equal numbers (`moe/benchbw.py:324`). |
| `BenchProfile`, `ModelIsBenched` | `--model` is not looked at (`moe/benchbw.py:475`). |
| `ForwardPass`, `ReadsOwnHistory` | Four architectures write at token positions and read at slots; the SYCL decode reads layer 0 (`models/glm4_moe/__init__.py:246`, `attention/sycl.py:433`). |
| `ForwardPass`, `RowStateIsOwn` | Row states survive their request with prefix caching (lfm2_moe) and always in qwen4_exp (`models/lfm2_moe/__init__.py:798`, `models/qwen4_exp/__init__.py:1103`). |
| `ForwardPass`, `SinksApplied` | The SYCL backend never reads the sinks (`attention/sycl.py:427`). |
| `ForwardPass`, `AttendsItsWindow` | A replayed graph masks with the length of its capture (`attention/triton.py:236`). |
| `Sampler`, `RowIsItsOwn` | The smallest k and p of the batch truncate every row; the nucleus is measured before renormalising (`engine/sample.py:91`, `:101`, `:105`). |
| `Sampler`, `NucleusReachesItsMass` | Without a limit on k the element that the cyclic shift wraps around is the mass of the least likely token, so the nucleus ends early: of 3, 4, 4, 5 with p = 7 it keeps 5 (`engine/sample.py:105`). |
| `Sampler`, `ZeroPIsArgmax` | `top_p = 0` switches the nucleus off (`engine/sample.py:100`). |
| `ModelLoad`, `NothingIsRandom` | Tied qwen3_5_moe and GGUF checkpoints get no head; nothing checks that a parameter was filled (`models/qwen3_5_moe/__init__.py:267`, `models/loader.py:959`). |
| `ModelLoad`, `CompleteLoads` without `DenseAsStreamed` | Packed checkpoints, GGUF too, with leading dense layers are refused (`models/weight.py:1118`, `:1747`), and plain ones with dense layers behind, as `mlp_only_layers` of qwen2_moe names them (`models/weight.py:497`). |
| `ExpertBanks`, `EitherFormLoads` | A whole layer and single experts in one checkpoint are refused (`models/weight.py:660`). |
| `ExpertBanks`, `EveryMoeLayerLoads` | Quantized streamers demand banks of leading dense layers (`models/weight.py:1125`), against the MoE-layer order of `models/loader.py:471`. |
| `ExpertBanks`, `OneLayerBuffered` | Shards that cut layers buffer more than one (`models/weight.py:1081`). |
| `KernelCache`, `NoPartialModule`, `WarmStaysWarm` | `hello_copy` and the attention kernels compile in place (`kernel/utils.py:189`, `kernel/aot.py:147`). |
| `KernelCache`, `StaleNeverLoaded`, `BuiltWhereChecked` | The key is computed apart from the build it names (`kernel/utils.py:181`, `attention/sycl.py:234`). |
| `KernelCache`, `IcpxIsFound` | `Path.access` does not exist (`kernel/_toolchain.py:66`). |

The docstring of `_resync_slot_for_id` says that clearing `flat_slots[old_id]`
"lands on the wrong row"; lemma `ResyncKeepsMap` shows that it lands on the right
one and that the resync changes nothing.

## 5. Proofs

Assumptions on constants are named in the modules; TLC evaluates them in the
runs. They say that sizes are positive naturals, that requests are finite in
number, that a pool holds at least one layer (the constructor's check).

**`SchedulerProofs`** proves everything the scheduler's runs check except liveness,
for every set of requests and every budget, in three layers.

* `TypeCorrect` and `RowOwnershipHolds`. `RowOwnership` counts owners and is not
  inductive; `IInv` adds *Places* (queue, decode set and batch overlap only as the
  stage allows, the queue has no duplicates, decoding requests can decode, a batch
  has no stopped request), *Pass* (the admission loop splits the visited entries
  into admitted and skipped, the split ones among the admitted) and *RowsInv* (rows
  are free at most once, taken rows have an owner, owners are distinct). The key
  step is `complete`: a stopped request is freed once, through the difference of
  the decode sets or through the scan of the batch, never through both.
* `SplitPromptAdvances`, `OneContinuationHolds`, `HistoryAlwaysWritten` and
  `OutputIsBounded`. To `IInv`, which says where a request is, `CInv` adds how far
  it has got: *Offsets* (the positions written end at `reach`, which differs for a
  fresh prompt, a request built in the step under way, a waiting chunk and a
  decoding request; the last chunk ends exactly at the prompt's end) and *Queue*
  (inside the loop only the entry at index 1 can be a split prompt, and the loop
  meets it with the whole step budget; a prompt is split only by using the budget
  up). So a split prompt is always admissible when the loop reaches it
  (`SkippedIsFresh`: the branch that ends the loop early is never taken), a second
  prompt is never split behind a first, and the one split goes back to the head.
* `ChunksStaySound`, the whole of `ChunksAreSound`. `BInv` adds what is spent:
  *TokensInv* (the chunks of the step sum to what the loop has taken from
  `tokenBudget`), *Stride* (an unfinished prompt has been forwarded in whole step
  budgets, because a split uses the budget up) and *StepsInv* (since the call
  of `generate()`, the steps taken are at most what the requests it counted have spent,
  each at most its own budget). The last holds while the call has the engine to
  itself: nothing was decoding when it began, and nothing is added. A sum is the
  cardinality of a union of sets tagged with the request, so no induction over
  requests is needed: a request that spends one more adds one element. The fact
  behind it is `BatchSpends`: a request of a batch still has a step left, so each
  step is paid for.

**`MemoryProofs`** is about two parts of `MCMemory`. For the expert slot cache it
proves `TypeCorrect`, `MapsAlwaysAgree`, `BytesMatch`, `GatherCorrect` and
`EvictsOnlyWhenFull`. `IInv` adds *Protected* (during a call
the hot slots, those stamped with the current step, hold exactly the experts
dealt with so far), *Timestamps* (a slot is empty exactly when its usage is 0) and
*Plan* (a staged row is the expert its slot was given to, and a slot whose bytes
differ is staged). The argument that the victim is never hot is a pigeonhole
(`ColdSlot`): while a miss is left, the hot slots hold fewer than `NumExperts`
distinct experts, and there are at least `NumExperts` slots, so some slot is cold
and a cold one is the least recently used.

For the recurrent states it proves `StatesAlwaysHistories`, all of
`StatesAreHistories`, for every set of requests and prompts. What the property says
of a state survives a step only together with who may write the slot, so
`StatesInv` adds:

* *SlotsApart*: a slot is once on the free list or one of the three different slots
  of one live request (`ExclusiveSlots` element by element, which the set operators
  of the property hide from the provers);
* *RegisteredApart*: a registered slot is on no free list and nobody's but the first
  track slot of the request that registered it, so neither a forward nor a new owner
  writes behind a snapshot;
* *AnchorsAreOpeners*: a remembered position, and the end of a registered prefix,
  is an opener;
* *Progress*: how far a request has got: past its cached prefix, with a token of its
  prompt left, or with all but the last forwarded while it decodes;
* *OneRestore*: a request that was restored at most once was restored when it had
  forwarded exactly its cached prefix;
* *Folded* and *SnapshotsEnd*: `FoldedExactly` and `SnapshotAtAnchor`, by
  *IsHistory*: a state is an origin's state followed by the tokens behind it.

One lemma per handler keeps the invariant; those about chunks rest on `FoldMore`: folding the
tokens that come next onto such a history gives the history up to them. A restore before each
chunk, which the code does, starts a new origin, so the theorem says for every number of restores
what the state holds, and for at most one that nothing is missing; that nothing is missing after a
second is what the code gets wrong (section 4, `TokensFoldedOnce`). An abort frees the track slots
of its own request, registered or not (section 4, `SnapshotsNotFree`): *RegisteredApart* is about
all prefixes but those in `lost`, and every other snapshot outlives any number of aborts.

**`ExpertsProofs`** proves, for any number of threads and forwards,
`SlotAlwaysMine`, `ResultAlwaysMine`, `NoJobIsLost`, `BuffersStayAlive` and
`DispatchImplementsExecutor`, the refinement of `OneSlotExecutor`, all of them also
where XPU halves raise. The invariants hold only together: a result is the forward's
own because the slot still holds its job, which nobody replaces because it is
occupied until the owner has seen it done. `IInv` adds *Working* (a running
worker works on the job of the slot), *DoneIsFilled* (`done_` says that the rows
are written), *OnlySubmitted* (the worker had none but submitted jobs, so a new
one is new to it) and *Owned* (an occupied slot has an owner, or the job of a
forward that raised, and a forward its buffers). `Quiet` and `QuietInner` treat the steps that leave the slot alone at
once. The refinement maps a submit into the free slot to `Accept`, the end of a
run to `Compute`, the wait that frees the slot to `Collect`, and every other step
to a stutter.

It also proves `HybridIsAlwaysMeasured` for any cards, formats, models, benches and
numbers that they fail to give. The invariant is about the directory: a file is torn or
holds one whole profile a bench can have written on a card of the name it gives, under the
dtype that bench ran; the file of the last bench is its profile unless it was torn. A reader
refuses a torn file and a profile of another name, so what passes it is such a profile. Where
the overlapped pair is missing, the reader's fraction is compared with the writer's:
100p/(p+c) <= 100p/c <= 50, as hybrid was recommended only for c > 2p.

**`RadixTreeProofs`** holds the lemmas about the tree's operations, for every set of
pages, every page size and every tree. `TreeInv` is the shape: the cached pages are
closed under prefixes, and each is on the edge of exactly one node (`Ends`: the
first node at or below it), so where two edges part there is a node.
`CountsHandles` says that a node's `ref_count` is the number of handles whose path
passes it, `SizesAgree` that the two sizes count the tokens of the unlocked and the
locked edges. `split_at`, the walk of a match, insertion, `lock_handle`,
`unlock_handle` and the pop of a leaf (`pruned`, for any set of nodes that is closed
downwards) each keep all three. Prefixes and edges are defined with quantifiers over
paths, not by recursion along them, which is what makes these lemmas provable: a
split only says where an edge is cut.

**`PrefixCacheProofs`** is about the two caches that stand for themselves, which are both
a `LockedTree`: the tree, its locks and their counts. `Matched`, `Inserted`, `Locked`,
`Unlocked` and `Pruned` say once what each operation keeps. For `RadixCache` it proves `RadixCacheIsSound` (types, `TreeWellFormed`,
`RefCountsAreLocks`, `SizeInfoAgrees`, and `EvictNeverStuck`: while something is
evictable there is an unlocked leaf) and `RadixCacheIsPrefixCache`, the refinement of
`PrefixCache`: match and lock map to `Lock` of the longest cached prefix (a split on
the way changes nothing), a commit to `Insert`, a pop to `Evict` of the pages on the
leaf's edge, which no lock covers and nothing extends.

For `HybridRadix` it proves `HybridCacheIsSound` and `LockedPrefixIsKept`. `Inv` is
*TreePart* (the tree with its first count), *SnapPart* (every leaf has a snapshot, a
locked node has one, the second count is the locks that end there), *SizePart* and
*SlotPart* (a state slot is in the pool or under one node). A cascade unlinks a set of
nodes that is closed downwards, since it starts at a leaf and goes up only over
tombstones with no other child, and nothing in it is locked.

**`EngineKVProofs`** proves the engine's bookkeeping in three layers, each under the
weakest hypothesis it holds under.

* `EngineIsSound`, for every behaviour, failed allocations included: types,
  `LocksAreHandles`, `EvictionPossible`, `ReusedPrefixPinned`. The invariant relates
  the tree (*TreeSound*: its handles are those of live and rejected requests), the
  lengths of a request (*LengthsAgree*), the rows (*RowsApart*), the aliased head of
  a row (*HeadsAliased*: it maps to the slots of the handle's pages, which a lock
  keeps) and the stage of `_allocate_slot` (*StageSound*).
* `HistoriesAreIntact`, while no `add_request` fails for want of slots
  (`[][~ allocate_fails]_vars`; section 4, `QueuedHasSlots`, says what happens when one
  does): a queued request has its slots, no slot is in two places, every request reads
  back what was computed for its own tokens.
  `SlotInv` adds *SlotsMapped* (behind its head a row maps to its allocation, in
  order), *SlotsApart*, *TreeContents* and *OwnContents* (`kv` of a slot is the
  history its place says). The hard step is `finish`: the pages given to the tree,
  the slots freed because the tree has them already, and the handle's own pages
  divide the row without overlap.
* `SlotsHaveOneOwner`, with the same hypothesis and `PageSize = 1`: no slot is lost
  either. With larger pages the slots of a request's last, partial page are neither
  given to the tree nor freed (section 4), so the hypothesis is needed. `OwnedInv`
  adds *AllocationsFit* and *NoSlotLost*.

**`PrefixSuiteProofs`** carries these results to the run `prefix`: it instantiates the
proof modules as `MCPrefix` instantiates the modules they are about, shows that the
instances read alike, and proves `RadixTreeStaysSound`, `RadixImplementsPrefixCache`,
`HybridTreeStaysSound`, `LockedPrefixesAreKept`, `HistoriesStayIntact` and
`SlotsStayOwned`, which are what the run checks. The last two assume that no
allocation of its main engine fails (`[][Served]_allVars`), `SlotsStayOwned` also
`PageSize = 1`; the others assume only that the state slots are finite or nothing.

**`ServicesProofs`** proves what the runs `services` and `startup` check of four
components, for any number of routes, clients, processes, restarts and failures.

* `SupervisorAlwaysOwnsItsChild`, for a daemon that is not restarted: at most one child
  lives, the daemon knows it, and a stop that reported success left none. The lock is
  held by exactly the route that is inside the `with` block (*LockIsHeld*); every live
  child is the manager's, and none lives while a start spawns (*ChildIsKnown*); a stop
  waits for the child it took from the manager, which nobody replaces while the lock is
  held (*StopHasItsChild*).
* `OneThreadAlwaysServes`: with one route thread there is one engine, an answer has its
  own tokens and all of them, and a request finds the engine idle until a forward raises;
  from then on every request is turned away. The invariant says where the
  one active route is and what follows for the engine: before the first build there is
  none (*NoneBuilt*), between requests its rows are free and nobody runs, or a forward has
  raised and its row stays taken (*Stuck*), and inside a request what is queued, running
  and free is that request's (*Routed*).
* `KernelsStayWhole`: an installed module is whole, a thread installs its own work, a
  load fails only with its own compiler, and while no process has died no temporary is left
  behind, also by a compile that fails. A compiler that outlives its process writes to the
  temporary that nobody renames any more. A temporary
  has one owner, the thread that compiles it, is complete before it is renamed
  (*HasItsFile*), and its name is not used again (*FilesAreSound*). The action property
  `WarmStaysWarm` follows: no step makes an installed module partial or takes it away.
* `ModelIsAlwaysItsCheckpoint`: what `load_model` returns holds its checkpoint. `ModelInv`
  says what each stage has filled: the parameters whose tensors went by in the dense pass
  (*PassIsSound*), then all dense parameters, tied head included (*DenseIsFilled*), then
  the banks and the experts of every MoE layer (*BanksAreFilled*, *ExpertsAreFilled*). That
  banks and layers are numbered alike follows from `SeenLayers`: banks get past the streamer
  only if the layers with tensors are the ones it demands. So a checkpoint whose dense
  layers are others, such as a packed one with a leading dense layer, is refused and never
  misread. Of a checkpoint it assumes `ShipsItsModel` only, which TLC evaluates on those of
  the run; what becomes of others is in section 4 (`NothingIsRandom`).

Only model-checked: everything about liveness and fairness; what is computed by folds
or recursive operators (`Detokenizer`, `ToolCalls`, `CacheBudget`, `Sampler`,
`ExpertRouter`), which would need induction over data; `ExpertBanks`, whose run checks a
concrete list of sources; and the
components without a proof: `ForwardPass`, `ResponseStream`, `MoeDispatch`, `Effort`.

## 6. Not modelled

* Tensor mathematics: projections, norms, rotary embeddings, GEMMs, softmax,
  dequantisation. `ForwardPass` and `ExpertRouter` say which values they meet.
* File formats: GGUF parsing, FTW containers and their converter, safetensors.
  `ModelLoad` and `ExpertBanks` start from the tensors a file holds.
* The biased MXFP4 layout of gpt-oss experts beyond its streamer.
* The naive prefix cache and the configuration dataclasses: no state.
* Argument parsing, the shell, terminal output, the benchmark client.
* The SYCL, Triton and C++ kernels, except the masks and addresses that
  `ForwardPass` names and the threads of `CpuMoeWorker`.
* A device that fails other than by an exception of a forward, and out-of-memory errors
  outside the planner.
* Of kernel builds: a compiler killed by a signal (its driver removes no output then), and a
  failing `mkstemp` or `os.replace`.

What the abstractions give up: requests of a batch step one at a time in
`EngineKV`; `ForwardPass` has two layers per architecture and one shared prompt
prefix; the sums of `CacheBudget` are small whole numbers, so rounding of real
sizes is not covered; components of a suite meet only where a module composes
them, and otherwise through the inputs each one enumerates.
