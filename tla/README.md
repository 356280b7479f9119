# A TLA+ model of the SGLang server

This directory models the part of `src/python/sglang/srt` that decides who runs
and who owns memory, and the protocols around it: the radix prefix cache and the
page allocator, the hierarchical cache, the scheduler's event loop, the ring of
future tokens of the overlap loop, the way of a request through LoRA registry and
grammar managers, the disaggregated servers, the Halo job admission of this fork,
and the circuit breaker of the gateway. The modules are checked with TLC on small
instances. What holds for every value of the constants is proved with TLAPS where
that was in reach.

## 1. The system

A server is a chain of processes. The *tokenizer manager* takes HTTP requests
and sends them, aborts and pause commands over ZMQ to the *scheduler*, one
process per GPU rank. The scheduler runs batches on the model and sends tokens
to the *detokenizer*. One thread of the scheduler owns the waiting queue, the
running batch, the radix tree and the pools, but the state of a request is spread
over all of them, and in `event_loop_overlap` the result of a batch is processed
only after the next batch has been chosen. With the hierarchical cache, copy
streams and storage threads run beside that thread. With disaggregation, a request
is prefilled on one server and decoded on another. In front of all servers stands
the gateway.

### Inventory

| Part | State | Hard behaviour | Module |
|---|---|---|---|
| Radix cache (`mem_cache/radix_cache.py`) | nodes, `lock_ref`, `evictable_leaves`, sizes | a split under a held node; two requests inserting one prefix; eviction in mid-flight | RadixTree, KVCache |
| Allocator and pools (`allocator.py`, `common.py`) | free pages, rows of `req_to_token` | partial pages, over-allocation by the overlap loop | KVCache |
| Requests and batches (`schedule_batch.py`) | `Req`, `ScheduleBatch` | late results of retracted requests | KVCache, Scheduler |
| Prefill admission (`schedule_policy.py`) | `PrefillAdder` budgets | optimism, chunks without budget, preemption | Scheduler |
| Event loop (`scheduler.py`, `scheduler_output_processor_mixin.py`) | queues and batches, `chunked_req`, `batch_is_full` | overlap, a cached "full" verdict, pauses | Scheduler |
| Runtime checker | none | its equation is an invariant | KVCache |
| Future map (`overlap_utils.py`) | ring of token slots | wrap-around against a batch in flight | FutureMap |
| Hierarchical cache (`hiradix_cache.py`, `cache_controller.py`) | host copies, copies in flight, prefetches | late acknowledgements, eviction under a copy, prefetch ended by either thread | HiCache |
| LoRA registry (`lora/`, `tokenizer_control_mixin.py`) | registry, counters, update lock | lookup before increment, unload while used | LoRARegistry |
| Grammar manager (`constrained/grammar_manager.py`) | queues of futures, caches, on every rank | ranks compile at different speeds; timeout, abort | GrammarManager |
| Both, as a request meets them | | a request that holds an adapter waits for its grammar | RequestPath |
| KV transfer (`disaggregation/`) | queues of both servers, status tables, messages | failed sends, aborts on either side, a dying server | KVTransfer |
| Decode server memory (`disaggregation/decode.py`) | five queues, pool | requests in transfer cannot be retracted | DecodeMemory |
| Halo (`managers/halo/`) | jobs, `rid_to_job`, counts | retraction re-enters the gate; GC under live requests | Halo |
| Circuit breaker (`sgl-model-gateway/.../circuit_breaker.rs`) | four atomics | every access interleaves | CircuitBreaker |

`PROJECT.json` has every part as `components`, with what each model leaves out,
and the hazards with the line where each one bites.

## 2. Modules

```
PageSharing <---- KVCacheSharing <- MCKVCache      LoRARegistry   <--+
 (abstract)           |                            GrammarManager <--+- RequestPath <- MCRequestPath
RadixTree <------ KVCache                          Scheduler      <- MCScheduler
    ^                 ^                            HiCache        <- MCHiCache
RadixTree_proofs <- KVCache_proofs                 KVTransfer     <- MCKVTransfer
FutureMap <- MCFutureMap, FutureMap_proofs         DecodeMemory   <- MCDecodeMemory
Halo      <- MCHalo, Halo_proofs                   CircuitBreaker <- MCCircuitBreaker
```

**RadixTree** is the tree as a value: operators from trees to trees. A node is
the token sequence on its path, so a split adds a node and renames nothing, and
the parent relation is the prefix order. `value` maps every cached page, named by
the prefix it ends, to the page of the pool. `Insert`, `Split`, `inc_lock_ref`,
`dec_lock_ref`, `Evictions` and `DeleteLeaves` are the functions of the same names
or roles. `Evictions` is the set of outcomes of any eviction policy.

**KVCache** composes the tree with the allocator (`free`), the pool's content
(`data`: which tokens' KV a page holds) and the requests. Its actions are the
handlers that move memory: `Arrive`, `MatchPrefix`, `AddOneReq`, `Extend`,
`AddChunkedReq`, `PrefillResult`, `DecodeLaunch`, `DecodeResult`,
`CheckDecodeMem`, `ReleaseReq` (retraction), `AbortWaiting`, `FlushCache`. Which
request goes next is left open: any order the scheduler could choose is covered.

**PageSharing** is what that cache promises, without trees, keys, locks or free
lists: a page is free, cached, or one request's own; requests read cached pages
and write only their own. **KVCacheSharing** has the refinement mapping (the pages
of a row up to `cache_protected_len` are shared, those beyond are own) and the
property `SharesPages`.

**Scheduler** is the loop itself, with memory reduced to token counts. `pc` names
the phase inside one iteration; clients act only in the phase `recv`, where the
code reads its socket.

| Action | Code |
|---|---|
| `Arrive`, `Abort` | `_add_request_to_queue`, `abort_request` |
| `PauseInPlace`, `PauseRetract`, `ContinueGeneration` | `pause_generation`, `continue_generation` |
| `MergeLastBatch` | first half of `get_next_batch_to_run` |
| `SkipPrefill`, `StartPrefill` | early returns of `_get_new_batch_prefill_raw`; the `PrefillAdder` and `add_chunked_req` |
| `StopAtLimit`, `Preempt`, `AddOneReq` | the loop over the queue, `preempt_to_schedule`, `add_one_req` with `budget_state` |
| `NoNewBatch`, `NewBatch` | the two ends of that function, `prepare_for_extend` |
| `UpdateRunningBatch`, `RetractOne`, `RetractEnd` | `update_running_batch`, `retract_decode` |
| `RunBatch` | `run_batch`, `process_batch_result`, the end of the iteration |

`ratio` is `new_token_ratio`. As in the code it changes only when a decode is
launched, when a retraction sets it, and on an idle server, which takes it back to
its initial value; its values are the members of `Ratios`, so the small steps of the
decay may or may not reach the next one, and the estimate of a retraction is any of
them. Prompts share no prefix (KVCache is about sharing), and everything that is cached and unlocked
counts as available, which `EvictableReachable` of KVCache justifies. The victims
of a preemption are any set the scan could end with. Stop conditions other than
the length limit are a free choice of the requests that meet one.

**FutureMap** is one iteration of `event_loop_overlap` per step: merge, launch a
prefill or a decode, process the last result. What the scheduler decides inside is
a free choice. `lost` is the set of requests whose slot was overwritten.

**HiCache** is the `write_through` policy: a node is on the device, on the host or
on both; `writes`, `loads`, `acks`, `backups` are the streams and queues beside the
scheduler thread; a prefetch (`pf`) is advanced by the prefetch thread (`Query`)
and the IO thread (`Transfer`) and ended by whoever is first.

**LoRARegistry** is the asyncio loop of the tokenizer manager as far as adapters go:
a step is what runs between two real waits, `job` is the holder of
`lora_update_lock`. **GrammarManager** is `get_ready_grammar_requests` on all ranks,
cut at the `all_gather` (`Poll`, `Sync`). **RequestPath** composes them: a request
acquires its adapter, is sent to all ranks, waits for its grammar, is answered in
any of the ways the scheduler has, and gives the adapter back.

**KVTransfer** has both schedulers' queues and, between them, the bootstrap thread,
the transfer worker, the status thread and the heartbeat of the Mooncake backend.
The faults of `Faults` happen at any time, at most `MaxFaults` of them.
**DecodeMemory** is the memory side of the decode server: the budget of
`pop_preallocated`, `resume_retracted_reqs`, retraction, in
`event_loop_normal_disagg_decode`.

**Halo** is `HaloController` and `JobRegistry` with the scheduler reduced to the
place of a request. The KV cap, the predictive gate and the SLO gate answer freely
wherever the code asks them. `Tick` is one tick of the controller, `Clock` ages the
jobs.

**CircuitBreaker** makes one step of every access to one atomic; `pc` says which
access a thread does next. Accesses are taken to be sequentially consistent, which
is stronger than the acquire and release orderings of the code.

## 3. What the runs check

| Run | Instance | Shows |
|---|---|---|
| `kv` | 2 requests, 3 two-token pages, overlap loop | tree and lock bookkeeping, one owner per page, KV of the right tokens, the checker's balance; KVCache implements PageSharing |
| `sched_normal` | 3 requests, 11 tokens, normal loop, in-place pause | nobody lost or held twice, the "full" flag never sticks, the allocation behind a prefill never fails, everyone is answered |
| `sched_overlap` | 3 requests, 13 tokens, 2 rows, overlap loop, preemption, retract pause | answered once, rows never exceeded, one chunked request at a time (the assertion at `scheduler.py:3294`), no drop of the last request, aborts final |
| `future` | 4 requests, a batch of 3, 3 prefill passes | no slot is overwritten before it is read, the ring is never lapped |
| `hicache` | 2 requests, 2 device and 2 host pages, storage | no page lost or given out twice, every copy holds its own KV, the tree stays usable, leaf sets exact |
| `request_path` | 3 requests, 2 adapters with room for one, 2 ranks | an adapter in use stays loaded, ranks agree, nobody returned twice, everyone answered |
| `transfer` | 2 rooms, one of 2 chunks, any 2 of 5 kinds of fault | a success comes with the request's own KV and metadata, everyone is answered whatever fails |
| `decode_memory` | 3 requests, 13 tokens, 2 of them run | tokens and rows are never promised twice; everyone is answered except in the stall of section 4 |
| `decode_stall` | the same | **violated**: the stall, see section 4 |
| `decode_oom` | the same | **violated**: out of memory beside the transfer queue, see section 4 |
| `registry` | 2 jobs, 2 rids, all gates, aborts, retraction, GC | indexes agree, live requests tracked, cap kept, retain window |
| `breaker` | 2 threads, thresholds 2 | no count is left at its threshold without its transition; an open circuit half-opens |

Each property of a passing run has a mutant in `PROJECT.json`: a definition with
a plausible slip that TLC then finds.

What the properties leave open: `SuccessIsComplete` exempts a page or buffer that was
last written by a transfer one side had given up (`stray`), and only that page or
buffer; `transfer` has no live prefill server taken for lost (the fault `lost_node`),
because with it `SuccessIsComplete` fails, as section 4 says (`Answered` holds with it
too: `MCKVTransfer_lost.cfg`, 794,236 states); `ResidentWhileUsed` speaks
of requests that name one adapter, not a list; `Answered` of RequestPath assumes
that no count leaks (`CountExact`), since a leaked one blocks an unload for good;
the properties of `hicache` speak of a server that
lives: an eviction that fails the assertion of `_evict_regular` ends the process and is
no step of the model, though the state before it is reached; `Answered` of KVTransfer excuses the requests of a prefill server that died or lost
its transfer worker. Each of these is a deviation listed in section 4.

**Bounds.** Two requests and three or four pages are enough for sharing, a split,
duplicate insertion, eviction of the other's leaf, and a retraction. In
`MCScheduler` requests start short and outgrow the pool together, so optimistic
admission leads to retraction; a prompt of two chunks, an urgent request and a
growing one meet in `sched_overlap`, with as little memory as the longest request may
have (13 tokens). With two-token pages, 16 tokens, its properties hold as well
(1,225,382 states). `MCFutureMap`
lets a request wait while two others are prefilled in three passes each, the worst
case the ring is made for. `MCHiCache` has fewer host pages than keys can fill, so
host eviction meets backups and prefetches, and two device pages for two requests;
with a third device page the same properties hold (240,594 states). `MCRequestPath` has room for one of two
adapters, one of which the backend may refuse; of the two constrained requests both
have the same key, so the caches matter. `MCKVTransfer` has pools for the rooms one
after the other, so pages and buffers are reused while late messages are under way,
and two faults, so a fault can hit the handling of another. With
pools that hold both rooms, so that pages and buffers are in use side by side,
`SuccessIsComplete` holds for any one fault (`MCKVTransfer_both.cfg`, 2,814,127 states). `MCDecodeMemory`
has two requests that cannot both finish in the pool, fewer running requests than
requests, and `pre_alloc_size` twice `max_running_requests`, as the server sets it. Threads of `MCCircuitBreaker` are two;
a counter saturates at its threshold and an age at its timeout, where larger values
do not differ. Pauses are bounded by `MaxPauses`, ages of Halo by `MaxAge`, loads and
unloads by `MaxCalls`, faults by `MaxFaults`. No run sets `DisableFinishedInsert` or
the admission mode `"request"`, and with `Overlap` Scheduler always delays a result
by one batch. `CLIP_MAX_NEW_TOKENS` (4096) is above every bound. Symmetry is used in
`kv`, `future`, `hicache` and `registry`, none of which has a liveness property
(`SharesPages` and `RetainWindow` are safety properties).

**Fairness.**
* `Scheduler!FairSpec`: the loop is a thread that never blocks, hence `WF(Loop)`; a
  paused engine is continued, hence `WF(ContinueGeneration)`. Nothing is assumed of
  clients.
* `RequestPath!Spec`: weak fairness of what the program does of itself (coroutines
  that can go on, answers of the backend, polls, finishing what a scheduler holds).
  Compilers, aborts and calls from outside are not fair: a grammar may never compile.
* `KVTransfer!Spec`: both loops and all threads keep running and every timeout
  expires. Faults need not happen, and a lost node need not be noticed.
* `DecodeMemory!Spec`: the loop runs for ever, and every transfer ends, by its
  timeout if by nothing else.
* `CircuitBreaker!Spec`: a thread finishes the call it is in, time passes, and the
  gateway asks about the worker again and again (`SF` of entering `can_execute`:
  threads are busy with other calls in between).
* `Halo!FairSpec`: `WF(Clock)`, `WF(Tick)`, and `WF(Filter)`: prefill batches do not
  keep the running batch from being updated for ever. Only `MCHalo_leak.cfg` uses it.

## 4. Where the code disagrees with its own words

Two runs show it; `findings` in `PROJECT.json` quotes the lines.

1. `decode_stall` / `Answered`: `process_decode_queue` does not look at the transfer
   queue while the retracted queue is not empty, and the retracted request waits for
   the memory of the transfer queue (`decode.py:1551`).
2. `decode_oom` / `NeverOutOfMemory`: admission counts the longest of the *running*
   requests, so requests admitted before the first of them runs may leave it too
   little. It is aborted for lack of memory while the others are in the transfer queue,
   which is what the comment at `decode.py:709` says is prevented.

The following are not among the runs. Each has a configuration that reproduces it
with TLC (`tlc -config X.cfg MC...`); the passing runs leave out the option that
leads to it, or do not state the property.

| Configuration | Property | What happens |
|---|---|---|
| `MCKVCache_strip` | `PoolBalance` | with `strip_thinking_cache` a request retracted while reasoning has a protected prefix longer than the commit length reported at its release; pages of the tree are freed (`schedule_batch.py:947`, against the balance of `scheduler_runtime_checker_mixin.py:288`) |
| `MCHalo_recall` | `CapRejectJustified` | a retracted request passes the concurrency gate again while still counted, and is refused on its own account (`halo/controller.py:462`; line 459: "reject the call if accepting it would push past that promise") |
| `MCHalo_leak` | `QuiescentReleased` | a request dropped by abort or timeout is never taken out of `request_ids`; its job is never released (`job_registry.py:251`) |
| `MCScheduler_preempt_loss` | `InOnePlace` | victims of a preemption are in no queue if the request they made room for is refused after all (`scheduler.py:3283`; `schedule_policy.py:924`: "the new request can be scheduled") |
| `MCScheduler_page` | `FullMeansBusy` | with pages of several tokens an accepted request can be too large for the budget; it sets `batch_is_full` on an empty batch and nothing is prefilled again (`scheduler.py:3264`) |
| `MCScheduler_pause` | `EventuallyAnswered` | a retract pause right after a prefill batch that finished at once leaves `batch_is_full` set (`scheduler.py:4184`) |
| `MCHiCache_gap` | `BackupContiguous` | a backed-up node below one that is not (`hiradix_cache.py:676`: "backed-up nodes must form a contiguous prefix from root") |
| `MCHiCache_evict` | `EvictsChildless` | while a prefetch is under way a request puts the first part of its key on the device, without a host copy for want of host memory; the prefetch then hangs its rest below that node, which counts as an evictable leaf, and its eviction fails the assertion of `_evict_regular` (`hiradix_cache.py:922`) |
| `MCKVTransfer_revived` | `SuccessIsComplete` | a chunk fails to be sent, a new registration revives the session, and the last chunk, still queued, is sent and reports success; `Failed` is the least status and is raised to `Success` on both sides, so the request runs without the failed chunk (`common/conn.py:195`; `mooncake/conn.py:1316`: "Only sync status when all the dst ranks have received the kvcache") |
| `MCRequestPath_leak` | `CountExact` | a request aborted in the waiting queue never gives its adapter back (`tokenizer_manager.py:2352`), so an unload of it waits for ever |

Seen while modelling, present in the models, without a configuration of their own:
a request that fails after `acquire` keeps its adapter, an abort with status 500
gives it back twice (`tokenizer_manager.py:1267`, `1854`), and for a list of adapters
the increments are tasks of their own (`lora_registry.py:144`); `transition_to` of the
breaker swaps where its comment says "uses CAS", so `ClosesFromHalfOpen` does not hold;
a prefetch that got only part of its host pages is queued with its full key and ends
the IO thread; in the KV transfer an abort or timeout frees pages that are still being written
(the check of the metadata's room catches the first token, nothing the KV), a request
that fails while its prefill server is being looked up stays in `pending_reqs` and leaves
a status entry behind when it is resolved (`decode.py:696`), and a room forgotten between two lookups ends the transfer worker or the status thread.

## 5. What is proved

For all values of the constants, from the assumptions named `PageSizeAssumption`,
`KVCacheAssumption`, `HaloAssumption` and `FutureAssumption`:

* `KVCache_proofs!LockCountsExact`: `lock_ref` of a node is the number of requests
  whose `last_node` lies at or below it. `HeldNodesSurvive`: no eviction deletes
  the node of a request. Neither is inductive: after a split the lock of the
  new parent equals that of the child only because everyone who held the
  child is below the parent, and an eviction spares held nodes only if
  `evictable_leaves` offers no locked node. The inductive invariant is `LockInv`
  (checked by the run `kv`): the tree is well formed (`Shape`), its locks are
  those of the holders (`LockedBy`), and each request has the tokens the next
  handler will use (`Coherent`). `RadixTree_proofs` has one lemma for each
  operator of the tree; `KVCache_proofs` has one lemma for each action.
* `FutureMap_proofs!SlotsStayIntact` and `RingNeverLapped`: for every
  `max_running_requests` and every number of chunks the ring is long enough, as long
  as a request takes part in at most `max_num_chunks + 2` prefill batches
  (`FutureAssumption`; a chunk that is cut short for want of memory can add passes,
  and the assumption is where that enters). `SlotIntact` is not inductive. The
  inductive invariant `IInv` adds an account: the slots handed out since the last
  decode are paid for by the requests in the running batch, `MaxPasses` each
  (`Account`, with `ChunkInv` for the chunked request), and the slots still to be
  read are among the last ones handed out (`Window`).
* `Halo_proofs!RegistryAgrees`: the two indexes of the registry agree and each
  live request is tracked. `CapKept`: a job never has more live requests
  than it declared. The inductive invariant is `HaloInv`: types, agreement, live
  requests mapped, and for each job that its request set is no larger than
  `in_flight_count`, which is at most the cap. The count is an upper bound
  and not exact, because retraction counts a request twice.

Only model-checked: page ownership, content and balance of KVCache and HiCache, the
refinement of PageSharing, all of Scheduler, RequestPath, KVTransfer, DecodeMemory and
CircuitBreaker, and all liveness properties (fairness and ENABLED are outside the
prover's reach, as is induction over recursive definitions).

## 6. Not modelled

* Kernels, model definitions, layers, quantisation, the diffusion runtime, launch
  arguments, HTTP front ends, benchmarks. They are most of the repository's lines:
  numerical or declarative code without state a model checker could explore. The
  modules here stand for a small share of the repository.
* Pipeline parallelism, data-parallel dispatch and the prefill delayer, mixed chunks,
  speculative decoding, sessions, the caches for sliding windows and state-space
  layers, weight updates.
* HiCache: `write_back` and `write_through_selective`, `cache_unfinished_req` on that
  tree, attaching and detaching storage, agreement between ranks, the draft pool.
* KVTransfer: several ranks per side, staging buffers, dummy ranks, the other
  backends, a request whose data-parallel rank is never resolved. DecodeMemory: pages
  of several tokens, a decode radix cache, the overlap loop.
* FutureMap: priority preemption, which takes requests out of the running batch
  during a prefill.
* The gateway apart from the breaker; the cost models of Halo and of the SLO
  admission, whose verdicts are free choices.

## 7. Plan

1. Proofs: `CountersAgree` of the breaker, `ResidentWhileUsed` of the registry,
   `RanksAgree` of the grammar managers, `OneOwner` and the refinement of PageSharing.
2. An abstract queue service (submitted, served, answered) that Scheduler refines.
3. Sessions on KVCache; data-parallel agreement and the prefill delayer.
4. Scheduler and Halo composed, since retraction couples them.
