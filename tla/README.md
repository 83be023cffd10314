# Verification of the SGLang scheduler, its memory and its decoding algorithms

TLA+ models of an SGLang server: the scheduler of diffusion language models
(dLLMs) and of autoregressive models, the KV memory and prefix cache they share,
the dLLM decoding algorithms, and prefill/decode disaggregation. TLC checks them
on small instances. TLAPS proves for every instance the memory safety of the dLLM
scheduler, its order of admission and its budgets, its safety under flushes, and
what the decoding algorithms promise of their output. Paths below are relative to `src/python/sglang/srt/`.

## The system

A server consists of a tokenizer process, a detokenizer process and one
scheduler process per GPU rank. The scheduler is single threaded: its event
loop (`managers/scheduler.py`) receives requests and commands, picks the next
batch, allocates memory for it, runs the model, and processes the result. With
overlap scheduling it launches the next batch before it processes the last
result.

| Part | State | Operations |
| --- | --- | --- |
| `Scheduler` | queues, last and running batch, `batch_is_full`, `chunked_req`, result queue | arrival, abort, timeout, next batch, idle check, flush, pause, continue, reconfigure |
| `DllmManager` (`dllm/mixin/scheduler.py`) | `waiting_queue`, `staging_queue` | fetch, filter finished, stage |
| `Req` (`managers/schedule_batch.py`) | lengths, prefix, row, committed KV, finish state | prepare, check finished, reset for retraction |
| `PrefillAdder` (`managers/schedule_policy.py`) | remaining tokens in three budgets | admit a prompt, a chunk or a block; preempt |
| KV pools (`mem_cache/`) | free slots or pages, rows | allocate, free, release, clear |
| Prefix cache (`mem_cache/radix_cache.py`) | tree of cached prefixes with locks | match, insert, split, lock, evict |
| Decoding algorithm (`dllm/algorithm/`) | block, step, seeds, parameters | forward, place or accept tokens, return |
| Disaggregation (`disaggregation/`) | queues of two servers, room status, metadata buffers | bootstrap, preallocate, transfer, commit, retract, resume |

**dLLM requests** have their prompt run once and are then extended block by block:
the scheduler appends `block_size` masks, allocates slots for them, runs the
algorithm, appends the tokens it accepts and frees the slots of the others.

**Autoregressive requests** look their prompt up in the prefix cache, have the
rest computed in chunks, and decode one token per step. When the pool is full,
running requests are retracted, and with priorities they may be preempted.

**Disaggregated requests** go to two servers: the prefill server computes the KV
and writes it to pages that the decode server has reserved.

What makes this hard: what a request owns changes between any two batches (partial
acceptance, chunks, duplicates of a prefix another request cached first); a
request is released before it leaves the queues; results arrive for requests that
have ended; admission is decided on budgets, allocation on the pool; commands fall
between batches and see only some queues; two servers give a request up
independently. `PROJECT.json` lists these hazards at their lines.

## Modules

- `DllmScheduler`: the event loop of one scheduler process with dLLM requests.
  Every Python loop over requests is a sequence of steps in queue order, and `pc`
  says where the loop is. Inputs are taken only at `pc = "recv"`, as in the code.
  An exception ends the process: `status` keeps which one.
- `DllmControl`: extends it with `flush_cache` (immediate and deferred),
  `pause_generation` in place and `continue_generation`. `DllmRetract` adds the
  pause with retraction.
- `KvStore`: what the pools promise, as an abstract specification: a request's
  table of slots grows by free slots and shrinks from its end.
- `RadixCache`: the prefix cache and the paged allocator, as operators on one
  record. A node is named by the tokens on the way to its end, so `path`, `lock`
  and the parent relation need no pointers.
- `OrdinaryScheduler`: composes `RadixCache` with the scheduler of autoregressive
  requests, in both event loops. `kv` is what the device memory holds: for each
  slot, the prefix its entry was computed from.
- `Disagg`: both schedulers, the four threads of the Mooncake backend and the
  messages between them. `p` and `d` are the states of the two servers. A metadata
  buffer has two regions, the token and the room: `set_buf` writes, and `send_aux`
  copies, one after the other, with the other actors in between.
- `DllmAlgorithms`: `run()` of LowConfidence, JointThreshold, FastDiffuser,
  LinearSpec and TiDAR, and `reconfigure_dllm`. `blk[r].kv` is the block that the
  KV of a block was computed from, `blk[r].ctx[i]` (history) what FastDiffuser's
  token at `i` was predicted from: the whole block, or under `causal_context`, for a
  token of the final pass, what stands to its left. A setting is an algorithm with
  its block size, `causal_context`, and the requests that `ignore_eos`.
- `DllmSchedulerInv`, `DllmAlgorithmsInv`: the inductive invariants, and the
  refinement mapping to `KvStore`.
- `DllmSchedulerProofs` (types and lifecycle), `DllmKvStepProofs`, `DllmKvProofs`
  (ownership, refinement of `KvStore`), `DllmAdmissionProofs` (order, budgets,
  lengths), `DllmControlProofs` (flushes and pauses), `DllmIterativeProofs`,
  `DllmVerifyProofs`, `DllmAlgorithmsProofs` (decoding algorithms): the proofs.
- `MCDllmScheduler`, `MCDllmControl`, `MCOrdinary`, `MCDisagg`,
  `MCDllmAlgorithms`: small instances for TLC.

Operators whose comment starts with "Mutant" are faulty versions of the
definition that follows them. They are not used by the specifications; they
show that each property fails when the code is wrong.

### Abstractions

dLLM scheduling:

- Token sequences are lengths; token values do not matter to any property.
- A queue is the set of its members; `ticket` orders them. Every queue of the
  code keeps the order of arrival, and a retracted request gets a new ticket.
- The decoding algorithm is the number of tokens each block yields, chosen from
  `AcceptedLens`, and whether a stop token is among them.
- `page_size = 1`, which `server_args.py` sets for the algorithms with partial
  acceptance when the radix cache is on. The tree stays empty, since dLLM requests
  are released with `is_insert=False`.
- Frees are appended to `free_pages` at once. The code groups them until the end
  of the result loop, and nothing allocates in between. `alloc_for_extend` takes
  the requests one by one, in the order of the batch.
- The write to a row is not bounded in the code; the model stops with
  `row_overflow` where it would leave the row.
- The phases STAGING_PREFILL and INCOMING_DECODE are left out: a prepared request
  ends in a block of masks, so it is always STAGING_DECODE.
- The deadline of a deferred flush is a choice: while the scheduler is busy, the
  check may find it passed at any time.

Ordinary scheduling and the prefix cache:

- Which free page is handed out cannot be observed; the lowest is. Evictions are
  possible in every order, which covers all eviction strategies.
- `new_token_ratio` is 0 or 1, chosen in each round.
- Tokens are small numbers; what the model samples is arbitrary, from `OutTokens`.

Disaggregation:

- A room is named by its request; one rank on each side, pages of one token.
- Of a metadata buffer the token and the room are kept; the token is named by the
  request it was computed for. `_transfer_data` may copy the regions in any order.
- A timer may run out early as one of the faults; when the other server has ended
  the request, it is bound to run out.

Algorithms:

- What the model predicts, and with what confidence, is arbitrary. Only the causal
  model of LinearSpec is a function (`Greedy`), which losslessness is about. The
  prompt pass and the verify pass agree with it behind what it would have generated
  itself, and under `causal_context` alone
  (`layers/attention/flashinfer_backend.py:903`, off by default); elsewhere they
  predict anything (`AR`).
- LoRA deltas are those of `lora_mode` `draft_only`, where the prompt and verify
  passes run on the same weights; they then only change drafts, which are arbitrary.
- The scheduler is reduced to what the algorithms meet: any batch of live
  requests, requests that end, are aborted, and come back under the same id.

## Runs

| Run | Checks | Instance |
| --- | --- | --- |
| `ownership` | types, lifecycle, slots and rows owned once, whole prefixes, stable KV, refinement of `KvStore`; prompt budget, no overtaking, bounded output | 2 requests, pool of 8, blocks of 2 yielding 0, 1 or 2 |
| `control` | nothing raises, flushes spare live KV and are answered; requests finish and marked aborts take effect across pauses | `max_running_requests = 1`, fair loop |
| `ordinary` | pages, rows, cache content, locks and sizes; nothing raises; every request answered | 2 requests with a common prefix, 8 pages of 2, chunks of 4, both loops, with and without preemption |
| `disagg` | pages and buffers owned once, no request dropped or answered twice, own token and KV, everyone answered | 2 requests, 5 pages on each side, one fault of any kind, 3 settings |
| `algorithms` | no masks returned, KV and reveal steps agree with the output, losslessness, reconfiguration, TiDAR's slots, termination | 8 settings of 5 algorithms, with and without `causal_context` and `ignore_eos`, blocks of 2 and 3, 2 requests, `max_steps` of 0, 2 and 3 |

Bounds. Two requests are enough for sharing between owners, for a prefix cached by
one and used by the other, and for retraction of one in favour of the other. The
pools are smaller than what the requests would like, so that admission refuses,
truncates and waits, decode retracts, and eviction happens. Blocks of 2 have all
kinds of acceptance: none, partial, whole; FastDiffuser and LinearSpec also get
blocks of 3, where the order of reveals and the place of the first mismatch matter.
FastDiffuser runs with and without `causal_context`, in batches of two with it, where
a request is force-committed beside a finished one. `disagg` has three settings: one
with all kinds of faults and a single metadata buffer on the decode server, one with
outputs that do not fit together, so that requests are retracted while others
transfer, one with a single metadata buffer on the prefill server; one fault at a time
(`MaxFaults`), with the other actors interleaved freely. Requests are not
interchangeable (their prompts and lengths differ), so no symmetry is used.

Deadlock is checked in `ordinary` and `disagg`, where the loops never stop. The
other instances let the process end with an exception, or the requests be done.

Fairness is that of the processes: an event loop keeps iterating, a thread handles
what is in its queue, a deferred flush is checked in each round and its deadline
passes, and in `disagg` timers run out. For the schedulers it is stated by the change
of the program counter or of the queue, which has the same meaning as weak fairness
of the actions and an `ENABLED` that TLC evaluates quickly; for the algorithms it is
weak fairness of the steps of `run()`. Nothing is assumed of
clients or of the model, except that in `control` blocks yield at least one token:
with empty blocks for ever the code promises nothing. `EveryRequestAnswered` of
`ordinary` is for servers without preemption; `preempt_lost` shows why.

### Disagreements found

Seven runs state what a comment, docstring or assertion says and show that the
code does otherwise. `PROJECT.json` has the quotations.

| Run | What happens |
| --- | --- |
| `block_budget` | A block is cut to the remaining tokens, though the algorithms need whole blocks; an exhausted budget falls back to `rem_dllm_tokens`, and allocation fails. The instance yields whole blocks only, as LowConfidence does. |
| `row_width` | The last block of a request at the end of its context is longer than the spare columns of its row. |
| `flush_live` | `is_fully_idle` ignores `DllmManager.waiting_queue`, so a flush clears pools in use. |
| `abort_all` | A request in `DllmManager` that was not in the last batch is not aborted. |
| `retract_rerun` | Retraction does not tell `DllmManager`: the retracted request is in two queues, and fetching it again raises. |
| `preempt_lost` | Preemption releases running requests on an estimate that lacks the prompt; when the new request is then refused and no batch is built, the preempted ones are in no queue. |
| `disagg_retract_deadlock` | A retracted request waits for memory of requests in transfer, which are not polled while it waits. |

Others have no run of their own; the properties named here leave them out, or the
instances do not reach them.

- Memory held by others. Prompts come before blocks, and a round in which no prompt
  fits runs no block either (`dllm/mixin/scheduler.py:359`). With two requests in
  `DllmManager`, one that waits for the memory of the other is never admitted and the
  other never runs again. `control` has `max_running_requests = 1`.
- Idle check. For the reason of `flush_live`, a dLLM server with two requests in
  `DllmManager`, one of whose prompts does not fit, counts as idle: the check
  reports the KV of the other as leaked, and a strict server ends. `control` has
  `max_running_requests = 1`, where this cannot happen (`FlushSafe`,
  `SoleNeverRaises`). A strict server is not safe from `flush_live` either, since a
  flush may come before the idle check.
- Late writes (`KvIsOwnUnlessGivenUp`). The decode server gives a room up on a
  timeout or an abort and frees its pages without telling the prefill server. A
  transfer that is still on its way then overwrites pages that may belong to
  another request.
- Torn metadata (`FirstTokenIsOwnUnlessGivenUp`). `_commit_transfer_to_req` compares
  the room region "to detect context corruption" (`disaggregation/decode.py:1009`) and
  takes the token from another region. The prefill server may abort a request whose
  last chunk is still queued, and reuse its buffer: between the two assignments of
  `set_buf` the buffer holds the token of the new owner and the room of the old one,
  is sent so, and passes the check. On the decode server the same happens with a
  buffer of a room given up, of which a late transfer rewrites the token alone.
- Forced blocks (`KvMatchesUnlessForced`). FastDiffuser force-commits masks after
  its last forward pass (`dllm/algorithm/fastdiffuser.py:723`), so their KV is that
  of masks. `dllm/mixin/scheduler.py:287` says "the model writes correct KV for
  every position during DLLM_EXTEND". It needs `max_steps < block_size` with a
  threshold or the leftmost policy.
- Requests as long as the pool. `max_req_len` accepts a request whose prompt and
  output fill the pool; `add_one_req` needs one page more, refuses it on an empty
  server and sets `batch_is_full`, which nothing resets.
- `decode_thread`. After at least three faults a room may be known again by a late
  failure message without an entry in `required_prefill_response_num_table`, and
  the lookup raises in the thread.
- Forced tokens under `causal_context` (`TrajectoryReplays`). The comment in
  `fastdiffuser.py:726` says that the logits of the final pass "already condition on
  all tokens committed during the denoising loop". With `causal_context`, as in
  `test/registered/dllm/configs/nemotron_fastdiffuser.yaml`, that pass is causal
  (`fastdiffuser.py:712`), and a forced token has not seen those to its right. The
  property states both cases; without the causal one it is violated.
- The seed of LinearSpec (`OutputIsGreedy`). `linear_spec.py:54` says "The seed at
  position 0 is always correct". A request that ignores EOS goes on behind it, though
  its seed was popped (`linear_spec.py:450`): its next block starts with an unverified
  draft. Without `causal_context`, the default, neither the seed nor the verification
  is the causal model's, and in `lora_mode` `both` the first seed comes from other
  weights than the verification. The property is about `causal_context`, up to and
  with the first EOS; without either premise it is violated.
- `reconfigure_dllm` under another algorithm. It reads `selection_policy` and
  `threshold` of whatever algorithm the server runs (`managers/scheduler.py:3342`);
  only FastDiffuser has both, with another the handler raises, and the scheduler
  process ends (`pc = "raised"`).
- `tokens_per_step`. The comment in `fastdiffuser.py:136` says that it overrides
  threshold and schedule; it is used for the leftmost policy only.
- LowConfidence, JointThreshold and the later drafts of TiDAR do not exclude the
  mask token from the predictions and may return it, hence the premise of
  `OutputResolved`.

## Proofs

All are for arbitrary constants that satisfy the named assumptions of
`DllmScheduler` (sizes are natural numbers, blocks and prompts are not empty, a
block yields at most its size) or of `DllmAlgorithms` (block sizes are positive;
`MASK`, `EOS`, words and `None` differ; what the causal model generates does not end
before the output does).

The scheduler:

- `TypeCorrect` and `Lifecycle` (`DllmSchedulerProofs`): `TypeOK /\ LifecycleInv`
  is inductive. The safety properties are not inductive alone: that a block frees
  the right slots depends on what its row held when it was admitted, prepared and
  allocated. `LifecycleInv` says for each control point which requests are at
  rest, settled, admitted or allocated, and what their lengths then are.
  The actions that leave the pools alone come first; the others are reduced to what
  they do to one row.
- `KvOwnership` (`DllmKvProofs`): no slot or row is shared, lost or freed twice.
  Each action is reduced to an allocation (a prefix of `free_pages` moves to the
  end of one row) or a free (distinct committed positions of one request go to
  `free_pages`); `DllmKvStepProofs` shows that each of the two keeps the
  ownership. `FreedOnce`, `SlotsUnshared`, `SlotsComplete` and `RowsUnshared` state
  its conjuncts, the properties of the run `ownership`, one by one; the remaining
  conjunct is that slot 0 stays reserved for padding.
- `BlockPrefix`, `CommittedOutput`, `ProtocolErrorFree` and `KvStable`
  (`DllmKvProofs`): consequences of the two invariants.
- `KvRefinement` (`DllmKvProofs`): the scheduler implements `KvStore`. An
  allocation extends the table of its request, a free shrinks it, and every other
  action stutters.
- `FirstComeFirstServed` (`DllmAdmissionProofs`): no request overtakes an earlier
  one. A request passes two queues, a filter, an admission loop and a batch before
  it has a row, and the order must hold at each: `OrderInv` says that
  `DllmManager` holds the earliest tickets, that within it requests without a row
  are the latest, and that what the loop has admitted is earlier than what it has
  not.
- `PromptBatchesFit`: a batch of prompts never finds the pool empty. `BudgetInv`
  compares the set of the prompt tokens of the batch with the offset of
  `PrefillAdder` during admission and with the free slots during allocation. A sum
  over the batch, as a recursion, would be out of reach; the cardinality of a set of
  pairs is not.
- `OutputsBounded`: an output that goes on is shorter than `max_new_tokens`, and no
  output exceeds it by a block. A request with `max_new_tokens` 0 still generates
  its first block.

Flushes and pauses, with `max_running_requests = 1`, which `DllmConfig`
(`dllm/config.py:79-92`) sets by default for all algorithms but TiDAR. The premise is
needed: `flush_live` violates the property with two requests.

- `OwnershipUnderFlush` (`DllmControlProofs`): a flush at any point between two
  batches shares, loses or frees twice no slot and no row.
- `FlushSafe`: no flush takes the KV of a live request. `is_fully_idle` does not
  look at `DllmManager.waiting_queue`, so the argument is about where a request with
  a row can be: `TurnInv` says that between two batches it is in `staging_queue`,
  because the one request keeps its turn.
- `SoleNeverRaises`: if every request, with its last block, fits into the pool and
  into a row (`RequestsFit`), nothing raises. `SolePoolsInv` computes the free slots
  from the one request that has a row; `WholeBlocksInv` says that blocks are then
  never cut. `row_width` shows, with a single request, that this is needed: the
  code's limit `max_req_len` does not count the last block.

Decoding algorithms (`DllmIterativeProofs`: parameters, control and the iterative
algorithms; `DllmVerifyProofs`: LinearSpec and TiDAR; `DllmAlgorithmsProofs`: the
theorems). The inductive invariant `AlgorithmsInv` says what is known of every block at
every point of `run()`, and `AlgorithmsInvariant` that it holds for all block sizes,
batches, predictions and reconfigurations, with and without `causal_context` and
`ignore_eos`. It has one part for each algorithm with a promise that spans passes,
blocks or batches:

- `ReplayedTrajectory` and `EvenScheduleSuffices` (FastDiffuser) follow from
  `FastInv`: during a pass, tokens have the steps of earlier passes (of this one, for
  the requests already placed), and each was predicted from what its pass attended to
  of the smaller steps (`Replays`); no mask is left behind an EOS, so that
  no masked position is frozen; the last share of the schedule is all that is left.
- `GreedyOutput` (LinearSpec) follows from `SpecInv`, under `causal_context`: the output
  is the causal model's up to and with the first EOS, and until there is one the seed
  is its next token, of the output between blocks, of the output and what is accepted
  during `run()` (`SeedsInv`). Behind an EOS the invariant says nothing of the seed, which
  is where a request that ignores EOS goes on. A seed that an abort leaves behind, and
  a rid that is used again, are covered.
- `ResolvedOutput` and `KvOfOutput` follow from `ResultsInv` and, for the pass that
  JointThreshold may skip, `JointInv`.
- `PreviousRestored` follows from `UndoInv`: the answer to `reconfigure_dllm` holds
  the old value of every attribute the last override set, none if it was refused, and
  the old combination was legal.

TLC has checked each of these invariants on the instances of the runs.

Only model-checked:

- Liveness, which is beyond the prover.
- `SlotsOwnedOnce` of TiDAR: its slots are handed out in slices of a selected
  sequence, and what `SelectSeq` returns is an induction over data.
- `OrdinaryScheduler`, `RadixCache` and `Disagg`: the cache is a tree with
  recursive definitions over paths and evictions, and in `Disagg` pages are handed
  out by sorted sequences; both rest on inductions over data.

## Not modelled

- dLLM scheduling: priority preemption; pages of more than one token, for which
  the frees of partial acceptance are not defined; aborts and timeouts combined with
  retraction.
- Algorithms: logprob and entropy channels, `eos_block_end_only`,
  `emit_full_blocks`, temperature, LoRA weight swaps, the indices of compaction,
  blocks that start with prompt tokens; the growth of `_seed_tokens`; the width of
  a row, which a pass of TiDAR can overrun as `row_width` shows for the scheduler.
- Ordinary scheduling: mixed chunks, sliding-window and mamba pools, speculative
  decoding, pipeline parallelism, prefill-only batches, the LPM and DFS policies,
  the limit on queued requests, pauses, `ignore_eos` budgets, LoRA, hierarchical
  caches.
- Disaggregation: several ranks, pages of more than one token, overlap loops,
  staging buffers, HiSparse, speculative decoding, grammars, a prefix cache on the
  prefill server, batches of several prompts, fake transfers, other backends,
  polling intervals above 1.
- Weight updates; tokenizer, detokenizer, data-parallel controller and gateway
  processes; kernels and models, which are numerical code without protocol state.

`PROJECT.json` gives the reason for each part.

## Plan

1. Proofs: `SlotsOwnedOnce` of `DllmAlgorithms`, with an allocator that hands out
   any free slots; the ownership of metadata buffers in `Disagg`.
2. An abstract prefix map that `RadixCache` implements.
3. Weight updates and the tokenizer's side of pause and abort, with messages
   between the processes.
4. The gateway: worker registry, circuit breakers and retries.
