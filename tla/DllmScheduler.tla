--------------------------- MODULE DllmScheduler ---------------------------
(***************************************************************************)
(* The scheduler process of a diffusion-LLM server: the event loop of      *)
(* managers/scheduler.py with the dLLM batch building of                   *)
(* dllm/mixin/scheduler.py, the admission budget of                        *)
(* managers/schedule_policy.py, and the two memory pools it allocates from *)
(* (mem_cache/allocator.py with page_size = 1, mem_cache/memory_pool.py).  *)
(*                                                                         *)
(* The process is single threaded.  One iteration of event_loop_normal     *)
(* goes through the values of pc below; every Python `for` over requests   *)
(* is a sequence of steps that take the requests of todo in queue order.   *)
(* Inputs (new requests, aborts) are handled only while pc = "recv".       *)
(*                                                                         *)
(* Data abstractions: token sequences are their lengths; a queue is the    *)
(* set of its members and ticket gives their order (the order in which     *)
(* they were appended to Scheduler.waiting_queue, which every later queue  *)
(* preserves); the decoding algorithm is the number of tokens it accepts   *)
(* for each request of a block and whether a stop token is among them.     *)
(***************************************************************************)
EXTENDS Integers, Sequences, FiniteSets

CONSTANTS
    Req,                   \* the requests clients may send
    PromptLen,             \* [Req -> length of origin_input_ids]
    MaxNewTokens,          \* [Req -> sampling_params.max_new_tokens]
    BlockSize,             \* dllm_config.block_size
    MaxRunningRequests,    \* dllm_config.max_running_requests
    MaxMicroBatch,         \* pp_max_micro_batch_size
    MaxPrefillTokens,      \* server_args.max_prefill_tokens
    ClipMaxNewTokens,      \* CLIP_MAX_NEW_TOKENS
    PoolSize,              \* max_total_num_tokens: KV slots 1..PoolSize
    NumRows,               \* rows of req_to_token
    RowWidth,              \* columns of req_to_token: context_len + 4
    AcceptedLens,          \* numbers of tokens a block may yield
    StrictMemCheck         \* SGLANG_ENABLE_STRICT_MEM_CHECK_DURING_IDLE

ASSUME PromptAssumption == PromptLen \in [Req -> Nat \ {0}]
ASSUME MaxNewAssumption == MaxNewTokens \in [Req -> Nat]
ASSUME BlockAssumption == BlockSize \in Nat \ {0}
ASSUME LimitsAssumption ==
    /\ MaxRunningRequests \in Nat \ {0}
    /\ MaxMicroBatch \in Nat \ {0}
    /\ MaxPrefillTokens \in Nat
    /\ ClipMaxNewTokens \in Nat
ASSUME PoolAssumption ==
    PoolSize \in Nat /\ NumRows \in Nat /\ RowWidth \in Nat
ASSUME AcceptedAssumption == AcceptedLens \subseteq 0..BlockSize
ASSUME StrictAssumption == StrictMemCheck \in BOOLEAN

VARIABLES
    waiting_queue,         \* Scheduler.waiting_queue
    active,                \* DllmManager.waiting_queue
    staging_queue,         \* DllmManager.staging_queue
    ticket, tickets,       \* order of arrival, and how many were given out
    batch,                 \* last_batch; at recv it is also cur_batch
    batch_is_full,         \* running_batch.batch_is_full
    \* the fields of the Req objects
    dllm_phase,            \* what the request waits for
    fill_len, prefix_len,  \* lengths of fill_ids and prefix_indices
    extend_input_len,
    output_len,            \* length of output_ids
    to_finish, finished_reason,
    kv_committed_len, req_pool_idx,
    free_pages,            \* TokenToKVPoolAllocator.free_pages
    free_slots,            \* ReqToTokenPool.free_slots
    req_to_token,          \* ReqToTokenPool.req_to_token
    pc, todo,              \* where the loop is, requests still to visit
    can_run_list, adder,   \* PrefillAdder
    status                 \* "ok", or the exception that ended the process

queues == <<waiting_queue, active, staging_queue, ticket, tickets>>
inputs == <<dllm_phase, fill_len, prefix_len, extend_input_len>>
results == <<output_len, to_finish, finished_reason>>
kv == <<kv_committed_len, req_pool_idx>>
pools == <<free_pages, free_slots, req_to_token>>
control == <<pc, todo, can_run_list, adder, status>>
reqs == <<inputs, results, kv>>
vars == <<queues, batch, batch_is_full, reqs, pools, control>>

Slots == 1..PoolSize
AnySlot == 0..PoolSize      \* with slot 0, which takes the writes of padding
Rows == 0..(NumRows - 1)
NoRow == -1
Positions == 0..(RowWidth - 1)

Phases == {"INCOMING_PREFILL", "STAGING_DECODE"}
Finish == {"no", "abort", "length", "stop"}
PCs == {"recv", "prepare", "fetch", "prefill", "decode", "alloc", "forward",
        "process", "idle"}
Errors == {"out_of_memory", "no_row", "row_overflow", "partial_block",
           "redundant", "already_freed", "leak"}

NoBatch == [mode |-> "NONE", reqs |-> {}]
NoAdder == [rem_total_token_offset |-> 0, rem_input_tokens |-> 0,
            rem_dllm_tokens |-> 0]
NewAdder == [rem_total_token_offset |-> 0,
             rem_input_tokens |-> MaxPrefillTokens,
             rem_dllm_tokens |-> MaxRunningRequests * BlockSize]

MinOf(a, b) == IF a < b THEN a ELSE b
MaxOf(a, b) == IF a > b THEN a ELSE b

FirstAnyOrder(r, S) == r \in S  \* mutant: the queue order is lost

\* r is the first request of S in queue order.
First(r, S) == r \in S /\ \A q \in S : ticket[r] <= ticket[q]

Finished(r) == finished_reason[r] # "no"
HasRow(r) == req_pool_idx[r] # NoRow
Arrived(r) == ticket[r] > 0
Phase(p) == {r \in active : dllm_phase[r] = p}

\* Mutant: the slice includes its end.
RowSliceInclusive(r, a, b) ==
    [i \in 1..(b - a + 1) |-> req_to_token[req_pool_idx[r]][a + i - 1]]

\* req_to_token[req_pool_idx, a:b]
RowSlice(r, a, b) ==
    [i \in 1..(b - a) |-> req_to_token[req_pool_idx[r]][a + i - 1]]

Init ==
    /\ waiting_queue = {} /\ active = {} /\ staging_queue = {}
    /\ ticket = [r \in Req |-> 0] /\ tickets = 0
    /\ batch = NoBatch /\ batch_is_full = FALSE
    /\ dllm_phase = [r \in Req |-> "INCOMING_PREFILL"]
    /\ fill_len = [r \in Req |-> 0] /\ prefix_len = [r \in Req |-> 0]
    /\ extend_input_len = [r \in Req |-> 0]
    /\ output_len = [r \in Req |-> 0]
    /\ to_finish = [r \in Req |-> FALSE]
    /\ finished_reason = [r \in Req |-> "no"]
    /\ kv_committed_len = [r \in Req |-> 0]
    /\ req_pool_idx = [r \in Req |-> NoRow]
    /\ free_pages = [i \in 1..PoolSize |-> i]
    /\ free_slots = [i \in 1..NumRows |-> i - 1]
    /\ req_to_token = [w \in Rows |-> [p \in Positions |-> 0]]
    /\ pc = "recv" /\ todo = {} /\ can_run_list = {} /\ adder = NoAdder
    /\ status = "ok"

At(p) == pc = p /\ status = "ok"

\* An exception of the loop body ends the scheduler process.
Raise(e) ==
    /\ status' = e
    /\ UNCHANGED <<queues, batch, batch_is_full, reqs, pools, pc, todo,
                   can_run_list, adder>>

-----------------------------------------------------------------------------
(* Inputs, handled by process_input_requests. *)

\* handle_generate_request and _add_request_to_queue.
AddRequest(r) ==
    /\ At("recv") /\ ~Arrived(r)
    /\ waiting_queue' = waiting_queue \cup {r}
    /\ tickets' = tickets + 1
    /\ ticket' = [ticket EXCEPT ![r] = tickets + 1]
    /\ UNCHANGED <<active, staging_queue, batch, batch_is_full, reqs, pools,
                   control>>

\* Requests of R that are still queued are dropped, those of the last batch are
\* marked; a request that is in neither is not touched.
AbortRequest(R) ==
    /\ At("recv")
    /\ waiting_queue' = waiting_queue \ R
    /\ finished_reason' = [r \in Req |->
                             IF r \in R \cap waiting_queue
                               THEN "abort" ELSE finished_reason[r]]
    /\ to_finish' = [r \in Req |->
                       \/ to_finish[r]
                       \/ r \in R \cap batch.reqs /\ ~Finished(r)]
    /\ UNCHANGED <<active, staging_queue, ticket, tickets, batch,
                   batch_is_full, inputs, output_len, kv, pools, control>>

\* _abort_on_waiting_timeout: only Scheduler.waiting_queue is looked at.
WaitingTimeout(r) ==
    /\ At("recv") /\ r \in waiting_queue
    /\ waiting_queue' = waiting_queue \ {r}
    /\ finished_reason' = [finished_reason EXCEPT ![r] = "abort"]
    /\ UNCHANGED <<active, staging_queue, ticket, tickets, batch,
                   batch_is_full, inputs, output_len, to_finish, kv, pools,
                   control>>

-----------------------------------------------------------------------------
(* get_next_batch_to_run *)

\* Mutant: the staging queue filters both lists.
UnfinishedStaged(S) == {r \in S \cap staging_queue : ~Finished(r)}

\* filter_finished_reqs
Unfinished(S) == {r \in S : ~Finished(r)}

\* Drop finished requests, take the whole last batch out of the merge, decide
\* whether there is anything to schedule.
GetNextBatch ==
    /\ At("recv")
    /\ active' = Unfinished(active)
    /\ staging_queue' = Unfinished(staging_queue)
    /\ batch' = NoBatch
    /\ batch_is_full' = IF batch.reqs # {} THEN FALSE ELSE batch_is_full
    /\ IF (batch_is_full' \/ waiting_queue = {}) /\ active' = {}
         THEN pc' = "idle" /\ todo' = {}
         ELSE pc' = "prepare" /\ todo' = staging_queue'
    /\ UNCHANGED <<waiting_queue, ticket, tickets, reqs, pools, can_run_list,
                   adder, status>>

NextPrefixStale(r) == prefix_len[r]  \* mutant: the new KV is not looked at

\* The prefix of the next block: the committed KV of the request's row.
NextPrefix(r) ==
    IF HasRow(r) /\ kv_committed_len[r] > 0 THEN kv_committed_len[r]
    ELSE prefix_len[r]

\* _prepare_staging_reqs: a fresh block of masks behind the output.
PrepareStagingReq(r) ==
    /\ At("prepare") /\ First(r, todo)
    /\ LET fill == PromptLen[r] + output_len[r] + BlockSize
       IN /\ fill_len' = [fill_len EXCEPT ![r] = fill]
          /\ prefix_len' = [prefix_len EXCEPT ![r] = NextPrefix(r)]
          /\ extend_input_len' =
               [extend_input_len EXCEPT ![r] = fill - NextPrefix(r)]
    /\ dllm_phase' = [dllm_phase EXCEPT ![r] = "STAGING_DECODE"]
    /\ todo' = todo \ {r}
    /\ UNCHANGED <<queues, batch, batch_is_full, results, kv, pools, pc,
                   can_run_list, adder, status>>

PrepareDone ==
    /\ At("prepare") /\ todo = {}
    /\ staging_queue' = {}
    /\ pc' = "fetch"
    /\ UNCHANGED <<waiting_queue, active, ticket, tickets, batch,
                   batch_is_full, reqs, pools, todo, can_run_list, adder,
                   status>>

\* max_dllm_capacity
Capacity == MaxRunningRequests - Cardinality(active)

\* Mutant: the requests stay in Scheduler.waiting_queue.
FetchKeepsQueued(r) ==
    /\ At("fetch") /\ Capacity > 0
    /\ First(r, waiting_queue)
    /\ IF r \in active
         THEN Raise("redundant")
         ELSE /\ active' = active \cup {r}
              /\ UNCHANGED <<waiting_queue, staging_queue, ticket, tickets,
                             batch, batch_is_full, reqs, pools, control>>

\* _fetch_waiting_reqs
FetchWaitingReq(r) ==
    /\ At("fetch") /\ Capacity > 0
    /\ First(r, waiting_queue)
    /\ IF r \in active
         THEN Raise("redundant")
         ELSE /\ active' = active \cup {r}
              /\ waiting_queue' = waiting_queue \ {r}
              /\ UNCHANGED <<staging_queue, ticket, tickets, batch,
                             batch_is_full, reqs, pools, control>>

\* _process_dllm_batches: prompts first, blocks only when no prompt is left.
FetchDone ==
    /\ At("fetch")
    /\ Capacity <= 0 \/ waiting_queue = {}
    /\ IF Phase("INCOMING_PREFILL") # {}
         THEN /\ pc' = "prefill"
              /\ todo' = Phase("INCOMING_PREFILL")
              /\ batch' = [mode |-> "EXTEND", reqs |-> {}]
         ELSE /\ pc' = "decode"
              /\ todo' = Phase("STAGING_DECODE")
              /\ batch' = [mode |-> "DLLM_EXTEND", reqs |-> {}]
    /\ adder' = NewAdder
    /\ UNCHANGED <<queues, batch_is_full, reqs, pools, can_run_list, status>>

-----------------------------------------------------------------------------
(* PrefillAdder.  The radix tree stays empty (a dLLM request is never       *)
(* inserted), so the evictable size is 0 and the pool's free slots are all  *)
(* that is available.                                                       *)

\* Mutant: the whole pool counts, not what is free of it.
RemTotalOfPool == PoolSize - adder.rem_total_token_offset

RemTotalTokens == Len(free_pages) - adder.rem_total_token_offset

\* Mutant: the offset goes the wrong way.
BudgetRefunded(extend, max_new) ==
    adder' = [rem_total_token_offset |->
                adder.rem_total_token_offset - (extend + max_new + 1),
              rem_input_tokens |-> adder.rem_input_tokens - extend,
              rem_dllm_tokens |-> adder.rem_dllm_tokens - extend]

\* _update_prefill_budget with page_size = 1
UpdatePrefillBudget(extend, max_new) ==
    adder' = [rem_total_token_offset |->
                adder.rem_total_token_offset + extend + max_new + 1,
              rem_input_tokens |-> adder.rem_input_tokens - extend,
              rem_dllm_tokens |-> adder.rem_dllm_tokens - extend]

\* The verdict of add_dllm_prompt_cache_req.
PromptResult(r) ==
    LET reserve == MinOf(MaxOf(MaxNewTokens[r] - output_len[r], 0),
                         ClipMaxNewTokens)
    IN IF PromptLen[r] + reserve >= RemTotalTokens THEN "NO_TOKEN"
       ELSE IF PromptLen[r] >= adder.rem_input_tokens /\ can_run_list # {}
              THEN "OTHER" ELSE "CONTINUE"

\* _process_incoming_prefill_reqs for one request.
AdmitPrefill(r) ==
    LET full == batch_is_full \/ Cardinality(can_run_list) >= MaxMicroBatch
    IN /\ At("prefill") /\ First(r, todo)
       /\ IF full
            THEN UNCHANGED inputs
            ELSE /\ fill_len' = [fill_len EXCEPT ![r] = PromptLen[r]]
                 /\ prefix_len' = [prefix_len EXCEPT ![r] = 0]
                 /\ extend_input_len' =
                      [extend_input_len EXCEPT ![r] = PromptLen[r]]
                 /\ UNCHANGED dllm_phase
       /\ batch_is_full' = (full \/ PromptResult(r) = "NO_TOKEN")
       /\ IF full \/ PromptResult(r) # "CONTINUE"
            THEN todo' = {} /\ UNCHANGED <<can_run_list, adder>>
            ELSE /\ todo' = todo \ {r}
                 /\ can_run_list' = can_run_list \cup {r}
                 /\ UpdatePrefillBudget(PromptLen[r],
                       MinOf(MaxNewTokens[r], ClipMaxNewTokens))
       /\ UNCHANGED <<queues, batch, results, kv, pools, pc, status>>

\* _get_dllm_remain_tokens
DllmRemainTokens(a) ==
    LET rem == MinOf(MinOf(a.rem_dllm_tokens, BlockSize),
                     Len(free_pages) - a.rem_total_token_offset)
    IN IF rem <= 0 THEN a.rem_dllm_tokens ELSE rem

\* process_dllm_staging_reqs and add_dllm_staging_req for one request.
AdmitDecode(r) ==
    LET rem == DllmRemainTokens(adder)
        truncated == extend_input_len[r] > rem
        extend == MinOf(extend_input_len[r], rem)
    IN /\ At("decode") /\ First(r, todo)
       /\ IF rem <= 0
            THEN todo' = {} /\ UNCHANGED <<inputs, can_run_list, adder>>
            ELSE /\ extend_input_len' = [extend_input_len EXCEPT ![r] = extend]
                 /\ fill_len' = [fill_len EXCEPT ![r] = prefix_len[r] + extend]
                 /\ UNCHANGED <<dllm_phase, prefix_len>>
                 /\ can_run_list' = can_run_list \cup {r}
                 /\ UpdatePrefillBudget(extend,
                       IF truncated THEN 0
                       ELSE MinOf(MaxNewTokens[r], ClipMaxNewTokens))
                 /\ todo' = IF DllmRemainTokens(adder') <= 0 THEN {}
                            ELSE todo \ {r}
       /\ UNCHANGED <<queues, batch, batch_is_full, results, kv, pools, pc,
                      status>>

\* _update_state_for_batch; an empty can_run_list means there is no batch.
AdmitDone ==
    /\ At("prefill") \/ At("decode")
    /\ todo = {}
    /\ staging_queue' = can_run_list
    /\ todo' = can_run_list
    /\ IF can_run_list = {}
         THEN pc' = "idle" /\ batch' = NoBatch
         ELSE pc' = "alloc" /\ batch' = [batch EXCEPT !.reqs = can_run_list]
    /\ can_run_list' = {} /\ adder' = NoAdder
    /\ UNCHANGED <<waiting_queue, active, ticket, tickets, batch_is_full, reqs,
                   pools, status>>

-----------------------------------------------------------------------------
(* prepare_for_extend, run_batch *)

\* alloc_for_extend for one request of the batch: a row unless it has one, one
\* slot per extend token from the head of free_pages, and the slots written to
\* the row behind the prefix.  The write is not bounded by the row (a Triton
\* kernel with a row stride); the model stops where it would leave the row.
AllocForExtend(r) ==
    LET row == IF HasRow(r) THEN req_pool_idx[r] ELSE Head(free_slots)
        n == extend_input_len[r]
        seq_len == fill_len[r]
    IN /\ At("alloc") /\ First(r, todo)
       /\ IF ~HasRow(r) /\ free_slots = <<>> THEN Raise("no_row")
          ELSE IF Len(free_pages) < n THEN Raise("out_of_memory")
          ELSE IF seq_len > RowWidth THEN Raise("row_overflow")
          ELSE /\ req_pool_idx' = [req_pool_idx EXCEPT ![r] = row]
               /\ kv_committed_len' = [kv_committed_len EXCEPT ![r] = seq_len]
               /\ free_slots' = IF HasRow(r) THEN free_slots
                                ELSE Tail(free_slots)
               /\ req_to_token' =
                    [req_to_token EXCEPT ![row] =
                       [p \in Positions |->
                          IF prefix_len[r] <= p /\ p < seq_len
                            THEN free_pages[p - prefix_len[r] + 1]
                            ELSE req_to_token[row][p]]]
               /\ free_pages' = SubSeq(free_pages, n + 1, Len(free_pages))
               /\ todo' = todo \ {r}
               /\ UNCHANGED <<queues, batch, batch_is_full, inputs, results,
                              pc, can_run_list, adder, status>>

AllocDone ==
    /\ At("alloc") /\ todo = {}
    /\ pc' = "forward" /\ todo' = batch.reqs
    /\ UNCHANGED <<queues, batch, batch_is_full, reqs, pools, can_run_list,
                   adder, status>>

\* The forward pass of a prompt batch; process_batch_result_dllm then only
\* empties fill_ids.
ForwardPrompt ==
    /\ At("forward") /\ batch.mode = "EXTEND"
    /\ fill_len' = [r \in Req |-> IF r \in batch.reqs THEN 0 ELSE fill_len[r]]
    /\ pc' = "recv" /\ todo' = {}
    /\ UNCHANGED <<queues, batch, batch_is_full, dllm_phase, prefix_len,
                   extend_input_len, results, kv, pools, can_run_list, adder,
                   status>>

\* Mask tokens among the input of r: what lies behind its prompt and output.
Masks(r) == MaxOf(0, fill_len[r] - (PromptLen[r] + output_len[r]))

\* The decoding algorithm on a block batch.  It needs a whole block of every
\* request (LowConfidence asserts it, the others index by block), and returns
\* no token list when there is no mask in the batch.
ForwardBlock ==
    /\ At("forward") /\ batch.mode = "DLLM_EXTEND"
    /\ IF \E r \in batch.reqs : extend_input_len[r] # BlockSize
         THEN Raise("partial_block")
         ELSE /\ IF \A r \in batch.reqs : Masks(r) = 0
                   THEN pc' = "recv" /\ todo' = {}
                   ELSE pc' = "process" /\ UNCHANGED todo
              /\ UNCHANGED <<queues, batch, batch_is_full, reqs, pools,
                             can_run_list, adder, status>>

-----------------------------------------------------------------------------
(* process_batch_result_dllm of a block batch.  free_group_begin/end delay   *)
(* the frees to the end of the loop; nothing allocates in between, so they   *)
(* are appended to free_pages at once.                                       *)

\* Mutant: the limit is passed before it is seen.
FinishReasonLate(r, new_tokens, stop) ==
    IF to_finish[r] THEN "abort"
    ELSE IF output_len[r] + new_tokens > MaxNewTokens[r] THEN "length"
    ELSE IF stop THEN "stop" ELSE "no"

\* check_finished
FinishReason(r, new_tokens, stop) ==
    IF to_finish[r] THEN "abort"
    ELSE IF output_len[r] + new_tokens >= MaxNewTokens[r] THEN "length"
    ELSE IF stop THEN "stop" ELSE "no"

\* Mutant: kv_committed_len is not set back.
ProcessNoTokenKeepsLen(r) ==
    /\ At("process") /\ First(r, todo)
    /\ 0 \in AcceptedLens \/ Masks(r) = 0
    /\ free_pages' = free_pages \o RowSlice(r, kv_committed_len[r] - BlockSize,
                                            kv_committed_len[r])
    /\ todo' = todo \ {r}
    /\ UNCHANGED <<queues, batch, batch_is_full, inputs, results, kv,
                   free_slots, req_to_token, pc, can_run_list, adder, status>>

\* A block that yields no token gives back all its slots and is not checked for
\* the end of the request.
ProcessNoToken(r) ==
    /\ At("process") /\ First(r, todo)
    /\ 0 \in AcceptedLens \/ Masks(r) = 0
    /\ LET free_start == kv_committed_len[r] - BlockSize
       IN /\ free_pages' = free_pages \o RowSlice(r, free_start,
                                                  kv_committed_len[r])
          /\ kv_committed_len' = [kv_committed_len EXCEPT ![r] = free_start]
    /\ todo' = todo \ {r}
    /\ UNCHANGED <<queues, batch, batch_is_full, inputs, results, req_pool_idx,
                   free_slots, req_to_token, pc, can_run_list, adder, status>>

\* Mutant: the rejected slots of a block stay committed.
CommittedKeepsRejected(r, new_tokens) == kv_committed_len[r]

\* kv_committed_len after the rejected slots of a partly accepted block are
\* given back.
CommittedAfter(r, new_tokens) ==
    kv_committed_len[r] - (BlockSize - new_tokens)

\* The positions that cache_finished_req frees: the committed ones, but at most
\* the tokens of prompt and output.
ReleaseLen(r, committed, output) == MinOf(committed, PromptLen[r] + output)

\* A block that yields new_tokens: the rejected slots are freed, and if the
\* request is finished release_kv_cache frees the rest and the row.  Releasing
\* a request for the second time fails the assertion of
\* pop_committed_kv_cache.
ProcessTokens(r, new_tokens, stop) ==
    LET output == output_len[r] + new_tokens
        committed == CommittedAfter(r, new_tokens)
        rejected == RowSlice(r, committed, kv_committed_len[r])
        reason == FinishReason(r, new_tokens, stop)
        released == RowSlice(r, 0, ReleaseLen(r, committed, output))
    IN /\ At("process") /\ First(r, todo)
       /\ new_tokens \in 1..Masks(r)
       /\ IF Finished(r)
            THEN Raise("already_freed")
            ELSE /\ output_len' = [output_len EXCEPT ![r] = output]
                 /\ kv_committed_len' =
                      [kv_committed_len EXCEPT ![r] = committed]
                 /\ finished_reason' = [finished_reason EXCEPT ![r] = reason]
                 /\ IF reason = "no"
                      THEN /\ free_pages' = free_pages \o rejected
                           /\ UNCHANGED <<to_finish, req_pool_idx, free_slots>>
                      ELSE /\ free_pages' = free_pages \o rejected \o released
                           /\ to_finish' = [to_finish EXCEPT ![r] = FALSE]
                           /\ req_pool_idx' = [req_pool_idx EXCEPT ![r] = NoRow]
                           /\ free_slots' = Append(free_slots, req_pool_idx[r])
                 /\ todo' = todo \ {r}
                 /\ UNCHANGED <<queues, batch, batch_is_full, inputs,
                                req_to_token, pc, can_run_list, adder, status>>

ProcessDone ==
    /\ At("process") /\ todo = {}
    /\ pc' = "recv"
    /\ UNCHANGED <<queues, batch, batch_is_full, reqs, pools, todo,
                   can_run_list, adder, status>>

-----------------------------------------------------------------------------
(* on_idle *)

IdleIgnoresBatch == waiting_queue = {}  \* mutant: only the queue counts

\* is_fully_idle between batches; DllmManager.waiting_queue is not looked at.
IsFullyIdle == batch.reqs = {} /\ staging_queue = {} /\ waiting_queue = {}

\* _check_all_pools and _check_req_pool
PoolsComplete == Len(free_pages) = PoolSize /\ Len(free_slots) = NumRows

OnIdle ==
    /\ At("idle")
    /\ IF IsFullyIdle /\ ~PoolsComplete /\ StrictMemCheck
         THEN Raise("leak")
         ELSE /\ pc' = "recv"
              /\ UNCHANGED <<queues, batch, batch_is_full, reqs, pools, todo,
                             can_run_list, adder, status>>

-----------------------------------------------------------------------------
Input ==
    \/ \E r \in Req : AddRequest(r) \/ WaitingTimeout(r)
    \/ \E r \in Req : AbortRequest({r})
    \/ AbortRequest(Req)

ProcessReq(r) ==
    \/ ProcessNoToken(r)
    \/ \E n \in AcceptedLens, stop \in BOOLEAN : ProcessTokens(r, n, stop)

Loop ==
    \/ GetNextBatch
    \/ \E r \in Req : PrepareStagingReq(r) \/ FetchWaitingReq(r)
    \/ PrepareDone \/ FetchDone
    \/ \E r \in Req : AdmitPrefill(r) \/ AdmitDecode(r)
    \/ AdmitDone
    \/ \E r \in Req : AllocForExtend(r)
    \/ AllocDone \/ ForwardPrompt \/ ForwardBlock
    \/ \E r \in Req : ProcessReq(r)
    \/ ProcessDone \/ OnIdle

Next == Input \/ Loop

Spec == Init /\ [][Next]_vars

-----------------------------------------------------------------------------
(* Properties *)

AdderType == [rem_total_token_offset : Nat, rem_input_tokens : Int,
              rem_dllm_tokens : Int]

\* The type of every variable.
TypeOK ==
    /\ waiting_queue \subseteq Req /\ active \subseteq Req
    /\ staging_queue \subseteq Req /\ todo \subseteq Req
    /\ can_run_list \subseteq Req
    /\ ticket \in [Req -> Nat] /\ tickets \in Nat
    /\ batch \in [mode : {"NONE", "EXTEND", "DLLM_EXTEND"}, reqs : SUBSET Req]
    /\ batch_is_full \in BOOLEAN
    /\ dllm_phase \in [Req -> Phases]
    /\ fill_len \in [Req -> Nat] /\ prefix_len \in [Req -> Nat]
    /\ extend_input_len \in [Req -> Nat] /\ output_len \in [Req -> Nat]
    /\ to_finish \in [Req -> BOOLEAN] /\ finished_reason \in [Req -> Finish]
    /\ kv_committed_len \in [Req -> Nat]
    /\ req_pool_idx \in [Req -> Rows \cup {NoRow}]
    /\ free_pages \in Seq(AnySlot) /\ free_slots \in Seq(Rows)
    /\ req_to_token \in [Rows -> [Positions -> AnySlot]]
    /\ pc \in PCs /\ adder \in AdderType
    /\ status \in Errors \cup {"ok"}

\* The slot that req_to_token gives for position p of request r.
SlotAt(r, p) == req_to_token[req_pool_idx[r]][p]

\* The positions of r that hold KV.
Committed(r) == IF HasRow(r) THEN 0..(kv_committed_len[r] - 1) ELSE {}

\* No slot is in the allocator's free list twice: what partial acceptance
\* gives back is never given back again by release_kv_cache.
NoDoubleFree ==
    \A i, j \in 1..Len(free_pages) : free_pages[i] = free_pages[j] => i = j

\* No slot serves two positions, of one request or of two, and no slot that
\* serves a position is free to be handed out again.
NoSlotShared ==
    \A r \in Req : \A p \in Committed(r) :
      /\ \A i \in 1..Len(free_pages) : free_pages[i] # SlotAt(r, p)
      /\ \A q \in Req : \A t \in Committed(q) :
           SlotAt(r, p) = SlotAt(q, t) => r = q /\ p = t

\* No slot is lost: each is free or serves a position of a live request, also
\* after blocks that yield fewer tokens than they were given slots for.
NoSlotLost ==
    \A s \in Slots :
      \/ \E i \in 1..Len(free_pages) : free_pages[i] = s
      \/ \E r \in Req : \E p \in Committed(r) : SlotAt(r, p) = s

\* Slot 0, which takes the writes of padding tokens, is never free to be handed
\* out and never serves a position.
PaddingReserved ==
    /\ \A i \in 1..Len(free_pages) : free_pages[i] # 0
    /\ \A r \in Req : \A p \in Committed(r) : SlotAt(r, p) # 0

\* The rows of req_to_token are free or have one owner, and only a request that
\* DllmManager knows of and that is not finished owns one.
RowsOwnedOnce ==
    /\ \A i, j \in 1..Len(free_slots) : free_slots[i] = free_slots[j] => i = j
    /\ \A r \in Req : HasRow(r) =>
         /\ r \in active /\ ~Finished(r)
         /\ \A i \in 1..Len(free_slots) : free_slots[i] # req_pool_idx[r]
         /\ \A q \in Req : req_pool_idx[q] = req_pool_idx[r] => q = r

\* When a block batch runs, every request's prefix is exactly its prompt and the
\* output accepted so far, and its row is in use up to the end of the block.
BlockSeesWholePrefix ==
    pc = "forward" /\ batch.mode = "DLLM_EXTEND" =>
      \A r \in batch.reqs :
        /\ HasRow(r)
        /\ prefix_len[r] = PromptLen[r] + output_len[r]
        /\ kv_committed_len[r] = prefix_len[r] + extend_input_len[r]

\* Between iterations a live request's committed KV is exactly its prompt and
\* output, so that freeing at most that many positions frees them all.
CommittedIsOutput ==
    pc = "recv" => \A r \in Req :
      HasRow(r) => kv_committed_len[r] = PromptLen[r] + output_len[r]

\* A request is never in Scheduler.waiting_queue and in DllmManager at once, so
\* add_waiting_reqs finds no duplicate; and no request is released twice, so
\* the assertion of pop_committed_kv_cache holds.
NoProtocolError == status \notin {"redundant", "already_freed"}

\* The token budget of admission covers what a prompt batch then allocates, for
\* every mix of prompts and running requests.
PromptNeverOutOfMemory == ~(status = "out_of_memory" /\ batch.mode = "EXTEND")

\* A request that arrived later never gets memory before an earlier one.
NoOvertaking ==
    \A r, q \in Req :
      Arrived(r) /\ ticket[r] < ticket[q] /\ HasRow(q) =>
        HasRow(r) \/ Finished(r)

\* A request ends with fewer than BlockSize tokens more than it asked for (or,
\* if it asked for none, with at most a block), and a live one has not reached
\* its limit.
OutputBounded ==
    \A r \in Req :
      /\ output_len[r] > 0 =>
           output_len[r] < MaxOf(MaxNewTokens[r], 1) + BlockSize
      /\ output_len[r] > 0 /\ ~Finished(r) => output_len[r] < MaxNewTokens[r]

\* The committed KV of a live request stays where it is: no step moves or
\* overwrites the slot of a position that is committed before and after it.
CommittedKvStable ==
    [][\A r \in Req : \A p \in Committed(r) :
         HasRow(r)' /\ p < kv_committed_len'[r] =>
           SlotAt(r, p)' = SlotAt(r, p)]_vars

\* No exception ever ends the scheduler.
NeverRaises == status = "ok"

\* Every block that admission lets into a batch is whole and can be allocated.
BlocksFit == ~(batch.mode = "DLLM_EXTEND"
               /\ status \in {"out_of_memory", "partial_block"})

\* The row of a request is long enough for all its positions.
RowLongEnough == status # "row_overflow"

\* Every request that arrives is finished.
EveryRequestFinishes == \A r \in Req : Arrived(r) ~> Finished(r)

\* A request that an abort has marked is finished as aborted.
MarkedAbortTakesEffect ==
    \A r \in Req : to_finish[r] ~> finished_reason[r] = "abort"
=============================================================================
