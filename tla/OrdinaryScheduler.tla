------------------------- MODULE OrdinaryScheduler -------------------------
(***************************************************************************)
(* Continuous batching of autoregressive requests: event_loop_normal and   *)
(* event_loop_overlap of managers/scheduler.py, the admission of           *)
(* managers/schedule_policy.py (chunked prefill, priority preemption), the *)
(* batches of managers/schedule_batch.py (allocation, decode, retraction)  *)
(* and the result handlers of managers/scheduler_output_processor_mixin.py *)
(* on the prefix cache of RadixCache.                                      *)
(*                                                                         *)
(* The scheduler is one thread; the device runs the launched batches in    *)
(* order.  With overlap the results of a batch are handled after the next  *)
(* batch is launched, so it is scheduled without them.  A launch writes    *)
(* the KV entries of the batch at once: the stream orders it after what    *)
(* was launched before and before what is launched later.                  *)
(*                                                                         *)
(* Data: a KV slot holds the token prefix it was computed from.  The       *)
(* sampled tokens are arbitrary members of OutTokens.  new_token_ratio, a  *)
(* float in (0, 1], is 0 or 1 for every new adder: it is only used as      *)
(* floor(ratio * tokens).  CLIP_MAX_NEW_TOKENS is above every max_new.     *)
(* Times of entry into the queue are its order; ties between running       *)
(* requests of equal priority are broken either way.                       *)
(***************************************************************************)
EXTENDS RadixCache

CONSTANTS
    Req,
    Prompt,                \* [Req -> origin_input_ids]
    MaxNew,                \* [Req -> sampling_params.max_new_tokens]
    Priority,              \* [Req -> Int], larger is more urgent; two that differ do
                           \* so by more than the preemption threshold
    OutTokens, StopTokens, \* what the model may sample, what ends a request
    ChunkSize,             \* chunked_prefill_size
    MaxPrefillTokens,      \* max_prefill_tokens
    RetractDecodeSteps,    \* SGLANG_RETRACT_DECODE_STEPS
    MaxRunnings,           \* values of max_running_requests
    Overlaps,              \* values of not disable_overlap_schedule
    Preemptions            \* values of enable_priority_preemption

PoolSize == NumPages * PageSize

\* What a request must satisfy to be accepted: TpModelWorker.max_req_len and
\* max_req_input_len, and the cap of init_req_max_new_tokens.
max_req_len == PoolSize - 1
ASSUME AcceptedAssumption ==
    \A r \in Req : /\ Len(Prompt[r]) \in 1..(max_req_len - 5)
                   /\ MaxNew[r] \in 1..(max_req_len - Len(Prompt[r]) - 1)
ASSUME ChunkAssumption == ChunkSize \in Nat \ {0} /\ ChunkSize % PageSize = 0

VARIABLES
    overlap, preemption, max_running,   \* server arguments
    waiting_queue, running_batch, batch_is_full,
    last_batch,            \* last_batch; at recv it is also cur_batch
    chunked_req,
    result_queue,          \* launched batches whose results are not handled
    req,                   \* the Req objects
    cache, kv,
    pc, todo,              \* where the loop is, requests still to visit
    adder,                 \* PrefillAdder
    status

queues == <<waiting_queue, running_batch, batch_is_full, last_batch, chunked_req>>
config == <<overlap, preemption, max_running>>
vars == <<config, queues, result_queue, req, cache, kv, pc, todo, adder, status>>

None == "none"
NoBatch == [mode |-> "none", reqs |-> << >>, tokens |-> << >>]
NoAdder == [can_run |-> << >>, preempt |-> << >>, new_chunked |-> None,
            total |-> 0, cur |-> 0, input |-> 0, chunk |-> 0, ratio |-> 0]
NewReq == [output |-> << >>, fill |-> 0, extend |-> 0,
           row |-> << >>, protected |-> 0, last_node |-> Root, locked |-> FALSE,
           committed |-> 0,
           is_chunked |-> 0, is_retracted |-> FALSE, to_finish |-> FALSE,
           finished |-> "no"]

Tokens(r) == Prompt[r] \o req[r].output
Finished(r) == req[r].finished # "no"
Holds(r) == req[r].locked
Without(s, S) == SelectSeq(s, LAMBDA r : r \notin S)
FinishedReqs == {r \in Req : Finished(r)}

\* The token of r that is sampled but not handled yet, for the next decode to
\* read from the future map.
Pending(r) ==
    IF /\ result_queue # << >> /\ r \in DOMAIN Head(result_queue).tokens
       /\ pc = "process" => r \in ToSet(todo)
      THEN << Head(result_queue).tokens[r] >> ELSE << >>
DeviceTokens(r) == Tokens(r) \o Pending(r)

Init ==
    /\ overlap \in Overlaps /\ preemption \in Preemptions /\ max_running \in MaxRunnings
    /\ waiting_queue = << >> /\ running_batch = << >> /\ batch_is_full = FALSE
    /\ last_batch = NoBatch /\ chunked_req = None /\ result_queue = << >>
    /\ req = [r \in Req |-> [NewReq EXCEPT !.finished = "absent"]]
    /\ cache = EmptyCache
    /\ kv = [s \in PageSize..(PoolSize + PageSize - 1) |-> << >>]
    /\ pc = "recv" /\ todo = << >> /\ adder = NoAdder /\ status = "ok"

At(p) == pc = p /\ status = "ok"

\* An exception of the loop body ends the scheduler process.
Raise(e) ==
    /\ status' = e
    /\ UNCHANGED <<config, queues, result_queue, req, cache, kv, pc, todo, adder>>

-----------------------------------------------------------------------------
(* Inputs. *)

\* handle_generate_request, _add_request_to_queue
AddRequest(r) ==
    /\ At("recv") /\ req[r].finished = "absent"
    /\ req' = [req EXCEPT ![r] = NewReq]
    /\ waiting_queue' = Append(waiting_queue, r)
    /\ UNCHANGED <<config, running_batch, batch_is_full, last_batch, chunked_req,
                   result_queue, cache, kv, pc, todo, adder, status>>

\* abort_request: a queued request is dropped and its client told, one that
\* runs is marked.  The timeouts of get_next_batch_to_run do the same.
AbortRequest(r) ==
    /\ At("recv") /\ ~Finished(r)
    /\ \/ /\ r \in ToSet(waiting_queue)
          /\ waiting_queue' = Without(waiting_queue, {r})
          /\ req' = [req EXCEPT ![r].finished = "abort"]
       \/ /\ r \in ToSet(running_batch) \cup ToSet(last_batch.reqs)
          /\ ~req[r].to_finish
          /\ req' = [req EXCEPT ![r].to_finish = TRUE]
          /\ UNCHANGED waiting_queue
    /\ UNCHANGED <<config, running_batch, batch_is_full, last_batch, chunked_req,
                   result_queue, cache, kv, pc, todo, adder, status>>

-----------------------------------------------------------------------------
(* get_next_batch_to_run: merge the last prefill into the running batch. *)

\* cache_unfinished_req of request r on cache c, as the new cache and request.
Unfinished(r) ==
    LET u == cache_unfinished_req(cache, SubSeq(Tokens(r), 1, req[r].fill),
                                  req[r].row, req[r].protected, req[r].last_node)
    IN [cache |-> u.cache,
        req |-> [req[r] EXCEPT !.row = u.row, !.protected = u.protected,
                               !.last_node = u.last_node]]

\* Mutant: a request whose prompt is not finished joins the running batch.
MergedWithChunk(reqs) == Without(reqs, FinishedReqs)

\* filter_batch of the last batch
Merged(reqs) == Without(reqs, FinishedReqs \cup {chunked_req})

GetNextBatch ==
    /\ At("recv")
    /\ IF chunked_req = None
         THEN UNCHANGED <<cache, req>>
         ELSE /\ cache' = Unfinished(chunked_req).cache
              /\ req' = [req EXCEPT ![chunked_req] = Unfinished(chunked_req).req]
    /\ LET extend == last_batch.mode = "extend"
           merged == IF extend THEN Merged(last_batch.reqs) ELSE << >>
           shrunk == extend /\ Len(merged) < Len(last_batch.reqs)
       IN /\ running_batch' = running_batch \o merged
          /\ batch_is_full' = /\ batch_is_full /\ ~shrunk /\ ~preemption
                              /\ ~(running_batch = << >> /\ merged # << >>)
    /\ pc' = IF (batch_is_full' \/ waiting_queue = << >>) /\ chunked_req = None
               THEN "decode" ELSE "start"
    /\ UNCHANGED <<config, waiting_queue, last_batch, chunked_req, result_queue, kv,
                   todo, adder, status>>

-----------------------------------------------------------------------------
(* _get_new_batch_prefill_raw *)

Remaining(r) == Max({MaxNew[r] - Len(req[r].output), 0})

\* PrefillAdder.rem_total_tokens and cur_rem_tokens
rem_total_tokens(a, c) == available_size(c) + c.evictable - a.total
cur_rem_tokens(a, c) == available_size(c) + c.evictable - a.cur

\* _update_prefill_budget
UpdateBudget(a, extend, max_new) ==
    LET paged == CeilPage(extend)
    IN [a EXCEPT !.total = @ + paged + max_new + PageSize,
                 !.cur = @ + paged + PageSize,
                 !.input = @ - paged, !.chunk = @ - paged]

\* budget_state
budget_state(a, c) ==
    IF rem_total_tokens(a, c) <= 0 \/ cur_rem_tokens(a, c) <= 0 THEN "NO_TOKEN"
    ELSE IF a.input <= 0 \/ a.chunk <= 0 THEN "OTHER" ELSE "CONTINUE"

\* SchedulePolicy._sort_by_priority_and_fcfs, a stable sort
calc_priority(q) ==
    IF ~preemption THEN q
    ELSE LET before(i, j) == \/ Priority[q[i]] > Priority[q[j]]
                             \/ Priority[q[i]] = Priority[q[j]] /\ i < j
             order == SetToSortSeq(DOMAIN q, before)
         IN [i \in DOMAIN q |-> q[order[i]]]

\* The offset a running request has in the budget of adder a.
Reserve(a, r) == a.ratio * Remaining(r)

\* add_chunked_req: the next chunk of chunked_req is always added.
AddChunked(a, r) ==
    LET len == Len(Tokens(r)) - Len(req[r].row)
        fits == Min({a.chunk, rem_total_tokens(a, cache)})
        rem == IF fits <= 0 THEN a.chunk ELSE fits
        extend == Min({len, rem})
    IN [adder |-> UpdateBudget([a EXCEPT !.can_run = << r >>], extend,
                               IF len > rem THEN 0 ELSE MaxNew[r]),
        req |-> [req[r] EXCEPT !.extend = extend, !.fill = Len(req[r].row) + extend],
        chunked |-> IF len > rem THEN r ELSE None]

\* The adder is built and the chunked request is put first.
StartPrefill(ratio) ==
    /\ At("start")
    /\ IF max_running - Len(running_batch) <= 0 /\ chunked_req = None /\ ~preemption
         THEN /\ batch_is_full' = TRUE /\ pc' = "decode"
              /\ UNCHANGED <<waiting_queue, chunked_req, req, todo, adder>>
         ELSE LET a == [NoAdder EXCEPT
                          !.total = ratio * MapThenSumSet(Remaining, ToSet(running_batch)),
                          !.input = MaxPrefillTokens, !.chunk = ChunkSize,
                          !.ratio = ratio]
              IN /\ waiting_queue' = calc_priority(waiting_queue)
                 /\ todo' = waiting_queue'
                 /\ IF chunked_req = None
                      THEN adder' = a /\ UNCHANGED <<chunked_req, req>>
                      ELSE LET u == AddChunked(a, chunked_req)
                           IN /\ adder' = u.adder
                              /\ req' = [req EXCEPT ![chunked_req] = u.req]
                              /\ chunked_req' = u.chunked
                 /\ pc' = "admit" /\ UNCHANGED batch_is_full
    /\ UNCHANGED <<config, running_batch, last_batch, result_queue, cache, kv,
                   status>>

\* Running requests preempt_to_schedule may release for r: the least urgent
\* first, until the tokens r is thought to need are covered.
Victims(r) ==
    LET running == {q \in ToSet(running_batch) : ~Finished(q)}
        preemptible == {q \in running : Priority[r] > Priority[q]}
        need == req[r].extend + MaxNew[r] - rem_total_tokens(adder, cache)
        freed(S) == MapThenSumSet(LAMBDA q : Reserve(adder, q), S)
    IN {S \in SUBSET preemptible :
          /\ S # {} /\ freed(S) >= need
          /\ \A q \in S, p \in preemptible \ S : Priority[q] <= Priority[p]
          /\ \E last \in S : /\ \A q \in S : Priority[q] <= Priority[last]
                             /\ S = {last} \/ freed(S \ {last}) < need}

\* The head of the for loop over the waiting queue: is there room for a request?
CheckRoom ==
    /\ At("admit")
    /\ IF todo = << >>
         THEN pc' = "build" /\ UNCHANGED <<batch_is_full, adder>>
         ELSE LET full == \/ batch_is_full
                          \/ Len(adder.can_run) >= max_running - Len(running_batch)
                  r == Head(todo)
              IN /\ batch_is_full' = full
                 /\ \/ ~full /\ pc' = "add" /\ UNCHANGED adder
                    \/ /\ full /\ ~(preemption /\ Victims(r) # {})
                       /\ pc' = "build" /\ UNCHANGED adder
                    \/ /\ full /\ preemption
                       /\ \E S \in Victims(r) :
                            adder' = [adder EXCEPT !.total = @ - MapThenSumSet(LAMBDA q : Reserve(adder, q), S),
                                                   !.preempt = @ \o SelectSeq(running_batch, LAMBDA q : q \in S)]
                       /\ pc' = "preempt"
    /\ UNCHANGED <<config, waiting_queue, running_batch, last_batch, chunked_req,
                   result_queue, req, cache, kv, todo, status>>

\* What release_kv_cache(is_insert=False) of request r leaves of the cache.
Released(c, r) ==
    cache_finished_req(c, SubSeq(Tokens(r), 1, req[r].committed), req[r].row,
                       req[r].protected, req[r].last_node, FALSE)

reset_for_retract(r) ==
    [req[r] EXCEPT !.extend = 0, !.row = << >>, !.locked = FALSE,
                   !.committed = 0, !.is_chunked = 0, !.is_retracted = TRUE]

\* release_req of the next victim of preempt_to_schedule.
Preempt ==
    /\ At("preempt")
    /\ LET victims == SelectSeq(running_batch, LAMBDA q : q \in ToSet(adder.preempt))
           v == Head(victims)
       IN /\ running_batch' = Without(running_batch, {v})
          /\ cache' \in EvictFrom(Released(cache, v),
                                  Len(running_batch') * RetractDecodeSteps)
          /\ req' = [req EXCEPT ![v] = reset_for_retract(v)]
          /\ pc' = IF Len(victims) = 1 THEN "add" ELSE "preempt"
    /\ UNCHANGED <<config, waiting_queue, batch_is_full, last_batch, chunked_req,
                   result_queue, kv, todo, adder, status>>

\* add_one_req on what init_next_round_input found in the cache: the answer, the
\* adder and the cache it leaves, and how much of the input was taken.
AddOneReq(r, found) ==
    LET extend == Len(Tokens(r)) - Len(found.indices)
        total == extend + Remaining(r) + PageSize
        input == CeilPage(extend)
        trunc == FloorPage(adder.chunk)
        locked == inc_lock_ref(found.cache, found.last_node)
        run == [adder EXCEPT !.can_run = Append(@, r)]
        refuse(res) == [res |-> res, adder |-> adder, cache |-> found.cache,
                        extend |-> extend, added |-> FALSE]
        accept(a, n) == [res |-> budget_state(a, locked), adder |-> a,
                         cache |-> locked, extend |-> n, added |-> TRUE]
    IN CASE total >= rem_total_tokens(adder, found.cache) -> refuse("NO_TOKEN")
         [] input >= adder.input /\ adder.can_run # << >> -> refuse("OTHER")
         [] total >= rem_total_tokens(adder, locked) -> refuse("NO_TOKEN")
         [] input <= adder.chunk -> accept(UpdateBudget(run, input, MaxNew[r]), extend)
         [] trunc <= 0 -> refuse("OTHER")
         [] OTHER -> accept(UpdateBudget([run EXCEPT !.new_chunked = r], trunc, 0), trunc)

\* The rest of the loop body: match the prefix and try to add the request.
AddOne ==
    /\ At("add")
    /\ LET r == Head(todo)
           found == match_prefix(cache, Front(Tokens(r)))
           got == AddOneReq(r, found)
           prefix == Len(found.indices)
       IN /\ cache' = got.cache /\ adder' = got.adder
          /\ req' = [req EXCEPT ![r] =
               IF got.added
                 THEN [@ EXCEPT !.extend = got.extend, !.fill = prefix + got.extend,
                                !.row = found.indices, !.protected = prefix,
                                !.last_node = found.last_node, !.locked = TRUE]
                 ELSE [@ EXCEPT !.extend = got.extend]]
          /\ batch_is_full' = (batch_is_full \/ got.res = "NO_TOKEN")
          /\ pc' = IF got.res = "CONTINUE" THEN "admit" ELSE "build"
          /\ todo' = Tail(todo)
    /\ UNCHANGED <<config, waiting_queue, running_batch, last_batch, chunked_req,
                   result_queue, kv, status>>

-----------------------------------------------------------------------------
(* Allocation and launch. *)

\* Grow the rows of the requests of reqs, in order, to the lengths given.
GrowRows(c, reqs, len) ==
    FoldLeft(LAMBDA acc, r :
               LET g == Grow(acc.cache, req[r].row, len[r])
               IN [cache |-> g.cache, row |-> (r :> g.row) @@ acc.row],
             [cache |-> c, row |-> << >>], reqs)

PagesNeeded(reqs, len) ==
    MapThenSumSet(LAMBDA r : NewPages(Len(req[r].row), len[r]), ToSet(reqs))

\* run_batch: the KV entries of positions beyond from[r] are written; the
\* results go to the result queue.  Then the results that are due are handled:
\* those of this batch, or with overlap those of the one before.
Launch(mode, reqs, rows, from, chunked) ==
    /\ LET written == {<<r, i>> \in ToSet(reqs) \X (1..PoolSize) :
                         i \in (from[r] + 1)..Len(rows[r])}
       IN kv' = [s \in DOMAIN kv |->
                   IF \E w \in written : rows[w[1]][w[2]] = s
                     THEN LET w == CHOOSE w \in written : rows[w[1]][w[2]] = s
                          IN SubSeq(DeviceTokens(w[1]), 1, w[2])
                     ELSE kv[s]]
    /\ \E tokens \in [ToSet(reqs) \ {chunked} -> OutTokens] :
         result_queue' = Append(result_queue, [mode |-> mode, reqs |-> reqs,
                                               tokens |-> tokens])
    /\ last_batch' = [mode |-> mode, reqs |-> reqs, tokens |-> << >>]
    /\ IF ~overlap \/ result_queue # << >>
         THEN pc' = "process" /\ todo' = Head(result_queue').reqs
         ELSE pc' = "recv" /\ todo' = << >>

\* No batch to run: only an overlapped result is left to handle.
NoLaunch ==
    /\ last_batch' = NoBatch
    /\ IF result_queue # << >>
         THEN pc' = "process" /\ todo' = Head(result_queue).reqs
         ELSE pc' = "recv" /\ todo' = << >>
    /\ UNCHANGED <<result_queue, kv>>

HasRow(r) == req[r].committed > 0

\* The end of _get_new_batch_prefill_raw and prepare_for_extend.  With nothing
\* to run it returns before the preempted requests are queued again.
BuildPrefill ==
    /\ At("build")
    /\ IF adder.can_run = << >>
         THEN /\ pc' = "decode" /\ adder' = NoAdder /\ todo' = << >>
              /\ UNCHANGED <<waiting_queue, chunked_req, last_batch, result_queue,
                             req, cache, kv, status>>
         ELSE LET reqs == adder.can_run
                  fill == [r \in Req |-> req[r].fill]
                  chunked == IF adder.new_chunked # None THEN adder.new_chunked
                             ELSE chunked_req
                  evict == MapThenSumSet(LAMBDA r : req[r].extend, ToSet(reqs))
                           + (IF PageSize = 1 THEN 0 ELSE Len(reqs) * PageSize)
              IN IF adder.new_chunked # None /\ chunked_req # None
                   THEN Raise("two_chunked")
                 ELSE IF Cardinality({r \in Req : HasRow(r)} \cup ToSet(reqs)) > max_running
                   THEN Raise("no_row")
                 ELSE \E c \in EvictFrom(cache, evict) :
                   IF PagesNeeded(reqs, fill) > Len(FreePages(c))
                     THEN Raise("out_of_memory")
                     ELSE LET g == GrowRows(c, reqs, fill)
                          IN /\ cache' = g.cache
                             /\ req' = [r \in Req |->
                                  IF r \in ToSet(reqs)
                                    THEN [req[r] EXCEPT
                                            !.row = g.row[r], !.committed = fill[r],
                                            !.is_chunked = @ + (IF r = chunked THEN 1 ELSE 0),
                                            !.is_retracted = FALSE]
                                    ELSE req[r]]
                             /\ Launch("extend", reqs, g.row,
                                       [r \in Req |-> Len(req[r].row)], chunked)
                             /\ waiting_queue' = Without(waiting_queue, ToSet(reqs))
                                                 \o adder.preempt
                             /\ chunked_req' = chunked
                             /\ adder' = NoAdder
                             /\ UNCHANGED status
    /\ UNCHANGED <<config, running_batch, batch_is_full>>

\* Mutant: a request whose last page is full is not counted.
DecodeTokensNone(reqs) == 0

\* new_tokens_required_next_decode
DecodeTokens(reqs) ==
    PageSize * Cardinality({r \in ToSet(reqs) : req[r].committed % PageSize = 0})

\* prepare_for_decode and run_batch on a cache that passed check_decode_mem.
Decode(c, reqs) ==
    LET len == [r \in Req |-> req[r].committed + 1]
    IN \E c2 \in EvictFrom(c, Len(reqs) * PageSize) :
         IF PagesNeeded(reqs, len) > Len(FreePages(c2))
           THEN /\ status' = "out_of_memory"
                /\ UNCHANGED <<req, cache, kv, last_batch, result_queue, pc, todo>>
           ELSE LET g == GrowRows(c2, reqs, len)
                IN /\ cache' = g.cache
                   /\ req' = [r \in Req |->
                        IF r \in ToSet(reqs)
                          THEN [req[r] EXCEPT !.row = g.row[r], !.committed = @ + 1]
                          ELSE req[r]]
                   /\ Launch("decode", reqs, g.row, [r \in Req |-> req[r].committed], None)
                   /\ UNCHANGED status

\* Mutant: the batch still counts as full when requests have left it.
FullAlways(kept) == batch_is_full

\* batch_is_full after filter_batch has left the requests of kept.
FullAfter(kept) == batch_is_full /\ Len(kept) = Len(running_batch)

\* update_running_batch
UpdateRunning ==
    /\ At("decode")
    /\ LET kept == Without(running_batch, FinishedReqs)
       IN /\ running_batch' = kept
          /\ IF kept = << >>
               THEN /\ batch_is_full' = FullAfter(kept)
                    /\ NoLaunch /\ UNCHANGED <<req, cache, status>>
               ELSE \E c \in EvictFrom(cache, DecodeTokens(kept)) :
                      IF available_size(c) >= DecodeTokens(kept)
                        THEN /\ Decode(c, kept)
                             /\ batch_is_full' = FullAfter(kept)
                        ELSE /\ pc' = IF Len(kept) = 1 THEN "retracted" ELSE "retract"
                             /\ todo' = kept /\ cache' = c /\ batch_is_full' = FALSE
                             /\ UNCHANGED <<req, kv, last_batch, result_queue, status>>
    /\ UNCHANGED <<config, waiting_queue, chunked_req, adder>>

\* retract_decode takes the request with the fewest outputs, then the longest
\* prompt, until the others can decode; one is always kept.
Retract ==
    /\ At("retract")
    /\ \E v \in ToSet(todo) :
         /\ \A r \in ToSet(todo) :
              \/ Len(req[v].output) < Len(req[r].output)
              \/ /\ Len(req[v].output) = Len(req[r].output)
                 /\ Len(Prompt[v]) >= Len(Prompt[r])
         /\ LET left == Without(todo, {v})
            IN /\ todo' = left
               /\ \E c \in EvictFrom(Released(cache, v), Len(left) * RetractDecodeSteps) :
                    cache' \in EvictFrom(c, DecodeTokens(left))
               /\ pc' = IF \/ Len(left) = 1
                           \/ available_size(cache') >= DecodeTokens(left)
                          THEN "retracted" ELSE "retract"
         /\ req' = [req EXCEPT ![v] = reset_for_retract(v)]
         /\ waiting_queue' = Append(waiting_queue, v)
    /\ UNCHANGED <<config, running_batch, batch_is_full, last_batch, chunked_req,
                   result_queue, kv, adder, status>>

\* The rest of update_running_batch: if even the last request has no memory it is
\* aborted, otherwise the ones left decode.
Retracted ==
    /\ At("retracted")
    /\ IF available_size(cache) >= DecodeTokens(todo)
         THEN running_batch' = todo /\ Decode(cache, todo)
         ELSE LET r == Head(todo)
              IN /\ running_batch' = << >>
                 /\ cache' = Released(cache, r)
                 /\ req' = [req EXCEPT ![r] = [reset_for_retract(r) EXCEPT !.finished = "abort"]]
                 /\ NoLaunch /\ UNCHANGED status
    /\ UNCHANGED <<config, waiting_queue, batch_is_full, chunked_req, adder>>

-----------------------------------------------------------------------------
(* process_batch_result *)

\* req.output_ids.append and check_finished
Appended(r, token) ==
    LET output == Append(req[r].output, token)
    IN [req[r] EXCEPT !.output = output,
                      !.finished = CASE @ # "no" -> @
                                     [] req[r].to_finish -> "abort"
                                     [] Len(output) >= MaxNew[r] -> "length"
                                     [] token \in StopTokens -> "stop"
                                     [] OTHER -> "no"]

\* Results of a request that ended or was retracted after the launch.
Skip(r) == Finished(r) \/ req[r].is_retracted

\* process_batch_result_prefill and process_batch_result_decode, one request.
ProcessOne ==
    /\ At("process")
    /\ LET b == Head(result_queue)
           r == Head(todo)
           done == Appended(r, b.tokens[r])
           release == cache_finished_req(cache,
                        SubSeq(Prompt[r] \o done.output, 1, req[r].committed),
                        req[r].row, req[r].protected, req[r].last_node, TRUE)
       IN IF Skip(r) THEN UNCHANGED <<req, cache>>
          ELSE IF b.mode = "extend" /\ req[r].is_chunked > 0
            THEN /\ req' = [req EXCEPT ![r].is_chunked = @ - 1]
                 /\ UNCHANGED cache
          ELSE IF done.finished # "no"
            THEN /\ req' = [req EXCEPT ![r] = [done EXCEPT
                              !.row = << >>, !.locked = FALSE, !.committed = 0]]
                 /\ cache' = release
          ELSE IF b.mode = "extend"
            THEN /\ req' = [req EXCEPT ![r] = [Unfinished(r).req EXCEPT !.output = done.output]]
                 /\ cache' = Unfinished(r).cache
          ELSE req' = [req EXCEPT ![r] = done] /\ UNCHANGED cache
    /\ todo' = Tail(todo)
    /\ IF todo' = << >> THEN pc' = "recv" /\ result_queue' = Tail(result_queue)
                        ELSE UNCHANGED <<pc, result_queue>>
    /\ UNCHANGED <<config, queues, kv, adder, status>>

-----------------------------------------------------------------------------

Step == \/ GetNextBatch \/ \E ratio \in {0, 1} : StartPrefill(ratio)
        \/ CheckRoom \/ Preempt \/ AddOne \/ BuildPrefill
        \/ UpdateRunning \/ Retract \/ Retracted \/ ProcessOne
Next == Step \/ \E r \in Req : AddRequest(r) \/ AbortRequest(r)

Spec == Init /\ [][Next]_vars
\* The event loop never stops iterating.  A step of it moves pc or takes one of
\* finitely many requests from todo, and inputs leave pc alone, so this is weak
\* fairness of Step in a form whose ENABLED is cheap to evaluate.
Labels == {"recv", "start", "admit", "preempt", "add", "build", "decode",
           "retract", "retracted", "process"}
FairSpec == Spec /\ WF_pc(status = "ok" /\ pc' \in Labels)

-----------------------------------------------------------------------------
(* Properties *)

Arrived(r) == req[r].finished # "absent"
PagesOf(S) == {PageOf(s) : s \in S}
PrivatePages(r) == PagesOf(Slice(req[r].row, req[r].protected, Len(req[r].row)))

\* Every page of the KV pool has one owner: the free list, one node of the prefix
\* cache, or one request that has not cached it yet.  No path of admission, chunking,
\* retraction, preemption or completion loses a page or frees one twice.
PagesOwnedOnce ==
    /\ cache.twice = {}
    /\ \A p \in Pages :
        (IF p \in cache.free THEN 1 ELSE 0)
        + Cardinality({n \in Nodes(cache) : p \in PagesOf(ToSet(Segment(cache, n)))})
        + Cardinality({r \in Req : p \in PrivatePages(r)}) = 1

\* What the prefix cache returns for a prefix are the KV entries of that prefix, also
\* when it was cached before its results were handled (overlap) or under another
\* request's split.
CacheSound ==
    \A n \in Nodes(cache) : \A i \in DOMAIN n :
        kv[cache.path[n][i]] = SubSeq(n, 1, i)

\* The row a request attends to holds the KV entries of its own tokens, although rows
\* share pages, are rewritten when another request cached the same prefix first, and
\* lose pages to retraction while a batch is in flight.
RowSound ==
    \A r \in Req : Holds(r) =>
        \A i \in DOMAIN req[r].row :
            kv[req[r].row[i]] = SubSeq(DeviceTokens(r), 1, i)

\* lock_ref of a node counts the requests whose last_node is at or below it, so that
\* evict spares exactly the prefixes that are in use.
LocksCountHolders ==
    /\ \A r \in Req : Holds(r) => req[r].last_node \in DOMAIN cache.path
    /\ \A n \in Nodes(cache) :
         cache.lock[n] = Cardinality({r \in Req :
                           Holds(r) /\ IsPrefix(n, req[r].last_node)})

\* The sizes admission computes with, and the cached set of leaves evict starts from,
\* are what a walk over the tree would find.
AccountingExact ==
    /\ cache.evictable = Size(cache, {n \in Nodes(cache) : cache.lock[n] = 0})
    /\ cache.protected = Size(cache, {n \in Nodes(cache) : cache.lock[n] > 0})
    /\ cache.leaves = {n \in Nodes(cache) : IsEvictableLeaf(cache, n)}

\* No allocation fails and no assertion of the loop fails: a batch that was admitted
\* or passed check_decode_mem gets its pages and rows.
NeverRaises == status = "ok"

Places(r) ==
    Cardinality({i \in DOMAIN waiting_queue : waiting_queue[i] = r})
    + Cardinality({i \in DOMAIN running_batch : running_batch[i] = r})
    + (IF last_batch.mode = "extend" /\ r \in ToSet(last_batch.reqs) THEN 1 ELSE 0)
    + (IF r = chunked_req /\ r \notin ToSet(last_batch.reqs) THEN 1 ELSE 0)

\* Between two iterations an unanswered request is in one queue or batch, never in two,
\* and without preemption never in none.
RequestsInOnePlace ==
    pc = "recv" => \A r \in Req : Arrived(r) /\ ~Finished(r) =>
        Places(r) = 1 \/ (preemption /\ Places(r) = 0)

\* preempt_to_schedule: "Returns True if preemption was committed, and the new request
\* can be scheduled" - so the preempted requests are queued again with its batch.
NoRequestLost ==
    pc = "recv" => \A r \in Req : Arrived(r) /\ ~Finished(r) => Places(r) > 0

\* Every request is answered: retraction gives memory to requests that finish, chunks
\* go on, nothing waits for ever behind batch_is_full.
EveryRequestAnswered ==
    \A r \in Req : (~preemption /\ Arrived(r)) ~> Finished(r)
=============================================================================
