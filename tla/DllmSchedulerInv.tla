-------------------------- MODULE DllmSchedulerInv --------------------------
(***************************************************************************)
(* The inductive invariant behind the KV-ownership theorems: what is known *)
(* of every request at every control point of the loop.                    *)
(***************************************************************************)
EXTENDS DllmScheduler

Total(r) == PromptLen[r] + output_len[r]

\* A Req as its constructor leaves it.
Pristine(r) ==
    /\ dllm_phase[r] = "INCOMING_PREFILL" /\ output_len[r] = 0
    /\ ~HasRow(r) /\ ~Finished(r)

\* A request whose prompt or block has just been processed: its row holds its
\* prompt and output.
Resting(r) ==
    /\ HasRow(r)
    /\ kv_committed_len[r] = Total(r)
    /\ dllm_phase[r] = "INCOMING_PREFILL" => output_len[r] = 0

\* A request that admission may take as it is: either its prompt has not been
\* run and it has no row, or its prefix is all that it has committed.
Settled(r) ==
    IF dllm_phase[r] = "INCOMING_PREFILL"
      THEN ~HasRow(r) /\ output_len[r] = 0
      ELSE /\ HasRow(r)
           /\ kv_committed_len[r] = Total(r)
           /\ prefix_len[r] = Total(r)

\* Admitted to a prompt batch, nothing allocated yet.
PromptReady(r) ==
    /\ ~HasRow(r) /\ output_len[r] = 0
    /\ prefix_len[r] = 0
    /\ fill_len[r] = PromptLen[r] /\ extend_input_len[r] = PromptLen[r]

\* Admitted to a block batch, nothing allocated for the block yet.
BlockReady(r) ==
    /\ HasRow(r)
    /\ dllm_phase[r] = "STAGING_DECODE"
    /\ kv_committed_len[r] = Total(r)
    /\ prefix_len[r] = Total(r)
    /\ fill_len[r] = prefix_len[r] + extend_input_len[r]

\* The slots of the block are allocated.
BlockAllocated(r) ==
    /\ HasRow(r)
    /\ dllm_phase[r] = "STAGING_DECODE"
    /\ prefix_len[r] = Total(r)
    /\ fill_len[r] = prefix_len[r] + extend_input_len[r]
    /\ kv_committed_len[r] = fill_len[r]

\* The queues partition the requests, and only a live request of DllmManager
\* has a row.
QueuesInv ==
    /\ \A r \in Req : ~Arrived(r) =>
         Pristine(r) /\ r \notin active /\ r \notin waiting_queue
    /\ \A r \in waiting_queue : Pristine(r) /\ r \notin active
    /\ staging_queue \subseteq active
    /\ \A r \in Req : HasRow(r) =>
         r \in active /\ ~Finished(r) /\ kv_committed_len[r] <= RowWidth

\* While a batch is prepared no active request is finished.
LiveInv ==
    pc \notin {"recv", "process"} => \A r \in active : ~Finished(r)

RecvInv ==
    pc = "recv" =>
      \A r \in active : Finished(r) \/ IF r \in staging_queue
                                         THEN Resting(r) ELSE Settled(r)

PrepareInv ==
    pc = "prepare" =>
      /\ todo \subseteq active
      /\ \A r \in active : IF r \in todo THEN Resting(r) ELSE Settled(r)

FetchInv == pc \in {"fetch", "idle"} => \A r \in active : Settled(r)

IdleInv == pc = "idle" => staging_queue = {}

PrefillInv ==
    pc = "prefill" =>
      /\ batch.mode = "EXTEND"
      /\ todo \subseteq Phase("INCOMING_PREFILL")
      /\ can_run_list \subseteq active
      /\ \A r \in active : IF r \in can_run_list
                             THEN PromptReady(r) ELSE Settled(r)
      /\ can_run_list \cap todo = {}

DecodeInv ==
    pc = "decode" =>
      /\ batch.mode = "DLLM_EXTEND"
      /\ todo \subseteq Phase("STAGING_DECODE")
      /\ can_run_list \subseteq active
      /\ \A r \in active : IF r \in can_run_list
                             THEN BlockReady(r) ELSE Settled(r)

AllocInv ==
    pc \in {"alloc", "forward"} =>
      /\ staging_queue = batch.reqs
      /\ batch.mode \in {"EXTEND", "DLLM_EXTEND"}
      /\ todo \subseteq batch.reqs
      /\ \A r \in active \ batch.reqs : Settled(r)
      /\ LET ready == IF pc = "alloc" THEN todo ELSE {}
         IN \A r \in batch.reqs :
              IF batch.mode = "EXTEND"
                THEN IF r \in ready THEN PromptReady(r) ELSE Resting(r)
                ELSE IF r \in ready THEN BlockReady(r) ELSE BlockAllocated(r)

ForwardInv == pc = "forward" => todo = batch.reqs

ProcessInv ==
    pc = "process" =>
      /\ staging_queue = batch.reqs
      /\ todo \subseteq batch.reqs
      /\ \A r \in active \ batch.reqs : ~Finished(r) /\ Settled(r)
      /\ \A r \in batch.reqs :
           IF r \in todo
             THEN /\ ~Finished(r) /\ BlockAllocated(r)
                  /\ extend_input_len[r] = BlockSize
             ELSE Finished(r) \/ Resting(r)

CanRunInv == pc \notin {"prefill", "decode"} => can_run_list = {}

\* What the loop knows of its requests at every control point: between two
\* batches the committed KV of a live request is its prompt and output, what is
\* admitted has exactly that as its prefix, and what is allocated ends where
\* its input ends.
LifecycleInv ==
    /\ QueuesInv /\ LiveInv /\ RecvInv /\ PrepareInv /\ FetchInv /\ IdleInv
    /\ PrefillInv /\ DecodeInv /\ AllocInv /\ ForwardInv /\ ProcessInv
    /\ CanRunInv
-----------------------------------------------------------------------------
(* KV ownership *)

\* Rows and slots together.
OwnershipInv ==
    /\ RowsOwnedOnce
    /\ NoDoubleFree /\ NoSlotShared /\ NoSlotLost /\ PaddingReserved

\* The state of the pools as the abstract store sees it.
Table == [r \in Req |-> IF HasRow(r) THEN RowSlice(r, 0, kv_committed_len[r])
                         ELSE <<>>]
FreeSlots == {free_pages[i] : i \in 1..Len(free_pages)}

Store == INSTANCE KvStore WITH table <- Table, free <- FreeSlots

\* Allocation for a batch, partial acceptance and release implement the
\* abstract store: a live request's KV stays in place until it is given back,
\* and every slot is in one table or free.
RefinesKvStore == Store!Spec
-----------------------------------------------------------------------------
(* Admission *)

\* Every request that arrived and is not finished is queued, those of
\* DllmManager came before those of waiting_queue, and among them those with a
\* row before those without.  While a prompt batch is built and allocated, what
\* is left out of it came after what is in it.
OrderInv ==
    /\ \A r \in Req : /\ ticket[r] <= tickets
                      /\ Arrived(r) => Finished(r) \/ r \in waiting_queue \cup active
    /\ \A q \in active, r \in waiting_queue : ticket[q] <= ticket[r]
    /\ \A q, r \in active : HasRow(q) => \/ HasRow(r) \/ Finished(r)
                                         \/ ticket[q] <= ticket[r]
    /\ pc = "prefill" =>
         /\ todo # {} => Phase("INCOMING_PREFILL") \subseteq todo \cup can_run_list
         /\ \A q \in can_run_list, r \in active \ can_run_list :
              HasRow(r) \/ ticket[q] <= ticket[r]
    /\ pc = "alloc" /\ batch.mode = "EXTEND" =>
         \A q \in batch.reqs, r \in active \ batch.reqs :
           HasRow(r) \/ ticket[q] <= ticket[r]

\* The prompt tokens of the requests of S, each with its request: as many as
\* their prompt batch needs slots.
PromptTokens(S) == UNION {{r} \X (1..PromptLen[r]) : r \in S}

\* The offset of the adder covers the prompts of the batch it builds, and the
\* free slots those that are still to be allocated.
BudgetInv ==
    /\ pc = "prefill" =>
         /\ IsFiniteSet(PromptTokens(can_run_list))
         /\ Cardinality(PromptTokens(can_run_list)) <= adder.rem_total_token_offset
         /\ Cardinality(PromptTokens(can_run_list)) <= Len(free_pages)
    /\ pc = "alloc" /\ batch.mode = "EXTEND" =>
         /\ IsFiniteSet(PromptTokens(todo))
         /\ Cardinality(PromptTokens(todo)) <= Len(free_pages)
    /\ PromptNeverOutOfMemory
-----------------------------------------------------------------------------
(* One request at a time, which is the default of DllmConfig for all         *)
(* algorithms but TiDAR.                                                    *)

\* DllmManager holds one request.  Between two batches it has a row only if it
\* is in staging_queue, which is what is_fully_idle looks at, and it keeps its
\* turn until the next batch.
TurnInv ==
    /\ \A q, r \in active : q = r
    /\ pc \in {"recv", "prepare", "alloc", "forward", "process"} =>
         \A r \in Req : HasRow(r) => r \in staging_queue
    /\ pc \in {"prefill", "idle"} => \A r \in Req : ~HasRow(r)
    /\ pc = "decode" =>
         /\ \A r \in Req : HasRow(r) => r \in todo \cup can_run_list
         /\ todo # {} => can_run_list = {} /\ adder = NewAdder

\* The free slots and rows are those that the one request does not have.
SolePoolsInv ==
    /\ \A r \in Req : HasRow(r) =>
         /\ Len(free_pages) = PoolSize - kv_committed_len[r]
         /\ Len(free_slots) = NumRows - 1
    /\ (\A r \in Req : ~HasRow(r)) => PoolsComplete

SoleInv == TurnInv /\ SolePoolsInv

\* The pools and a row have room for every request with its last block.
RequestsFit ==
    /\ NumRows > 0
    /\ \A r \in Req :
         PromptLen[r] + MaxOf(MaxNewTokens[r], 1) - 1 + BlockSize
           <= MinOf(PoolSize, RowWidth)

\* Nothing is raised, and from its preparation to its results a block is whole.
WholeBlocksInv ==
    /\ NeverRaises
    /\ \A r \in Req : HasRow(r) =>
         /\ output_len[r] < MaxOf(MaxNewTokens[r], 1)
         /\ \/ pc = "prepare" /\ r \notin todo
            \/ pc \in {"fetch", "decode"}
            \/ pc \in {"alloc", "forward"} /\ batch.mode = "DLLM_EXTEND"
            => extend_input_len[r] = BlockSize
=============================================================================
