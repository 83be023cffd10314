------------------------ MODULE DllmSchedulerProofs -------------------------
(***************************************************************************)
(* Proof that TypeOK /\ LifecycleInv is an inductive invariant of the dLLM *)
(* scheduler, for every set of requests, pool, block size and limit.       *)
(* There is one lemma per action, and under it one step per conjunct that  *)
(* the action can disturb: first the actions that leave the memory pools   *)
(* alone, then the ones that change them, reduced to what they do to one   *)
(* row (Allocates, Truncates, Releases), the results of a batch, and the   *)
(* theorems.  The ownership and refinement proofs use the reductions       *)
(* again.                                                                  *)
(***************************************************************************)
EXTENDS DllmSchedulerInv, TLAPS

\* The inductive invariant.
Inv == TypeOK /\ LifecycleInv

\* An exception changes nothing but status.
LEMMA RaiseInv ==
  ASSUME Inv, NEW e \in Errors \cup {"ok"}, Raise(e) PROVE Inv'
<1>1. TypeOK'
  BY Zenon DEF Inv, TypeOK, Raise, queues, inputs, results, kv, pools, reqs
<1>2. QueuesInv' /\ LiveInv' /\ IdleInv' /\ ForwardInv' /\ CanRunInv'
  BY Zenon DEF Inv, LifecycleInv, Raise, queues, inputs, results, kv, pools, reqs,
         QueuesInv, LiveInv, IdleInv, ForwardInv, CanRunInv, Pristine, Total,
         Finished, HasRow, Arrived
<1>3. RecvInv' /\ PrepareInv' /\ FetchInv'
  BY Zenon DEF Inv, LifecycleInv, Raise, queues, inputs, results, kv, pools, reqs,
         RecvInv, PrepareInv, FetchInv, Resting, Settled, Total, Finished, HasRow
<1>4. PrefillInv' /\ DecodeInv'
  BY Zenon DEF Inv, LifecycleInv, Raise, queues, inputs, results, kv, pools, reqs,
         PrefillInv, DecodeInv, PromptReady, BlockReady, Settled, Total, HasRow,
         Phase
<1>5. AllocInv' /\ ProcessInv'
  BY Zenon DEF Inv, LifecycleInv, Raise, queues, inputs, results, kv, pools, reqs,
         AllocInv, ProcessInv, Resting, Settled, PromptReady, BlockReady,
         BlockAllocated, Total, Finished, HasRow
<1> QED BY <1>1, <1>2, <1>3, <1>4, <1>5, Zenon DEF Inv, LifecycleInv

\* A request that arrives is fresh and only enters waiting_queue.
LEMMA AddRequestInv ==
  ASSUME NEW r \in Req, Inv, AddRequest(r) PROVE Inv'
<1>1. TypeOK'
  BY DEF Inv, TypeOK, AddRequest, inputs, results, kv, pools, control, reqs
<1>2. LifecycleInv'
  BY DEF Inv, TypeOK, AddRequest, At, inputs, results, kv, pools, control,
         reqs, LifecycleInv, QueuesInv, LiveInv, RecvInv, PrepareInv,
         FetchInv, IdleInv, PrefillInv, DecodeInv, AllocInv, ForwardInv,
         ProcessInv, CanRunInv, Pristine, Resting, Settled, Total, Finished,
         HasRow, Arrived
<1> QED BY <1>1, <1>2, Zenon DEF Inv

\* A request that times out leaves waiting_queue without ever having had a
\* row.
LEMMA WaitingTimeoutInv ==
  ASSUME NEW r \in Req, Inv, WaitingTimeout(r) PROVE Inv'
<1>1. TypeOK'
  BY Zenon DEF Inv, TypeOK, WaitingTimeout, Finish, inputs, kv, pools, control
<1>2. LifecycleInv'
  BY DEF Inv, TypeOK, WaitingTimeout, At, inputs, kv, pools, control,
         LifecycleInv, QueuesInv, LiveInv, RecvInv, PrepareInv, FetchInv,
         IdleInv, PrefillInv, DecodeInv, AllocInv, ForwardInv, ProcessInv,
         CanRunInv, Pristine, Resting, Settled, Total, Finished, HasRow,
         Arrived
<1> QED BY <1>1, <1>2, Zenon DEF Inv

\* An abort only finishes requests that have no row; the others are marked.
LEMMA AbortRequestInv ==
  ASSUME NEW R \in SUBSET Req, Inv, AbortRequest(R) PROVE Inv'
<1>1. TypeOK'
  BY Zenon DEF Inv, TypeOK, AbortRequest, Finish, inputs, kv, pools, control
<1>2. LifecycleInv'
  BY Zenon DEF Inv, TypeOK, AbortRequest, At, inputs, kv, pools, control,
         LifecycleInv, QueuesInv, LiveInv, RecvInv, PrepareInv, FetchInv,
         IdleInv, PrefillInv, DecodeInv, AllocInv, ForwardInv, ProcessInv,
         CanRunInv, Pristine, Resting, Settled, Total, Finished, HasRow,
         Arrived
<1> QED BY <1>1, <1>2, Zenon DEF Inv

\* filter_finished_reqs leaves only live requests, at rest or settled.
LEMMA GetNextBatchInv ==
  ASSUME Inv, GetNextBatch PROVE Inv'
<1>1. TypeOK'
  BY Zenon
     DEF Inv, TypeOK, GetNextBatch, Unfinished, NoBatch, PCs, inputs, results,
         kv, pools, reqs
<1>2. \A r \in active' :
        IF r \in staging_queue' THEN Resting(r)' ELSE Settled(r)'
  BY Zenon
     DEF Inv, TypeOK, GetNextBatch, Unfinished, At, inputs, results, kv,
         pools, reqs, LifecycleInv, RecvInv, Resting, Settled, Total,
         Finished, HasRow
<1>3. QueuesInv'
  BY Zenon
     DEF Inv, TypeOK, GetNextBatch, Unfinished, At, inputs, results, kv,
         pools, reqs, LifecycleInv, QueuesInv, Pristine, Finished, HasRow,
         Arrived
<1>4. LiveInv'
  BY Zenon
     DEF Inv, TypeOK, GetNextBatch, Unfinished, At, inputs, results, kv,
         pools, reqs, LiveInv, Finished
<1>5. pc' \in {"idle", "prepare"} /\ (pc' = "idle" => staging_queue' = {}) /\
      (pc' = "prepare" =>
        todo' = staging_queue') /\ can_run_list' = {}
          /\ staging_queue' \subseteq active'
  BY Zenon
     DEF Inv, GetNextBatch, Unfinished, At, LifecycleInv, CanRunInv, QueuesInv
<1>6. LifecycleInv'
  BY <1>2, <1>3, <1>4, <1>5, Zenon
     DEF LifecycleInv, RecvInv, PrepareInv, FetchInv, IdleInv, PrefillInv,
         DecodeInv, AllocInv, ForwardInv, ProcessInv, CanRunInv
<1> QED BY <1>1, <1>6, Zenon DEF Inv

\* A request of the staging queue gets all that it has committed as its
\* prefix.
LEMMA PrepareStagingReqInv ==
  ASSUME NEW r \in Req, Inv, PrepareStagingReq(r) PROVE Inv'
<1>0. /\ pc = "prepare" /\ r \in todo /\ r \in active
      /\ HasRow(r) /\ kv_committed_len[r] = PromptLen[r] + output_len[r]
      /\ PromptLen[r] \in Nat \ {0} /\ output_len[r] \in Nat
           /\ BlockSize \in Nat
  BY PromptAssumption, BlockAssumption, Zenon
     DEF Inv, TypeOK, LifecycleInv, PrepareInv, PrepareStagingReq, At, First,
         Resting, Total
<1>1. /\ kv_committed_len[r] > 0
      /\ PromptLen[r] + output_len[r] \in Nat
      /\ PromptLen[r] + output_len[r] + BlockSize \in Nat
      /\ (PromptLen[r] + output_len[r] + BlockSize)
            - (PromptLen[r] + output_len[r]) = BlockSize
  BY <1>0, SMTT(30)
<1>2. /\ fill_len' = [fill_len EXCEPT ![r] =
                         PromptLen[r] + output_len[r] + BlockSize]
      /\ prefix_len' = [prefix_len EXCEPT ![r] = PromptLen[r] + output_len[r]]
      /\ extend_input_len' = [extend_input_len EXCEPT ![r] = BlockSize]
  BY <1>0, <1>1, Zenon DEF PrepareStagingReq, NextPrefix
<1>t. TypeOK'
  <2>1. /\ fill_len' \in [Req -> Nat] /\ prefix_len' \in [Req -> Nat]
        /\ extend_input_len' \in [Req -> Nat]
    BY <1>0, <1>1, <1>2, Zenon DEF Inv, TypeOK
  <2> QED
    BY <2>1, Zenon
       DEF Inv, TypeOK, PrepareStagingReq, Phases, queues, results, kv, pools
<1>3. QueuesInv'
  BY <1>0, Zenon
     DEF Inv, TypeOK, PrepareStagingReq, LifecycleInv, QueuesInv, Pristine,
         Finished, HasRow, Arrived, queues, results, kv, pools
<1>4. PrepareInv'
  BY <1>0, <1>2, ZenonT(30)
     DEF Inv, TypeOK, PrepareStagingReq, LifecycleInv, PrepareInv, Resting,
         Settled, Total, HasRow, queues, results, kv, pools
<1>5. LifecycleInv'
  BY <1>0, <1>3, <1>4, Zenon
     DEF Inv, PrepareStagingReq, queues, results, LifecycleInv, LiveInv,
         RecvInv, FetchInv, IdleInv, PrefillInv, Finished, DecodeInv,
         AllocInv, ForwardInv, ProcessInv, CanRunInv
<1> QED BY <1>t, <1>5, Zenon DEF Inv

\* When the staging queue is emptied every active request is settled.
LEMMA PrepareDoneInv ==
  ASSUME Inv, PrepareDone PROVE Inv'
<1>1. TypeOK'
  BY Zenon DEF Inv, TypeOK, PrepareDone, PCs, inputs, results, kv, pools, reqs
<1>2. LifecycleInv'
  BY Zenon DEF Inv, TypeOK, PrepareDone, At, inputs, results, kv, pools, reqs,
         LifecycleInv, QueuesInv, LiveInv, RecvInv, PrepareInv, FetchInv,
         IdleInv, PrefillInv, DecodeInv, AllocInv, ForwardInv, ProcessInv,
         CanRunInv, Pristine, Settled, Total, Finished, HasRow, Arrived
<1> QED BY <1>1, <1>2, Zenon DEF Inv

\* A fetched request moves from waiting_queue to DllmManager, unless the loop
\* raises.
LEMMA FetchWaitingReqInv ==
  ASSUME NEW r \in Req, Inv, FetchWaitingReq(r) PROVE Inv'
<1>0. r \notin active
  BY Zenon DEF Inv, LifecycleInv, QueuesInv, FetchWaitingReq, First
<1>1. TypeOK'
  BY <1>0, Zenon
     DEF Inv, TypeOK, FetchWaitingReq, inputs, results, kv, pools, control,
         reqs
<1>2. QueuesInv'
  BY <1>0
     DEF Inv, TypeOK, FetchWaitingReq, First, inputs, results, kv, pools,
         control, reqs, LifecycleInv, QueuesInv, Pristine, Finished, HasRow,
         Arrived
<1>3. FetchInv' /\ LiveInv'
  BY <1>0
     DEF Inv, TypeOK, FetchWaitingReq, At, First, inputs, results, kv, pools,
         control, reqs, LifecycleInv, QueuesInv, LiveInv, FetchInv, Pristine,
         Settled, Total, Finished, HasRow
<1>4. LifecycleInv'
  BY <1>0, <1>2, <1>3, Zenon
     DEF Inv, FetchWaitingReq, At, control, LifecycleInv, RecvInv, PrepareInv,
         IdleInv, PrefillInv, DecodeInv, AllocInv, ForwardInv, ProcessInv,
         CanRunInv
<1> QED BY <1>1, <1>4, Zenon DEF Inv

\* The requests to admit are the active ones of one phase.
LEMMA FetchDoneInv ==
  ASSUME Inv, FetchDone PROVE Inv'
<1>1. adder' \in AdderType
  BY LimitsAssumption, BlockAssumption DEF FetchDone, NewAdder, AdderType
<1>2. TypeOK'
  <2>1. /\ batch' \in [mode : {"NONE", "EXTEND", "DLLM_EXTEND"}, reqs :
             SUBSET Req]
        /\ todo' \subseteq Req /\ pc' \in PCs
    BY DEF Inv, TypeOK, FetchDone, Phase, PCs
  <2> QED
    BY <1>1, <2>1, Zenon
       DEF Inv, TypeOK, FetchDone, queues, inputs, results, kv, pools, reqs
<1>3. QueuesInv' /\ LiveInv'
  BY ZenonT(30)
     DEF Inv, FetchDone, At, queues, inputs, results, kv, reqs, LifecycleInv,
         QueuesInv, LiveInv, Pristine, Finished, HasRow, Arrived
<1>4. PrefillInv' /\ DecodeInv'
  BY DEF Inv, FetchDone, At, queues, inputs, results, kv, reqs, LifecycleInv,
         FetchInv, PrefillInv, DecodeInv, CanRunInv, Settled, Total, HasRow,
         Phase
<1>5. LifecycleInv'
  BY <1>3, <1>4, Zenon
     DEF FetchDone, LifecycleInv, RecvInv, PrepareInv, FetchInv, IdleInv,
         AllocInv, ForwardInv, ProcessInv, CanRunInv
<1> QED BY <1>2, <1>5, Zenon DEF Inv

\* The budget record keeps its type.
LEMMA UpdatePrefillBudgetType ==
  ASSUME NEW extend \in Nat, NEW max_new \in Nat, adder \in AdderType,
         UpdatePrefillBudget(extend, max_new)
  PROVE  adder' \in AdderType
<1> DEFINE a == adder.rem_total_token_offset + extend + max_new + 1
           b == adder.rem_input_tokens - extend
           c == adder.rem_dllm_tokens - extend
<1>1. a \in Nat /\ b \in Int /\ c \in Int
  BY DEF AdderType
<1>2. adder' = [rem_total_token_offset |-> a, rem_input_tokens |-> b,
        rem_dllm_tokens |-> c]
  BY Zenon DEF UpdatePrefillBudget
<1> HIDE DEF a, b, c
<1> QED BY <1>1, <1>2, Zenon DEF AdderType

\* An admitted prompt has no row and no prefix yet.
LEMMA AdmitPrefillInv ==
  ASSUME NEW r \in Req, Inv, AdmitPrefill(r) PROVE Inv'
<1>0. /\ pc = "prefill" /\ pc' = pc /\ r \in todo /\ r \in active
           /\ r \notin can_run_list
      /\ ~HasRow(r) /\ output_len[r] = 0 /\ dllm_phase[r] = "INCOMING_PREFILL"
      /\ PromptLen[r] \in Nat
  BY PromptAssumption, Zenon
     DEF Inv, TypeOK, LifecycleInv, PrefillInv, AdmitPrefill, At, First,
         Settled, Phase
<1>1. adder' \in AdderType
  <2>1. MinOf(MaxNewTokens[r], ClipMaxNewTokens) \in Nat
    BY MaxNewAssumption, LimitsAssumption, Zenon DEF MinOf
  <2> QED
    BY <1>0, <2>1, UpdatePrefillBudgetType, Zenon
       DEF Inv, TypeOK, AdmitPrefill
<1>a. \/ UNCHANGED inputs
      \/ /\ fill_len' = [fill_len EXCEPT ![r] = PromptLen[r]]
         /\ prefix_len' = [prefix_len EXCEPT ![r] = 0]
         /\ extend_input_len' = [extend_input_len EXCEPT ![r] = PromptLen[r]]
         /\ dllm_phase' = dllm_phase
  BY Zenon DEF AdmitPrefill
<1>b. \/ todo' = {} /\ can_run_list' = can_run_list
      \/ /\ todo' = todo \ {r} /\ can_run_list' = can_run_list \cup {r}
         /\ fill_len' = [fill_len EXCEPT ![r] = PromptLen[r]]
         /\ prefix_len' = [prefix_len EXCEPT ![r] = 0]
         /\ extend_input_len' = [extend_input_len EXCEPT ![r] = PromptLen[r]]
  BY Zenon DEF AdmitPrefill
<1>c. UNCHANGED <<queues, batch, results, kv, pools, pc, status>>
  BY Zenon DEF AdmitPrefill
<1>2. TypeOK'
  <2>1. batch_is_full' \in BOOLEAN
    BY Zenon DEF AdmitPrefill
  <2>2. /\ fill_len' \in [Req -> Nat] /\ prefix_len' \in [Req -> Nat]
        /\ extend_input_len' \in [Req -> Nat]
             /\ dllm_phase' \in [Req -> Phases]
        /\ todo' \subseteq Req /\ can_run_list' \subseteq Req
    BY <1>0, <1>a, <1>b, ZenonT(30) DEF Inv, TypeOK, inputs
  <2> QED
    BY <1>1, <1>c, <2>1, <2>2, Zenon
       DEF Inv, TypeOK, queues, results, kv, pools
<1>3. QueuesInv'
  BY <1>0, Zenon
     DEF Inv, TypeOK, AdmitPrefill, LifecycleInv, QueuesInv, Pristine,
         Finished, HasRow, Arrived, inputs, queues, results, kv, pools
<1>4. PrefillInv'
  BY <1>0, <1>a, <1>b, <1>c
     DEF Inv, TypeOK, LifecycleInv, PrefillInv, PromptReady, Settled, Total,
         HasRow, Phase, inputs, queues, results, kv
<1>5. LifecycleInv'
  BY <1>0, <1>3, <1>4, Zenon
     DEF Inv, AdmitPrefill, queues, results, LifecycleInv, LiveInv, RecvInv,
         PrepareInv, FetchInv, IdleInv, Finished, DecodeInv, AllocInv,
         ForwardInv, ProcessInv, CanRunInv
<1> QED BY <1>2, <1>5, Zenon DEF Inv

\* The remaining block budget is an integer.
LEMMA DllmRemainType ==
  ASSUME NEW a \in AdderType, free_pages \in Seq(AnySlot)
  PROVE  DllmRemainTokens(a) \in Int
<1>1. Len(free_pages) \in Nat /\ a.rem_total_token_offset \in Nat
        /\ a.rem_dllm_tokens \in Int
  BY DEF AdderType
<1> QED BY <1>1, BlockAssumption DEF DllmRemainTokens, MinOf

\* An admitted block, truncated or not, starts behind the committed KV.
LEMMA AdmitDecodeInv ==
  ASSUME NEW r \in Req, Inv, AdmitDecode(r) PROVE Inv'
<1> DEFINE rem == DllmRemainTokens(adder)
           extend == MinOf(extend_input_len[r], rem)
<1>0. /\ pc = "decode" /\ pc' = pc /\ r \in todo /\ r \in active
      /\ HasRow(r) /\ dllm_phase[r] = "STAGING_DECODE"
      /\ kv_committed_len[r] = Total(r) /\ prefix_len[r] = Total(r)
      /\ prefix_len[r] \in Nat
  BY Zenon
     DEF Inv, TypeOK, LifecycleInv, DecodeInv, AdmitDecode, At, First,
         Settled, BlockReady, Phase
<1>1. rem \in Int /\ (rem > 0 =>
        extend \in Nat /\ prefix_len[r] + extend \in Nat)
  BY <1>0, DllmRemainType DEF Inv, TypeOK, MinOf
<1>2. IF rem <= 0 THEN todo' = {} /\ UNCHANGED <<inputs, can_run_list, adder>>
      ELSE /\ extend_input_len' = [extend_input_len EXCEPT ![r] = extend]
           /\ fill_len' = [fill_len EXCEPT ![r] = prefix_len[r] + extend]
           /\ UNCHANGED <<dllm_phase, prefix_len>>
           /\ can_run_list' = can_run_list \cup {r}
           /\ todo' \subseteq todo
           /\ \E m \in Nat : UpdatePrefillBudget(extend, m)
  <2>1. MinOf(MaxNewTokens[r], ClipMaxNewTokens) \in Nat
    BY MaxNewAssumption, LimitsAssumption, Zenon DEF MinOf
  <2> QED BY <2>1, Zenon DEF AdmitDecode
<1>c. UNCHANGED <<queues, batch, batch_is_full, results, kv, pools, pc,
        status>>
  BY Zenon DEF AdmitDecode
<1> HIDE DEF rem, extend
<1>3. adder' \in AdderType
  BY <1>1, <1>2, UpdatePrefillBudgetType DEF Inv, TypeOK
<1>4. TypeOK'
  <2>1. /\ fill_len' \in [Req -> Nat] /\ prefix_len' \in [Req -> Nat]
        /\ extend_input_len' \in [Req -> Nat]
             /\ dllm_phase' \in [Req -> Phases]
        /\ todo' \subseteq Req /\ can_run_list' \subseteq Req
    <3>1. CASE rem <= 0
      BY <1>2, <3>1, Zenon DEF Inv, TypeOK, inputs
    <3>2. CASE rem > 0
      <4>1. /\ fill_len \in [Req -> Nat] /\ prefix_len \in [Req -> Nat]
            /\ extend_input_len \in [Req -> Nat]
            /\ dllm_phase \in [Req -> Phases]
            /\ todo \subseteq Req /\ can_run_list \subseteq Req
        BY Zenon DEF Inv, TypeOK
      <4>2. extend \in Nat /\ prefix_len[r] + extend \in Nat /\ ~(rem <= 0)
        BY <1>1, <3>2
      <4> QED BY <1>2, <4>1, <4>2, Zenon
    <3> QED BY <1>1, <3>1, <3>2
  <2> QED
    BY <1>3, <1>c, <2>1, Zenon DEF Inv, TypeOK, queues, results, kv, pools
<1>5. QueuesInv'
  BY <1>0, <1>2, Zenon
     DEF Inv, TypeOK, AdmitDecode, LifecycleInv, QueuesInv, Pristine,
         Finished, HasRow, Arrived, inputs, queues, results, kv, pools
<1>6. DecodeInv'
  BY <1>0, <1>1, <1>2, <1>c, SMTT(30)
     DEF Inv, TypeOK, LifecycleInv, DecodeInv, BlockReady, Settled, Total,
         HasRow, Phase, inputs, queues, results, kv
<1>7. LifecycleInv'
  BY <1>0, <1>5, <1>6, Zenon
     DEF Inv, AdmitDecode, queues, results, LifecycleInv, LiveInv, RecvInv,
         PrepareInv, FetchInv, IdleInv, Finished, PrefillInv, AllocInv,
         ForwardInv, ProcessInv, CanRunInv
<1> QED BY <1>4, <1>7, Zenon DEF Inv

\* The batch, and the staging queue with it, is what was admitted.
LEMMA AdmitDoneInv ==
  ASSUME Inv, AdmitDone PROVE Inv'
<1>1. TypeOK'
  <2>1. /\ batch' \in [mode : {"NONE", "EXTEND", "DLLM_EXTEND"}, reqs :
             SUBSET Req]
        /\ pc' \in PCs /\ adder' \in AdderType
    BY DEF Inv, TypeOK, AdmitDone, NoBatch, NoAdder, AdderType, PCs
  <2> QED
    BY <2>1, Zenon
       DEF Inv, TypeOK, AdmitDone, inputs, results, kv, pools, reqs
<1>2. /\ pc \in {"prefill", "decode"} /\ can_run_list \subseteq active
      /\ pc = "prefill" => batch.mode = "EXTEND"
      /\ pc = "decode" => batch.mode = "DLLM_EXTEND"
  BY Zenon DEF Inv, AdmitDone, At, LifecycleInv, PrefillInv, DecodeInv
<1>3. \/ pc' = "idle" /\ batch' = NoBatch /\ can_run_list = {}
      \/ pc' = "alloc" /\ batch'.reqs = can_run_list
           /\ batch'.mode = batch.mode
  BY Zenon DEF AdmitDone, Inv, TypeOK
<1>4. QueuesInv'
  BY <1>2, Zenon
     DEF Inv, TypeOK, AdmitDone, inputs, results, kv, pools, reqs,
         LifecycleInv, QueuesInv, Pristine, Finished, HasRow, Arrived
<1>5. FetchInv'
  BY <1>2, <1>3, Zenon
     DEF Inv, TypeOK, AdmitDone, inputs, results, kv, pools, reqs,
         LifecycleInv, PrefillInv, DecodeInv, FetchInv, Settled, Total, HasRow
<1>6. AllocInv'
  BY <1>2, <1>3, Zenon
     DEF Inv, TypeOK, AdmitDone, inputs, results, kv, pools, reqs,
         LifecycleInv, PrefillInv, DecodeInv, AllocInv, Settled, PromptReady,
         BlockReady, Total, HasRow
<1>7. LiveInv'
  BY <1>2, <1>3, Zenon
     DEF Inv, TypeOK, AdmitDone, inputs, results, kv, pools, reqs,
         LifecycleInv, LiveInv, Finished
<1>8. LifecycleInv'
  BY <1>3, <1>4, <1>5, <1>6, <1>7, Zenon
     DEF AdmitDone, LifecycleInv, RecvInv, PrepareInv, IdleInv, PrefillInv,
         DecodeInv, ForwardInv, ProcessInv, CanRunInv
<1> QED BY <1>1, <1>8, Zenon DEF Inv

\* When every request has its slots the batch can be run.
LEMMA AllocDoneInv ==
  ASSUME Inv, AllocDone PROVE Inv'
<1>1. TypeOK'
  BY Zenon
     DEF Inv, TypeOK, AllocDone, PCs, queues, inputs, results, kv, pools, reqs
<1>2. QueuesInv' /\ LiveInv'
  BY Zenon
     DEF Inv, TypeOK, AllocDone, At, queues, inputs, results, kv, pools, reqs,
         LifecycleInv, QueuesInv, LiveInv, Pristine, Finished, HasRow, Arrived
<1>3. AllocInv'
  BY Zenon
     DEF Inv, TypeOK, AllocDone, At, queues, inputs, results, kv, pools, reqs,
         LifecycleInv, AllocInv, Settled, Resting, BlockAllocated, Total,
         HasRow
<1>4. LifecycleInv'
  BY <1>2, <1>3, Zenon
     DEF Inv, AllocDone, At, LifecycleInv, RecvInv, PrepareInv, FetchInv,
         IdleInv, PrefillInv, DecodeInv, ForwardInv, ProcessInv, CanRunInv
<1> QED BY <1>1, <1>4, Zenon DEF Inv

\* After a prompt batch every request of it rests with its prompt committed.
LEMMA ForwardPromptInv ==
  ASSUME Inv, ForwardPrompt PROVE Inv'
<1>1. TypeOK'
  BY Zenon DEF Inv, TypeOK, ForwardPrompt, PCs, queues, results, kv, pools
<1>2. QueuesInv'
  BY Zenon
     DEF Inv, TypeOK, ForwardPrompt, queues, results, kv, pools, LifecycleInv,
         QueuesInv, Pristine, Finished, HasRow, Arrived
<1>3. RecvInv'
  BY Zenon
     DEF Inv, TypeOK, ForwardPrompt, At, queues, results, kv, pools,
         LifecycleInv, AllocInv, RecvInv, Settled, Resting, Total, HasRow
<1>4. LifecycleInv'
  BY <1>2, <1>3, Zenon
     DEF Inv, ForwardPrompt, At, LifecycleInv, LiveInv, PrepareInv, FetchInv,
         IdleInv, PrefillInv, DecodeInv, AllocInv, ForwardInv, ProcessInv,
         CanRunInv
<1> QED BY <1>1, <1>4, Zenon DEF Inv

\* After a block batch every live request of it is at rest.
LEMMA ProcessDoneInv ==
  ASSUME Inv, ProcessDone PROVE Inv'
<1>1. TypeOK'
  BY Zenon
     DEF Inv, TypeOK, ProcessDone, PCs, queues, inputs, results, kv, pools,
         reqs
<1>2. QueuesInv'
  BY Zenon
     DEF Inv, TypeOK, ProcessDone, queues, inputs, results, kv, pools, reqs,
         LifecycleInv, QueuesInv, Pristine, Finished, HasRow, Arrived
<1>3. RecvInv'
  BY Zenon DEF Inv, TypeOK, ProcessDone, At, queues, inputs, results, kv, pools,
         reqs, LifecycleInv, ProcessInv, RecvInv, Settled, Resting, Total,
         HasRow, Finished
<1>4. LifecycleInv'
  BY <1>2, <1>3, Zenon
     DEF Inv, ProcessDone, At, LifecycleInv, LiveInv, PrepareInv, FetchInv,
         IdleInv, PrefillInv, DecodeInv, AllocInv, ForwardInv, ProcessInv,
         CanRunInv
<1> QED BY <1>1, <1>4, Zenon DEF Inv

\* The idle check changes nothing but the control state.
LEMMA OnIdleInv ==
  ASSUME Inv, OnIdle PROVE Inv'
<1>1. CASE Raise("leak")
  BY <1>1, RaiseInv, Zenon DEF Errors
<1>2. CASE ~Raise("leak")
  <2>1. TypeOK'
    BY <1>2, ZenonT(30)
       DEF Inv, TypeOK, OnIdle, PCs, queues, inputs, results, kv, pools, reqs
  <2>2. QueuesInv' /\ RecvInv'
    BY <1>2
       DEF Inv, TypeOK, OnIdle, At, queues, inputs, results, kv, pools, reqs,
           LifecycleInv, QueuesInv, FetchInv, IdleInv, RecvInv, Settled,
           Total, Pristine, Finished, HasRow, Arrived
  <2>3. LifecycleInv'
    BY <1>2, <2>2, Zenon
       DEF Inv, OnIdle, At, LifecycleInv, LiveInv, PrepareInv, FetchInv,
           IdleInv, PrefillInv, DecodeInv, AllocInv, ForwardInv, ProcessInv,
           CanRunInv
  <2> QED BY <2>1, <2>3, Zenon DEF Inv
<1> QED BY <1>1, <1>2, Zenon

(* Sequences *)

LEMMA SeqLen ==
  ASSUME NEW S, NEW s \in Seq(S)
  PROVE  Len(s) \in Nat /\ DOMAIN s = 1..Len(s) /\ (s # << >> => Len(s) > 0)
OBVIOUS

\* A function on 1..n is a sequence of length n.
LEMMA SeqOfFunction ==
  ASSUME NEW S, NEW n \in Nat, NEW f \in [1..n -> S]
  PROVE  f \in Seq(S) /\ Len(f) = n
OBVIOUS

LEMMA SameSeq ==
  ASSUME NEW S, NEW s \in Seq(S), NEW t \in Seq(S), Len(s) = Len(t),
         \A i \in 1..Len(s) : s[i] = t[i]
  PROVE  s = t
OBVIOUS

LEMMA ConcatSeq ==
  ASSUME NEW S, NEW s \in Seq(S), NEW t \in Seq(S)
  PROVE  /\ s \o t \in Seq(S) /\ Len(s \o t) = Len(s) + Len(t)
         /\ \A i \in 1..(Len(s) + Len(t)) :
              (s \o t)[i] = IF i <= Len(s) THEN s[i] ELSE t[i - Len(s)]
OBVIOUS

LEMMA AppendSeq ==
  ASSUME NEW S, NEW s \in Seq(S), NEW e \in S
  PROVE  /\ Append(s, e) \in Seq(S) /\ Len(Append(s, e)) = Len(s) + 1
         /\ \A i \in 1..Len(s) : Append(s, e)[i] = s[i]
         /\ Append(s, e)[Len(s) + 1] = e
OBVIOUS

LEMMA TailSeq ==
  ASSUME NEW S, NEW s \in Seq(S), s # << >>
  PROVE  /\ Head(s) = s[1] /\ Tail(s) \in Seq(S) /\ Len(Tail(s)) = Len(s) - 1
         /\ \A i \in 1..(Len(s) - 1) : Tail(s)[i] = s[i + 1]
OBVIOUS

\* What is left of a sequence whose first n elements are taken.
LEMMA SubSeqTail ==
  ASSUME NEW S, NEW s \in Seq(S), NEW n \in Nat, n <= Len(s)
  PROVE  /\ SubSeq(s, n + 1, Len(s)) \in Seq(S)
         /\ Len(SubSeq(s, n + 1, Len(s))) = Len(s) - n
         /\ \A i \in 1..(Len(s) - n) : SubSeq(s, n + 1, Len(s))[i] = s[n + i]
OBVIOUS

-----------------------------------------------------------------------------
\* A slice of a row holds the slots of its positions in order.
LEMMA RowSliceType ==
  ASSUME TypeOK, NEW r \in Req, HasRow(r), NEW a \in Nat, NEW b \in Nat,
         a <= b, b <= RowWidth
  PROVE  /\ RowSlice(r, a, b) \in Seq(AnySlot)
         /\ Len(RowSlice(r, a, b)) = b - a
         /\ \A i \in 1..(b - a) : RowSlice(r, a, b)[i] = SlotAt(r, a + i - 1)
<1>1. \A i \in 1..(b - a) : a + i - 1 \in Positions
  BY PoolAssumption DEF Positions
<1>2. req_pool_idx[r] \in Rows
  BY Zenon DEF TypeOK, HasRow
<1>3. \A i \in 1..(b - a) : SlotAt(r, a + i - 1) \in AnySlot
  <2>1. \A p \in Positions : SlotAt(r, p) \in AnySlot
    BY <1>2 DEF TypeOK, SlotAt
  <2> QED BY <1>1, <2>1, Zenon
<1>4. PICK n \in Nat : n = b - a
  OBVIOUS
<1>5. RowSlice(r, a, b) = [i \in 1..n |-> SlotAt(r, a + i - 1)]
  BY <1>4, Zenon DEF RowSlice, SlotAt
<1>6. RowSlice(r, a, b) \in [1..n -> AnySlot]
  BY <1>3, <1>4, <1>5, Zenon
<1>7. RowSlice(r, a, b) \in Seq(AnySlot) /\ Len(RowSlice(r, a, b)) = n
  BY <1>6, SeqOfFunction, Zenon
<1> QED BY <1>4, <1>5, <1>7, Zenon

\* What AllocForExtend does when it raises nothing, in the states the loop can
\* be in: r appends to its row, or takes the next free one, the first n free
\* slots.
Allocates(r, row, n) ==
    /\ pc = "alloc" /\ pc' = pc
    /\ r \in todo /\ r \in batch.reqs /\ r \in active
    /\ n = extend_input_len[r] /\ n <= Len(free_pages)
    /\ fill_len[r] = prefix_len[r] + n /\ fill_len[r] <= RowWidth
    /\ IF HasRow(r)
         THEN /\ row = req_pool_idx[r] /\ free_slots' = free_slots
              /\ prefix_len[r] = kv_committed_len[r]
         ELSE /\ free_slots # <<>> /\ row = Head(free_slots)
              /\ free_slots' = Tail(free_slots)
              /\ prefix_len[r] = 0
    /\ req_pool_idx' = [req_pool_idx EXCEPT ![r] = row]
    /\ kv_committed_len' = [kv_committed_len EXCEPT ![r] = fill_len[r]]
    /\ req_to_token' =
         [req_to_token EXCEPT ![row] =
            [p \in Positions |->
               IF prefix_len[r] <= p /\ p < fill_len[r]
                 THEN free_pages[p - prefix_len[r] + 1]
                 ELSE req_to_token[row][p]]]
    /\ free_pages' = SubSeq(free_pages, n + 1, Len(free_pages))
    /\ todo' = todo \ {r}
    /\ UNCHANGED <<queues, batch, batch_is_full, inputs, results,
                   can_run_list, adder, status>>

\* alloc_for_extend that does not raise allocates n slots behind the prefix.
LEMMA AllocFacts ==
  ASSUME NEW r \in Req, Inv, AllocForExtend(r), status' = "ok"
  PROVE  \E row \in Rows, n \in Nat : Allocates(r, row, n)
<1> DEFINE row == IF HasRow(r) THEN req_pool_idx[r] ELSE Head(free_slots)
           n == extend_input_len[r]
<1>1. /\ pc = "alloc" /\ r \in todo /\ r \in batch.reqs /\ r \in active
      /\ IF batch.mode = "EXTEND" THEN PromptReady(r) ELSE BlockReady(r)
  BY Zenon
     DEF AllocForExtend, At, First, Inv, LifecycleInv, AllocInv, QueuesInv
<1>2. /\ n \in Nat /\ fill_len[r] = prefix_len[r] + n
      /\ IF HasRow(r)
           THEN prefix_len[r] = kv_committed_len[r] ELSE prefix_len[r] = 0
  BY <1>1, PromptAssumption DEF Inv, TypeOK, PromptReady, BlockReady
<1>3. /\ HasRow(r) \/ free_slots # <<>>
      /\ ~(Len(free_pages) < n) /\ ~(fill_len[r] > RowWidth)
  BY Zenon DEF AllocForExtend, Raise, Errors
<1>4. /\ n <= Len(free_pages) /\ fill_len[r] <= RowWidth
  BY <1>2, <1>3, PoolAssumption DEF Inv, TypeOK
<1>5. row \in Rows
  BY <1>3 DEF Inv, TypeOK, HasRow
<1>6. Allocates(r, row, n)
  BY <1>1, <1>2, <1>3, <1>4, Zenon DEF AllocForExtend, Allocates
<1> QED BY <1>2, <1>5, <1>6, Zenon

\* An allocation keeps the types.
LEMMA AllocatesType ==
  ASSUME NEW r \in Req, NEW row \in Rows, NEW n \in Nat, Inv,
         Allocates(r, row, n)
  PROVE  TypeOK'
<1>1. /\ free_pages' \in Seq(AnySlot)
  <2>1. free_pages \in Seq(AnySlot) /\ n <= Len(free_pages)
    BY Zenon DEF Inv, TypeOK, Allocates
  <2> QED BY <2>1, SubSeqTail, Zenon DEF Allocates
<1>2. req_to_token' \in [Rows -> [Positions -> AnySlot]]
  <2> DEFINE new == [p \in Positions |->
                       IF prefix_len[r] <= p /\ p < fill_len[r]
                         THEN free_pages[p - prefix_len[r] + 1]
                         ELSE req_to_token[row][p]]
  <2>1. ASSUME NEW p \in Positions, prefix_len[r] <= p, p < fill_len[r]
        PROVE  p - prefix_len[r] + 1 \in 1..Len(free_pages)
    <3>1. /\ prefix_len[r] \in Nat /\ Len(free_pages) \in Nat /\ p \in Int
          /\ fill_len[r] = prefix_len[r] + n /\ n <= Len(free_pages)
      BY DEF Inv, TypeOK, Allocates, Positions
    <3> QED BY <2>1, <3>1
  <2>2. new \in [Positions -> AnySlot]
    BY <2>1 DEF Inv, TypeOK
  <2> QED BY <2>2, Zenon DEF Inv, TypeOK, Allocates
<1>3. free_slots' \in Seq(Rows)
  <2>1. free_slots \in Seq(Rows)
    BY Zenon DEF Inv, TypeOK
  <2> QED BY <2>1, TailSeq, Zenon DEF Allocates
<1>4. /\ req_pool_idx' \in [Req -> Rows \cup {NoRow}]
      /\ kv_committed_len' \in [Req -> Nat]
  BY Zenon DEF Inv, TypeOK, Allocates
<1> QED
  BY <1>1, <1>2, <1>3, <1>4, Zenon
     DEF Inv, TypeOK, Allocates, queues, inputs, results

\* alloc_for_extend leaves a row that ends where the input of its request
\* ends.
LEMMA AllocForExtendInv ==
  ASSUME NEW r \in Req, Inv, AllocForExtend(r) PROVE Inv'
<1>1. CASE status' # "ok"
  BY <1>1, RaiseInv, Zenon DEF AllocForExtend, At, Errors
<1>2. CASE status' = "ok"
  <2>1. PICK row \in Rows, n \in Nat : Allocates(r, row, n)
    BY <1>2, AllocFacts, Zenon
  <2>2. row # NoRow
    BY PoolAssumption DEF Rows, NoRow
  <2>3. TypeOK'
    BY <2>1, AllocatesType, Zenon
  <2>4. QueuesInv'
    BY <2>1, <2>2, Zenon
       DEF Inv, TypeOK, Allocates, queues, inputs, results, LifecycleInv,
           LiveInv, QueuesInv, Pristine, Finished, HasRow, Arrived
  <2>5. AllocInv'
    <3>1. IF batch.mode = "EXTEND" THEN PromptReady(r) ELSE BlockReady(r)
      BY <2>1, Zenon DEF Allocates, Inv, LifecycleInv, AllocInv
    <3>2. IF batch.mode = "EXTEND" THEN Resting(r)' ELSE BlockAllocated(r)'
      <4>1. /\ HasRow(r)' /\ kv_committed_len'[r] = fill_len[r]
            /\ dllm_phase'[r] = dllm_phase[r] /\ Total(r)' = Total(r)
            /\ output_len'[r] = output_len[r]
            /\ prefix_len'[r] = prefix_len[r] /\ fill_len'[r] = fill_len[r]
            /\ extend_input_len'[r] = extend_input_len[r]
        BY <2>1, <2>2, Zenon
           DEF Inv, TypeOK, Allocates, inputs, results, Total, HasRow
      <4>2. PromptReady(r) => fill_len[r] = Total(r)
        BY PromptAssumption DEF PromptReady, Total
      <4> QED
        BY <3>1, <4>1, <4>2, Zenon
           DEF PromptReady, BlockReady, Resting, BlockAllocated
    <3>3. \A q \in Req \ {r} : /\ PromptReady(q) => PromptReady(q)'
                               /\ Resting(q) => Resting(q)'
                               /\ BlockReady(q) => BlockReady(q)'
                               /\ BlockAllocated(q) => BlockAllocated(q)'
                               /\ Settled(q) => Settled(q)'
      BY <2>1, Zenon
         DEF Inv, TypeOK, Allocates, queues, inputs, results, PromptReady,
             BlockReady, Resting, BlockAllocated, Settled, Total, HasRow
    <3> QED
      BY <2>1, <3>2, <3>3, Zenon
         DEF Inv, TypeOK, Allocates, queues, LifecycleInv, QueuesInv, AllocInv
  <2>6. LifecycleInv'
    BY <2>1, <2>4, <2>5, ZenonT(30)
       DEF Inv, Allocates, queues, results, Finished, LifecycleInv, LiveInv,
           RecvInv, PrepareInv, FetchInv, IdleInv, PrefillInv, DecodeInv,
           ForwardInv, ProcessInv, CanRunInv
  <2> QED BY <2>3, <2>6, Zenon DEF Inv
<1> QED BY <1>1, <1>2, Zenon

\* r gives back the slots of its positions from m on.
Truncates(r, m) ==
    /\ free_pages' = free_pages \o RowSlice(r, m, kv_committed_len[r])
    /\ kv_committed_len' = [kv_committed_len EXCEPT ![r] = m]
    /\ UNCHANGED <<req_pool_idx, free_slots, req_to_token>>

\* r gives back the slots of its positions from m on, those before m, its row.
Releases(r, m) ==
    /\ free_pages' = free_pages \o RowSlice(r, m, kv_committed_len[r])
                                \o RowSlice(r, 0, m)
    /\ kv_committed_len' = [kv_committed_len EXCEPT ![r] = m]
    /\ req_pool_idx' = [req_pool_idx EXCEPT ![r] = NoRow]
    /\ free_slots' = Append(free_slots, req_pool_idx[r])
    /\ UNCHANGED req_to_token

\* A request whose block is being processed: what it has committed is its
\* prompt and output and one block more.
LEMMA InProcess ==
  ASSUME NEW r \in Req, Inv, At("process"), First(r, todo)
  PROVE  /\ r \in batch.reqs /\ r \in active /\ r \in staging_queue
         /\ HasRow(r) /\ ~Finished(r)
         /\ dllm_phase[r] = "STAGING_DECODE"
         /\ Total(r) \in Nat
         /\ kv_committed_len[r] = Total(r) + BlockSize
         /\ kv_committed_len[r] <= RowWidth
         /\ Masks(r) = BlockSize
<1>1. /\ r \in batch.reqs /\ r \in active /\ r \in staging_queue
      /\ ~Finished(r) /\ BlockAllocated(r) /\ extend_input_len[r] = BlockSize
      /\ kv_committed_len[r] <= RowWidth
  BY Zenon
     DEF Inv, At, First, LifecycleInv, QueuesInv, ProcessInv, BlockAllocated
<1>2. PromptLen[r] \in Nat /\ output_len[r] \in Nat /\ BlockSize \in Nat
  BY PromptAssumption, BlockAssumption, Zenon DEF Inv, TypeOK
<1> QED BY <1>1, <1>2 DEF BlockAllocated, Total, Masks, MaxOf

\* A block without tokens sets the row back to prompt and output.
LEMMA ProcessNoTokenFacts ==
  ASSUME NEW r \in Req, Inv, ProcessNoToken(r)
  PROVE  Truncates(r, Total(r))
<1>1. kv_committed_len[r] - BlockSize = Total(r)
  BY InProcess, BlockAssumption DEF ProcessNoToken
<1> QED BY <1>1, ZenonT(30) DEF ProcessNoToken, Truncates

\* A block with n tokens sets the row back to prompt and new output, or
\* releases it.
LEMMA ProcessTokensFacts ==
  ASSUME NEW r \in Req, NEW n \in AcceptedLens, NEW stop \in BOOLEAN, Inv,
         ProcessTokens(r, n, stop)
  PROVE  /\ n \in 1..BlockSize /\ Total(r) + n \in Nat
         /\ output_len' = [output_len EXCEPT ![r] = output_len[r] + n]
         /\ \/ /\ finished_reason' = [finished_reason EXCEPT ![r] = "no"]
               /\ to_finish' = to_finish
               /\ Truncates(r, Total(r) + n)
            \/ \E reason \in Finish \ {"no"} :
               /\ finished_reason' = [finished_reason EXCEPT ![r] = reason]
               /\ to_finish' = [to_finish EXCEPT ![r] = FALSE]
               /\ Releases(r, Total(r) + n)
         /\ todo' = todo \ {r}
         /\ UNCHANGED <<queues, batch, batch_is_full, inputs, pc, can_run_list,
                        adder, status>>
<1>1. At("process") /\ First(r, todo) /\ n \in 1..Masks(r)
  BY Zenon DEF ProcessTokens
<1>2. /\ ~Finished(r) /\ Masks(r) = BlockSize /\ Total(r) \in Nat
      /\ kv_committed_len[r] = Total(r) + BlockSize
  BY <1>1, InProcess, Zenon
<1>3. n \in 1..BlockSize /\ n \in Nat /\ Total(r) + n \in Nat
  BY <1>1, <1>2, BlockAssumption
<1>4. CommittedAfter(r, n) = Total(r) + n
  BY <1>2, <1>3, BlockAssumption DEF CommittedAfter
<1>5. PromptLen[r] + (output_len[r] + n) = Total(r) + n
  BY <1>3, PromptAssumption DEF Inv, TypeOK, Total
<1>6. ReleaseLen(r, Total(r) + n, output_len[r] + n) = Total(r) + n
  BY <1>5, Zenon DEF ReleaseLen, MinOf
<1>7. FinishReason(r, n, stop) \in Finish
  BY Zenon DEF FinishReason, Finish
<1>8. CASE FinishReason(r, n, stop) = "no"
  BY <1>2, <1>3, <1>4, <1>8, Zenon DEF ProcessTokens, Truncates
<1>9. CASE FinishReason(r, n, stop) # "no"
  BY <1>2, <1>3, <1>4, <1>5, <1>6, <1>7, <1>9, Zenon
     DEF ProcessTokens, Releases
<1> QED BY <1>8, <1>9, ZenonT(30)

\* Setting a row back, or releasing it, keeps the types.
LEMMA FreesType ==
  ASSUME NEW r \in Req, Inv, HasRow(r), NEW m \in Nat,
         m <= kv_committed_len[r], kv_committed_len[r] <= RowWidth,
         Truncates(r, m) \/ Releases(r, m)
  PROVE  /\ free_pages' \in Seq(AnySlot) /\ free_slots' \in Seq(Rows)
         /\ kv_committed_len' \in [Req -> Nat]
         /\ req_pool_idx' \in [Req -> Rows \cup {NoRow}]
         /\ req_to_token' = req_to_token
<1>0. TypeOK
  BY Zenon DEF Inv
<1>1. kv_committed_len[r] \in Nat /\ req_pool_idx[r] \in Rows
  BY <1>0, Zenon DEF TypeOK, HasRow
<1>2. /\ RowSlice(r, m, kv_committed_len[r]) \in Seq(AnySlot)
      /\ RowSlice(r, 0, m) \in Seq(AnySlot)
  <2>1. 0 \in Nat /\ 0 <= m /\ m <= RowWidth
    BY <1>1, PoolAssumption
  <2> QED BY <1>0, <1>1, <2>1, RowSliceType, ZenonT(30)
<1>3. free_pages \in Seq(AnySlot) /\ free_slots \in Seq(Rows)
  BY <1>0, Zenon DEF TypeOK
<1>4. /\ free_pages \o RowSlice(r, m, kv_committed_len[r]) \in Seq(AnySlot)
      /\ free_pages \o RowSlice(r, m, kv_committed_len[r])
            \o RowSlice(r, 0, m) \in Seq(AnySlot)
  BY <1>2, <1>3, ConcatSeq, Zenon
<1>5. Append(free_slots, req_pool_idx[r]) \in Seq(Rows)
  BY <1>1, <1>3, AppendSeq, Zenon
<1>6. CASE Truncates(r, m)
  BY <1>0, <1>3, <1>4, <1>6, Zenon DEF Truncates, TypeOK
<1>7. CASE Releases(r, m)
  BY <1>0, <1>4, <1>5, <1>7, Zenon DEF Releases, TypeOK
<1> QED BY <1>6, <1>7, Zenon

\* A block batch that reaches its results has whole blocks only.
LEMMA ForwardBlockInv ==
  ASSUME Inv, ForwardBlock PROVE Inv'
<1>1. CASE \E r \in batch.reqs : extend_input_len[r] # BlockSize
  BY <1>1, RaiseInv, Zenon DEF ForwardBlock, Errors
<1>2. CASE \A r \in batch.reqs : extend_input_len[r] = BlockSize
  <2>0. IF \A r \in batch.reqs : Masks(r) = 0
          THEN pc' = "recv" /\ todo' = {} ELSE pc' = "process" /\ todo' = todo
    BY <1>2, Zenon DEF ForwardBlock
  <2>1. ASSUME NEW r \in batch.reqs PROVE Masks(r) # 0
    <3>1. BlockAllocated(r) /\ extend_input_len[r] = BlockSize
      BY <1>2, Zenon DEF Inv, ForwardBlock, At, LifecycleInv, AllocInv
    <3>2. Total(r) \in Nat
      BY PromptAssumption DEF Inv, TypeOK, Total
    <3>3. Masks(r) = MaxOf(0, fill_len[r] - Total(r))
      BY Zenon DEF Masks, Total
    <3> QED BY <3>1, <3>2, <3>3, BlockAssumption DEF BlockAllocated, MaxOf
  <2>2. \/ pc' = "process" /\ todo' = todo
        \/ pc' = "recv" /\ todo' = {} /\ batch.reqs = {}
    BY <2>0, <2>1, Zenon
  <2>3. TypeOK'
    BY <1>2, <2>2, Zenon
       DEF Inv, TypeOK, ForwardBlock, PCs, queues, inputs, results, kv, pools,
           reqs
  <2>4. QueuesInv'
    BY <1>2, Zenon
       DEF Inv, TypeOK, ForwardBlock, queues, inputs, results, kv, pools,
           reqs, LifecycleInv, QueuesInv, Pristine, Finished, HasRow, Arrived
  <2>5. ProcessInv'
    BY <1>2, <2>2, SMTT(30)
       DEF Inv, TypeOK, ForwardBlock, At, queues, inputs, results, kv, pools,
           reqs, LifecycleInv, QueuesInv, LiveInv, AllocInv, ForwardInv,
           ProcessInv, Settled, BlockAllocated, Total, HasRow, Finished
  <2>6. RecvInv'
    BY <1>2, <2>2
       DEF Inv, TypeOK, ForwardBlock, At, queues, inputs, results, kv, pools,
           reqs, LifecycleInv, QueuesInv, LiveInv, AllocInv, RecvInv, Settled,
           Total, HasRow, Finished
  <2>7. LifecycleInv'
    BY <1>2, <2>2, <2>4, <2>5, <2>6, Zenon
       DEF Inv, ForwardBlock, At, LifecycleInv, LiveInv, PrepareInv, FetchInv,
           IdleInv, PrefillInv, DecodeInv, AllocInv, ForwardInv, CanRunInv
  <2> QED BY <2>3, <2>7, Zenon DEF Inv
<1> QED BY <1>1, <1>2, Zenon

\* A block without tokens leaves its request at rest.
LEMMA ProcessNoTokenInv ==
  ASSUME NEW r \in Req, Inv, ProcessNoToken(r) PROVE Inv'
<1>1. /\ r \in batch.reqs /\ HasRow(r) /\ ~Finished(r)
      /\ dllm_phase[r] = "STAGING_DECODE" /\ Total(r) \in Nat
      /\ Total(r) <= kv_committed_len[r] /\ kv_committed_len[r] <= RowWidth
      /\ kv_committed_len[r] \in Nat
  <2>1. At("process") /\ First(r, todo)
    BY Zenon DEF ProcessNoToken
  <2>2. kv_committed_len[r] \in Nat
    BY Zenon DEF Inv, TypeOK
  <2> QED BY <2>1, <2>2, InProcess, BlockAssumption
<1>2. Truncates(r, Total(r))
  BY ProcessNoTokenFacts, Zenon
<1>3. TypeOK'
  BY <1>1, <1>2, FreesType, ZenonT(30)
     DEF ProcessNoToken, Inv, TypeOK, queues, inputs, results
<1>4. QueuesInv'
  BY <1>1, <1>2, PoolAssumption
     DEF ProcessNoToken, Truncates, Inv, TypeOK, queues, inputs, results,
         LifecycleInv, QueuesInv, Pristine, Finished, HasRow, Arrived
<1>5. ProcessInv'
  <2>1. Resting(r)'
    BY <1>1, <1>2, Zenon
       DEF ProcessNoToken, Truncates, Inv, TypeOK, inputs, results, Resting,
           Total, HasRow
  <2>2. \A q \in Req \ {r} : /\ Finished(q)' = Finished(q)
                             /\ Resting(q) => Resting(q)'
                             /\ BlockAllocated(q) => BlockAllocated(q)'
                             /\ Settled(q) => Settled(q)'
    BY <1>2, Zenon
       DEF ProcessNoToken, Truncates, Inv, TypeOK, inputs, results, Resting,
           Settled, BlockAllocated, Total, Finished, HasRow
  <2> QED
    BY <1>1, <2>1, <2>2, Zenon
       DEF ProcessNoToken, At, Inv, TypeOK, queues, inputs, LifecycleInv,
           QueuesInv, ProcessInv
<1>6. LifecycleInv'
  BY <1>4, <1>5, Zenon
     DEF ProcessNoToken, At, Inv, LifecycleInv, LiveInv, RecvInv, PrepareInv,
         FetchInv, IdleInv, PrefillInv, DecodeInv, AllocInv, ForwardInv,
         CanRunInv
<1> QED BY <1>3, <1>6, Zenon DEF Inv

\* A block with tokens leaves its request at rest, or finished without a row.
LEMMA ProcessTokensInv ==
  ASSUME NEW r \in Req, NEW n \in AcceptedLens, NEW stop \in BOOLEAN, Inv,
         ProcessTokens(r, n, stop)
  PROVE  Inv'
<1>0. At("process") /\ First(r, todo)
  BY Zenon DEF ProcessTokens
<1> DEFINE m == Total(r) + n
<1>1. /\ r \in batch.reqs /\ r \in active /\ HasRow(r) /\ ~Finished(r)
      /\ dllm_phase[r] = "STAGING_DECODE"
      /\ kv_committed_len[r] \in Nat /\ kv_committed_len[r] <= RowWidth
      /\ pc = "process" /\ r \in todo
  BY <1>0, InProcess, ZenonT(30) DEF Inv, TypeOK, At, First
<1>2. m \in Nat /\ n \in Nat /\ m <= kv_committed_len[r] /\ m <= RowWidth
  <2>1. Total(r) \in Nat /\ kv_committed_len[r] = Total(r) + BlockSize
    BY <1>0, InProcess, Zenon
  <2>2. n \in 1..BlockSize
    BY ProcessTokensFacts, Zenon
  <2>3. n \in Nat /\ n <= BlockSize
    BY <2>2, BlockAssumption
  <2>4. m \in Nat /\ m <= Total(r) + BlockSize
    BY <2>1, <2>3, BlockAssumption
  <2>5. m <= RowWidth
    BY <1>1, <2>1, <2>4, PoolAssumption
  <2> QED BY <2>1, <2>3, <2>4, <2>5, Zenon
<1>3. m = PromptLen[r] + (output_len[r] + n) /\ output_len[r] + n \in Nat
  BY <1>2, PromptAssumption, SMTT(30) DEF Inv, TypeOK, Total
<1>4. /\ output_len' = [output_len EXCEPT ![r] = output_len[r] + n]
      /\ todo' = todo \ {r}
      /\ UNCHANGED <<queues, batch, batch_is_full, inputs, pc, can_run_list,
                     adder, status>>
  BY ProcessTokensFacts
<1>5. \/ /\ finished_reason' = [finished_reason EXCEPT ![r] = "no"]
         /\ to_finish' = to_finish
         /\ Truncates(r, m)
      \/ \E reason \in Finish \ {"no"} :
         /\ finished_reason' = [finished_reason EXCEPT ![r] = reason]
         /\ to_finish' = [to_finish EXCEPT ![r] = FALSE]
         /\ Releases(r, m)
  BY ProcessTokensFacts, Zenon
<1> HIDE DEF m
<1>6. TypeOK'
  <2>1. /\ output_len' \in [Req -> Nat] /\ finished_reason' \in [Req -> Finish]
        /\ to_finish' \in [Req -> BOOLEAN]
    BY <1>3, <1>4, <1>5, ZenonT(30) DEF Inv, TypeOK, Finish
  <2>2. /\ free_pages' \in Seq(AnySlot) /\ free_slots' \in Seq(Rows)
        /\ kv_committed_len' \in [Req -> Nat]
        /\ req_pool_idx' \in [Req -> Rows \cup {NoRow}]
        /\ req_to_token' = req_to_token
    BY <1>1, <1>2, <1>5, FreesType, Zenon
  <2> QED
    BY <1>4, <2>1, <2>2, Zenon DEF Inv, TypeOK, queues, inputs
<1>7. \A q \in Req \ {r} : /\ output_len'[q] = output_len[q]
                           /\ finished_reason'[q] = finished_reason[q]
                           /\ kv_committed_len'[q] = kv_committed_len[q]
                           /\ req_pool_idx'[q] = req_pool_idx[q]
  BY <1>4, <1>5, Zenon DEF Inv, TypeOK, Truncates, Releases
<1>8. kv_committed_len'[r] = m /\ output_len'[r] = output_len[r] + n
  BY <1>4, <1>5, Zenon DEF Inv, TypeOK, Truncates, Releases
<1>9. \/ finished_reason'[r] = "no" /\ req_pool_idx'[r] = req_pool_idx[r]
      \/ finished_reason'[r] # "no" /\ req_pool_idx'[r] = NoRow
  BY <1>5, Zenon DEF Inv, TypeOK, Truncates, Releases
<1>10. QueuesInv'
  <2>1. Arrived(r) /\ r \notin waiting_queue
    BY <1>1, Zenon DEF Inv, LifecycleInv, QueuesInv
  <2>2. HasRow(r)' => ~Finished(r)' /\ kv_committed_len'[r] <= RowWidth
    BY <1>2, <1>8, <1>9, Zenon DEF HasRow, Finished
  <2>3. \A q \in Req \ {r} : /\ Pristine(q) => Pristine(q)'
                             /\ HasRow(q)' = HasRow(q)
                             /\ Finished(q)' = Finished(q)
    BY <1>4, <1>7, Zenon DEF inputs, Pristine, HasRow, Finished
  <2> QED
    BY <1>1, <1>4, <1>7, <2>1, <2>2, <2>3, Zenon
       DEF Inv, TypeOK, queues, LifecycleInv, QueuesInv, Arrived
<1>11. ProcessInv'
  <2>1. Finished(r)' \/ Resting(r)'
    BY <1>1, <1>3, <1>4, <1>8, <1>9, Zenon
       DEF Finished, Resting, Total, HasRow, inputs
  <2>2. \A q \in Req \ {r} : /\ Finished(q)' = Finished(q)
                             /\ Resting(q) => Resting(q)'
                             /\ BlockAllocated(q) => BlockAllocated(q)'
                             /\ Settled(q) => Settled(q)'
    BY <1>4, <1>7, Zenon
       DEF inputs, Resting, Settled, BlockAllocated, Total, Finished, HasRow
  <2> QED
    BY <1>1, <1>4, <2>1, <2>2, Zenon
       DEF Inv, TypeOK, queues, inputs, LifecycleInv, QueuesInv, ProcessInv
<1>12. LifecycleInv'
  BY <1>1, <1>4, <1>10, <1>11, Zenon
     DEF Inv, LifecycleInv, LiveInv, RecvInv, PrepareInv, FetchInv, IdleInv,
         PrefillInv, DecodeInv, AllocInv, ForwardInv, CanRunInv
<1> QED BY <1>6, <1>12, Zenon DEF Inv

\* The invariant holds when the server starts.
LEMMA InitInv == Init => Inv
<1> SUFFICES ASSUME Init PROVE Inv
  BY Zenon
<1>1. free_pages \in Seq(AnySlot)
  <2>1. free_pages \in [1..PoolSize -> AnySlot]
    BY PoolAssumption DEF Init, AnySlot
  <2> QED BY <2>1, PoolAssumption, SeqOfFunction, Zenon
<1>2. free_slots \in Seq(Rows)
  <2>1. free_slots \in [1..NumRows -> Rows]
    BY PoolAssumption DEF Init, Rows
  <2> QED BY <2>1, PoolAssumption, SeqOfFunction, Zenon
<1>3. req_to_token \in [Rows -> [Positions -> AnySlot]]
  BY PoolAssumption DEF Init, AnySlot
<1>4. TypeOK
  <2>1. /\ batch \in [mode : {"NONE", "EXTEND", "DLLM_EXTEND"}, reqs :
             SUBSET Req]
        /\ adder \in AdderType /\ pc \in PCs
    BY DEF Init, AdderType, NoAdder, NoBatch, PCs
  <2> QED
    BY <1>1, <1>2, <1>3, <2>1, Zenon DEF Init, TypeOK, Phases, Finish
<1>5. LifecycleInv
  BY Zenon
     DEF Init, LifecycleInv, QueuesInv, LiveInv, RecvInv, PrepareInv,
         FetchInv, IdleInv, PrefillInv, DecodeInv, AllocInv, ForwardInv,
         ProcessInv, CanRunInv, Pristine, Finished, HasRow, Arrived
<1> QED BY <1>4, <1>5, Zenon DEF Inv

\* Every step of the scheduler preserves the invariant.
LEMMA NextInv == Inv /\ [Next]_vars => Inv'
<1> SUFFICES ASSUME Inv, [Next]_vars PROVE Inv'
  BY Zenon
<1>1. CASE UNCHANGED vars
  <2>1. Raise(status)
    BY <1>1, Zenon DEF Raise, vars, control
  <2> QED BY <2>1, RaiseInv, Zenon DEF Inv, TypeOK
<1>2. CASE Input
  BY <1>2, AddRequestInv, WaitingTimeoutInv, AbortRequestInv, ZenonT(30)
     DEF Input
<1>3. CASE Loop
  <2>1. ASSUME NEW r \in Req, ProcessReq(r) PROVE Inv'
    BY <2>1, ProcessNoTokenInv, ProcessTokensInv, Zenon DEF ProcessReq
  <2> QED
    BY <1>3, <2>1, GetNextBatchInv, PrepareStagingReqInv, FetchWaitingReqInv,
       PrepareDoneInv, FetchDoneInv, AdmitPrefillInv, AdmitDecodeInv,
       AdmitDoneInv, AllocForExtendInv, AllocDoneInv, ForwardPromptInv,
       ForwardBlockInv, ProcessDoneInv, OnIdleInv, Zenon
       DEF Loop
<1> QED BY <1>1, <1>2, <1>3, Zenon DEF Next

\* Only the results of a block batch add to an output, and an input that ends a
\* request leaves it as it is.
LEMMA OutputSteps ==
  ASSUME Inv, [Next]_vars,
         ~\E r \in Req, n \in AcceptedLens, stop \in BOOLEAN :
            ProcessTokens(r, n, stop)
  PROVE  /\ output_len' = output_len
         /\ \A r \in Req : Finished(r) => Finished(r)'
<1>1. CASE UNCHANGED vars
  BY <1>1, Zenon DEF vars, reqs, results, Finished
<1>2. CASE Input
  BY <1>2, Zenon
     DEF Input, AddRequest, WaitingTimeout, AbortRequest, reqs, results,
         Finished, Inv, TypeOK
<1>3. CASE Loop
  <2>1. ASSUME NEW e, Raise(e) PROVE UNCHANGED results
    BY <2>1, Zenon DEF Raise, reqs
  <2>2. UNCHANGED results
    BY <1>3, <2>1, Zenon
       DEF Loop, GetNextBatch, PrepareStagingReq, FetchWaitingReq, PrepareDone,
           FetchDone, AdmitPrefill, AdmitDecode, AdmitDone, AllocForExtend,
           AllocDone, ForwardPrompt, ForwardBlock, ProcessReq, ProcessNoToken,
           ProcessDone, OnIdle, reqs
  <2> QED BY <2>2, Zenon DEF results, Finished
<1> QED BY <1>1, <1>2, <1>3, Zenon DEF Next

\* Every variable of the scheduler always has its type.
THEOREM TypeCorrect == Spec => []TypeOK
<1>1. Inv => TypeOK
  BY Zenon DEF Inv
<1> QED BY <1>1, InitInv, NextInv, PTL DEF Spec

\* At every control point of the event loop the rows, prefixes and input
\* lengths of all requests are as LifecycleInv says: what is committed between
\* two batches is prompt and output, and what is admitted starts behind it.
THEOREM Lifecycle == Spec => []LifecycleInv
<1>1. Inv => LifecycleInv
  BY Zenon DEF Inv
<1> QED BY <1>1, InitInv, NextInv, PTL DEF Spec
=============================================================================
