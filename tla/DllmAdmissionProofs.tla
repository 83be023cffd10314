------------------------ MODULE DllmAdmissionProofs -------------------------
(***************************************************************************)
(* What admission and check_finished promise: no request is served before  *)
(* one that arrived earlier, the token budget of a prompt batch covers     *)
(* what it allocates, and no request outgrows its limit by a block.        *)
(***************************************************************************)
EXTENDS DllmSchedulerProofs, FiniteSetTheorems

\* The first n positive numbers are n.
LEMMA IntervalCount ==
  ASSUME NEW n \in Nat
  PROVE  IsFiniteSet(1..n) /\ Cardinality(1..n) = n
<1>1. 1 \in Int /\ n \in Int
  OBVIOUS
<1>2. /\ IsFiniteSet(1..n)
      /\ Cardinality(1..n) = IF 1 > n THEN 0 ELSE n - 1 + 1
  BY <1>1, FS_Interval, Zenon
<1> QED BY <1>2

\* A step that changes neither the queues nor the rows, finishes nobody and
\* stays out of the admission of prompts keeps the order.
LEMMA OrderUnchanged ==
  ASSUME Inv, OrderInv, UNCHANGED <<queues, req_pool_idx, finished_reason>>,
         pc' # "prefill",
         pc' = "alloc" => UNCHANGED <<pc, batch>>
  PROVE  OrderInv'
BY Zenon DEF OrderInv, Arrived, Finished, HasRow, queues

\* Inputs only add a request behind all others, or finish requests.
LEMMA InputOrder ==
  ASSUME Inv, OrderInv, Input PROVE OrderInv'
<1>1. ASSUME NEW r \in Req, AddRequest(r) PROVE OrderInv'
  <2>1. /\ pc' = "recv" /\ active' = active
        /\ waiting_queue' = waiting_queue \cup {r}
        /\ UNCHANGED <<finished_reason, req_pool_idx>>
    BY <1>1, Zenon DEF AddRequest, At, control, reqs, results, kv
  <2>2. /\ tickets' = tickets + 1 /\ ticket'[r] = tickets + 1
        /\ \A q \in Req \ {r} : ticket'[q] = ticket[q]
        /\ ~Arrived(r) /\ r \notin active
        /\ ticket \in [Req -> Nat] /\ tickets \in Nat
        /\ active \subseteq Req /\ waiting_queue \subseteq Req
    BY <1>1, Zenon DEF AddRequest, Inv, TypeOK, LifecycleInv, QueuesInv
  <2> QED BY <2>1, <2>2 DEF OrderInv, Arrived, Finished, HasRow
<1>2. ASSUME NEW r \in Req, WaitingTimeout(r) PROVE OrderInv'
  BY <1>2, Zenon
     DEF WaitingTimeout, At, Inv, TypeOK, OrderInv, Arrived, Finished, HasRow,
         control, kv
<1>3. ASSUME NEW R \in SUBSET Req, AbortRequest(R) PROVE OrderInv'
  BY <1>3, Zenon
     DEF AbortRequest, At, Inv, TypeOK, OrderInv, Arrived, Finished, HasRow,
         control, kv
<1> QED BY <1>1, <1>2, <1>3, Zenon DEF Input

\* filter_finished_reqs only takes finished requests out.
LEMMA GetNextBatchOrder ==
  ASSUME Inv, OrderInv, GetNextBatch PROVE OrderInv'
BY Zenon DEF GetNextBatch, Unfinished, OrderInv, Arrived, Finished, HasRow, reqs,
       results, kv

\* _fetch_waiting_reqs takes the request that has waited longest.
LEMMA FetchWaitingReqOrder ==
  ASSUME NEW r \in Req, Inv, OrderInv, FetchWaitingReq(r) PROVE OrderInv'
<1>1. CASE r \in active
  BY <1>1, Zenon
     DEF FetchWaitingReq, Inv, LifecycleInv, QueuesInv, First
<1>2. CASE r \notin active
  <2>1. ~HasRow(r)
    BY <1>2, Zenon DEF Inv, LifecycleInv, QueuesInv
  <2>2. /\ pc' = "fetch" /\ active' = active \cup {r}
        /\ waiting_queue' = waiting_queue \ {r}
        /\ UNCHANGED <<finished_reason, req_pool_idx, ticket, tickets>>
        /\ r \in waiting_queue
        /\ \A q \in waiting_queue : ticket[r] <= ticket[q]
    BY <1>2, Zenon
       DEF FetchWaitingReq, First, At, control, reqs, results, kv
  <2> QED BY <2>1, <2>2 DEF OrderInv, Arrived, Finished, HasRow
<1> QED BY <1>1, <1>2, Zenon

\* A prompt batch starts empty, with every request that waits for its prompt.
LEMMA FetchDoneOrder ==
  ASSUME Inv, OrderInv, FetchDone PROVE OrderInv'
<1>1. can_run_list = {}
  BY Zenon DEF FetchDone, At, Inv, LifecycleInv, CanRunInv
<1>2. pc' \in {"prefill", "decode"}
  BY Zenon DEF FetchDone
<1>3. pc' = "prefill" => todo' = Phase("INCOMING_PREFILL")
  BY Zenon DEF FetchDone
<1> QED
  BY <1>1, <1>2, <1>3, Zenon
     DEF FetchDone, OrderInv, Arrived, Finished, HasRow, Phase, queues, reqs,
         inputs, results, kv

\* Prompts are admitted in the order of the queue until one is refused.
LEMMA AdmitPrefillOrder ==
  ASSUME NEW r \in Req, Inv, OrderInv, AdmitPrefill(r) PROVE OrderInv'
<1>1. /\ pc = "prefill" /\ pc' = "prefill" /\ r \in todo
      /\ \A q \in todo : ticket[r] <= ticket[q]
      /\ UNCHANGED <<queues, req_pool_idx, finished_reason, dllm_phase>>
  BY Zenon DEF AdmitPrefill, At, First, results, kv, inputs
<1>2. \/ todo' = {} /\ can_run_list' = can_run_list
      \/ todo' = todo \ {r} /\ can_run_list' = can_run_list \cup {r}
  BY Zenon DEF AdmitPrefill
<1>3. \A q \in active \ can_run_list :
        HasRow(q) \/ q \in Phase("INCOMING_PREFILL")
  BY <1>1, Zenon
     DEF Inv, TypeOK, LifecycleInv, PrefillInv, Settled, Phase, Phases
<1>4. \A q \in active \ can_run_list : HasRow(q) \/ ticket[r] <= ticket[q]
  BY <1>1, <1>3, Zenon DEF OrderInv
<1> QED
  BY <1>1, <1>2, <1>4, Zenon
     DEF OrderInv, Arrived, Finished, HasRow, Phase, queues

\* What is left out of the batch came after what is in it.
LEMMA AdmitDoneOrder ==
  ASSUME Inv, OrderInv, AdmitDone PROVE OrderInv'
<1>1. /\ pc' \in {"idle", "alloc"}
      /\ UNCHANGED <<waiting_queue, active, ticket, tickets, req_pool_idx,
                     finished_reason>>
  BY Zenon DEF AdmitDone, reqs, results, kv
<1>2. pc' = "alloc" /\ batch'.mode = "EXTEND" =>
        pc = "prefill" /\ batch'.reqs = can_run_list
  BY Zenon DEF AdmitDone, At, Inv, TypeOK, LifecycleInv, PrefillInv, DecodeInv
<1> QED BY <1>1, <1>2, Zenon DEF OrderInv, Arrived, Finished, HasRow

\* Rows are handed out in the order of the queue.
LEMMA AllocForExtendOrder ==
  ASSUME NEW r \in Req, Inv, OrderInv, AllocForExtend(r) PROVE OrderInv'
<1>1. CASE status' # "ok"
  <2>1. \E e \in Errors : Raise(e)
    BY <1>1, Zenon DEF AllocForExtend, At, Errors
  <2> QED
    BY <2>1, Zenon DEF Raise, OrderInv, Arrived, Finished, HasRow, Phase, queues,
                reqs, inputs, results, kv
<1>2. CASE status' = "ok"
  <2>1. PICK row \in Rows, n \in Nat : Allocates(r, row, n)
    BY <1>2, AllocFacts, Zenon
  <2>2. /\ pc = "alloc" /\ pc' = "alloc"
        /\ r \in todo /\ r \in batch.reqs /\ r \in active
        /\ \A q \in todo : ticket[r] <= ticket[q]
        /\ UNCHANGED <<waiting_queue, active, ticket, tickets, batch,
                       finished_reason>>
    BY <2>1, Zenon DEF Allocates, AllocForExtend, First, queues, results
  <2>3. /\ \A q \in Req \ {r} : HasRow(q)' = HasRow(q)
        /\ HasRow(r)'
    BY <2>1 DEF Allocates, Inv, TypeOK, HasRow, NoRow, Rows
  <2>4. CASE batch.mode = "EXTEND"
    <3>1. \A q \in active : HasRow(q) \/ ticket[r] <= ticket[q]
      <4>1. \A q \in batch.reqs : HasRow(q) \/ q \in todo
        BY <2>2, <2>4, Zenon DEF Inv, LifecycleInv, AllocInv, Resting
      <4> QED BY <2>2, <2>4, <4>1, Zenon DEF OrderInv
    <3> QED
      BY <2>2, <2>3, <2>4, <3>1, Zenon
         DEF Inv, TypeOK, OrderInv, Arrived, Finished
  <2>5. CASE batch.mode # "EXTEND"
    <3>1. HasRow(r)
      BY <2>2, <2>5, Zenon DEF Inv, LifecycleInv, AllocInv, BlockReady
    <3> QED
      BY <2>2, <2>3, <2>5, <3>1, Zenon
         DEF Inv, TypeOK, OrderInv, Arrived, Finished
  <2> QED BY <2>4, <2>5, Zenon
<1> QED BY <1>1, <1>2, Zenon

\* A request that gives its row back is finished.
LEMMA ProcessReqOrder ==
  ASSUME NEW r \in Req, Inv, OrderInv, ProcessReq(r) PROVE OrderInv'
<1>1. CASE ProcessNoToken(r)
  BY <1>1, OrderUnchanged, Zenon DEF ProcessNoToken, At, results
<1>2. ASSUME NEW n \in AcceptedLens, NEW stop \in BOOLEAN,
             ProcessTokens(r, n, stop)
      PROVE  OrderInv'
  <2>1. At("process") /\ First(r, todo)
    BY <1>2, Zenon DEF ProcessTokens
  <2>2. ~Finished(r)
    BY <2>1, InProcess, Zenon DEF Inv, LifecycleInv, QueuesInv
  <2>3. pc' = "process" /\ UNCHANGED queues
    BY <1>2, <2>1, ProcessTokensFacts, Zenon DEF At
  <2>4. /\ \A q \in Req \ {r} : HasRow(q)' = HasRow(q) /\ Finished(q)' = Finished(q)
        /\ HasRow(r)' = HasRow(r) \/ Finished(r)'
        /\ HasRow(r)' => HasRow(r)
    <3>1. \/ /\ finished_reason' = [finished_reason EXCEPT ![r] = "no"]
             /\ req_pool_idx' = req_pool_idx
          \/ \E reason \in Finish \ {"no"} :
             /\ finished_reason' = [finished_reason EXCEPT ![r] = reason]
             /\ req_pool_idx' = [req_pool_idx EXCEPT ![r] = NoRow]
      <4>1. \/ /\ finished_reason' = [finished_reason EXCEPT ![r] = "no"]
               /\ Truncates(r, Total(r) + n)
            \/ \E reason \in Finish \ {"no"} :
               /\ finished_reason' = [finished_reason EXCEPT ![r] = reason]
               /\ Releases(r, Total(r) + n)
        BY <1>2, ProcessTokensFacts
      <4> QED BY <4>1, Zenon DEF Truncates, Releases
    <3>2. /\ finished_reason \in [Req -> Finish]
          /\ req_pool_idx \in [Req -> Rows \cup {NoRow}]
      BY Zenon DEF Inv, TypeOK
    <3> QED BY <3>1, <3>2, Zenon DEF HasRow, Finished
  <2> QED
    BY <2>2, <2>3, <2>4 DEF Inv, TypeOK, OrderInv, Arrived, queues
<1> QED BY <1>1, <1>2, Zenon DEF ProcessReq

\* Every step of the scheduler keeps the order.
LEMMA NextOrder == Inv /\ OrderInv /\ [Next]_vars => OrderInv'
<1> SUFFICES ASSUME Inv, OrderInv, [Next]_vars PROVE OrderInv'
  BY Zenon
<1>1. CASE UNCHANGED vars
  BY <1>1, Zenon
     DEF vars, control, queues, reqs, inputs, results, kv, OrderInv, Arrived,
              Finished, HasRow, Phase
<1>2. CASE Input
  BY <1>2, InputOrder, Zenon
<1>3. ASSUME NEW r \in Req, PrepareStagingReq(r) \/ AdmitDecode(r)
      PROVE  OrderInv'
  BY <1>3, OrderUnchanged, Zenon
     DEF PrepareStagingReq, AdmitDecode, At, results, kv
<1>4. CASE PrepareDone \/ AllocDone \/ ForwardPrompt \/ ProcessDone
  BY <1>4, Zenon
     DEF PrepareDone, AllocDone, ForwardPrompt, ProcessDone, OrderInv, Arrived,
         Finished, HasRow, queues, reqs, results, kv
<1>5. CASE ForwardBlock \/ OnIdle
  BY <1>5, Zenon
     DEF ForwardBlock, OnIdle, Raise, At, OrderInv, Arrived, Finished, HasRow,
         queues, reqs, results, kv
<1> QED
  BY <1>1, <1>2, <1>3, <1>4, <1>5, GetNextBatchOrder, FetchWaitingReqOrder,
     FetchDoneOrder, AdmitPrefillOrder, AdmitDoneOrder, AllocForExtendOrder,
     ProcessReqOrder, Zenon
     DEF Next, Loop

\* No request gets a row before one that arrived earlier, whatever is aborted,
\* refused by the budget or finished in between (_fetch_waiting_reqs,
\* _process_incoming_prefill_reqs, alloc_for_extend).
THEOREM FirstComeFirstServed == Spec => []NoOvertaking
<1>1. Init => OrderInv
  BY DEF Init, OrderInv, Arrived, HasRow
<1>2. Inv /\ OrderInv => NoOvertaking
  <2>1. Inv => /\ ticket \in [Req -> Nat]
               /\ \A q \in Req : HasRow(q) => q \in active
    BY Zenon DEF Inv, TypeOK, LifecycleInv, QueuesInv
  <2> QED BY <2>1 DEF OrderInv, NoOvertaking
<1> QED BY <1>1, <1>2, InitInv, NextInv, NextOrder, PTL DEF Spec

-----------------------------------------------------------------------------
\* check_finished sees every request whose output reaches its limit, after the
\* block in which it does: no output outgrows its limit by a block.
THEOREM OutputsBounded == Spec => []OutputBounded
<1>1. Init => OutputBounded
  BY DEF Init, OutputBounded
<1>2. Inv /\ OutputBounded /\ [Next]_vars => OutputBounded'
  <2> SUFFICES ASSUME Inv, OutputBounded, [Next]_vars PROVE OutputBounded'
    BY Zenon
  <2>1. ASSUME NEW r \in Req, NEW n \in AcceptedLens, NEW stop \in BOOLEAN,
               ProcessTokens(r, n, stop)
        PROVE  OutputBounded'
    <3>1. /\ n \in 1..BlockSize
          /\ output_len' = [output_len EXCEPT ![r] = output_len[r] + n]
      BY <2>1, ProcessTokensFacts
    <3>2. ~Finished(r)
      BY <2>1, InProcess, Zenon DEF ProcessTokens
    <3>3. finished_reason' =
            [finished_reason EXCEPT ![r] = FinishReason(r, n, stop)]
      BY <2>1, <3>2, Zenon DEF ProcessTokens
    <3>4. /\ output_len \in [Req -> Nat] /\ finished_reason \in [Req -> Finish]
          /\ MaxNewTokens \in [Req -> Nat] /\ BlockSize \in Nat
      BY MaxNewAssumption, BlockAssumption, Zenon DEF Inv, TypeOK
    <3>5. output_len[r] > 0 => output_len[r] < MaxNewTokens[r]
      BY <3>2, Zenon DEF OutputBounded
    <3>6. /\ output_len[r] + n < MaxOf(MaxNewTokens[r], 1) + BlockSize
          /\ FinishReason(r, n, stop) = "no" =>
               output_len[r] + n < MaxNewTokens[r]
      BY <3>1, <3>4, <3>5 DEF FinishReason, MaxOf
    <3> QED BY <3>1, <3>3, <3>4, <3>6, Zenon DEF OutputBounded, Finished
  <2>2. CASE ~\E r \in Req, n \in AcceptedLens, stop \in BOOLEAN :
                ProcessTokens(r, n, stop)
    BY <2>2, OutputSteps, Zenon DEF OutputBounded
  <2> QED BY <2>1, <2>2, Zenon
<1> QED BY <1>1, <1>2, InitInv, NextInv, PTL DEF Spec

-----------------------------------------------------------------------------
\* One more request needs the slots of its prompt.
LEMMA PromptTokensAdd ==
  ASSUME NEW S, S \subseteq Req, NEW r \in Req, r \notin S,
         IsFiniteSet(PromptTokens(S))
  PROVE  /\ IsFiniteSet(PromptTokens(S \cup {r}))
         /\ Cardinality(PromptTokens(S \cup {r})) =
              Cardinality(PromptTokens(S)) + PromptLen[r]
<1> DEFINE T == {r} \X (1..PromptLen[r])
<1>1. PromptLen[r] \in Nat
  BY PromptAssumption, Zenon
<1>2. IsFiniteSet(T) /\ Cardinality(T) = PromptLen[r]
  <2>1. IsFiniteSet(1..PromptLen[r]) /\ Cardinality(1..PromptLen[r]) = PromptLen[r]
    BY <1>1, IntervalCount, Zenon
  <2>2. IsFiniteSet({r}) /\ Cardinality({r}) = 1
    BY FS_Singleton, Zenon
  <2>3. IsFiniteSet(T)
        /\ Cardinality(T) = Cardinality({r}) * Cardinality(1..PromptLen[r])
    BY <2>1, <2>2, FS_Product, Zenon
  <2> QED BY <1>1, <2>1, <2>2, <2>3
<1>3. PromptTokens(S \cup {r}) = PromptTokens(S) \cup T
  BY Zenon DEF PromptTokens
<1>4. PromptTokens(S) \cap T = {}
  BY DEF PromptTokens
<1>5. Cardinality(PromptTokens(S)) \in Nat /\ Cardinality({}) = 0
  BY FS_CardinalityType, FS_EmptySet, Zenon
<1> HIDE DEF T
<1>6. /\ IsFiniteSet(PromptTokens(S) \cup T)
      /\ Cardinality(PromptTokens(S) \cup T) =
           Cardinality(PromptTokens(S)) + Cardinality(T)
             - Cardinality(PromptTokens(S) \cap T)
  BY <1>2, FS_Union, Zenon
<1>7. Cardinality(PromptTokens(S) \cup T) =
        Cardinality(PromptTokens(S)) + PromptLen[r]
  <2>1. Cardinality(PromptTokens(S) \cap T) = 0
    BY <1>4, <1>5, Zenon
  <2> QED BY <1>1, <1>2, <1>5, <1>6, <2>1
<1> QED BY <1>3, <1>6, <1>7, Zenon

\* A prompt is admitted only if the free slots cover it on top of what is
\* admitted already.
LEMMA AdmitPrefillBudget ==
  ASSUME NEW r \in Req, Inv, BudgetInv, AdmitPrefill(r) PROVE BudgetInv'
<1> DEFINE need == Cardinality(PromptTokens(can_run_list))
           offset == adder.rem_total_token_offset
<1>1. /\ pc = "prefill" /\ pc' = "prefill" /\ status' = "ok"
      /\ UNCHANGED free_pages
      /\ r \in todo /\ r \notin can_run_list /\ can_run_list \subseteq Req
      /\ Len(free_pages) \in Nat /\ offset \in Nat
      /\ PromptLen[r] \in Nat /\ MaxNewTokens[r] \in Nat
      /\ output_len[r] \in Nat /\ ClipMaxNewTokens \in Nat
  BY PromptAssumption, MaxNewAssumption, LimitsAssumption
     DEF AdmitPrefill, At, First, pools, Inv, TypeOK, AdderType, LifecycleInv,
         PrefillInv
<1>2. /\ IsFiniteSet(PromptTokens(can_run_list))
      /\ need <= offset /\ need <= Len(free_pages)
  BY <1>1, Zenon DEF BudgetInv
<1>3. need \in Nat
  BY <1>2, FS_CardinalityType, Zenon
<1>4. CASE can_run_list' = can_run_list /\ adder' = adder
  BY <1>1, <1>2, <1>4, Zenon DEF BudgetInv, PromptNeverOutOfMemory
<1>5. CASE /\ PromptResult(r) = "CONTINUE"
           /\ can_run_list' = can_run_list \cup {r}
           /\ UpdatePrefillBudget(PromptLen[r],
                MinOf(MaxNewTokens[r], ClipMaxNewTokens))
  <2>1. /\ IsFiniteSet(PromptTokens(can_run_list'))
        /\ Cardinality(PromptTokens(can_run_list')) = need + PromptLen[r]
    BY <1>1, <1>2, <1>5, PromptTokensAdd, Zenon
  <2>2. PromptLen[r] < Len(free_pages) - offset
    BY <1>1, <1>5 DEF PromptResult, RemTotalTokens, MinOf, MaxOf
  <2>3. adder'.rem_total_token_offset >= offset + PromptLen[r]
    BY <1>1, <1>5 DEF UpdatePrefillBudget, MinOf
  <2>4. adder'.rem_total_token_offset \in Int
    BY <1>1, <1>5 DEF UpdatePrefillBudget, MinOf
  <2> HIDE DEF need, offset
  <2>5. /\ need + PromptLen[r] <= adder'.rem_total_token_offset
        /\ need + PromptLen[r] <= Len(free_pages)
    BY <1>1, <1>2, <1>3, <2>2, <2>3, <2>4
  <2> QED BY <1>1, <2>1, <2>5, Zenon DEF BudgetInv, PromptNeverOutOfMemory
<1> QED BY <1>4, <1>5, Zenon DEF AdmitPrefill

\* The free slots cover what is left to allocate of a prompt batch.
LEMMA AllocForExtendBudget ==
  ASSUME NEW r \in Req, Inv, BudgetInv, AllocForExtend(r) PROVE BudgetInv'
<1>1. /\ pc = "alloc" /\ status = "ok" /\ r \in todo /\ todo \subseteq Req
      /\ batch' = batch /\ pc' = pc
      /\ PromptLen[r] \in Nat /\ Len(free_pages) \in Nat
  BY PromptAssumption
     DEF AllocForExtend, Raise, At, First, Inv, TypeOK
<1>2. CASE batch.mode # "EXTEND"
  BY <1>1, <1>2, Zenon DEF BudgetInv, PromptNeverOutOfMemory
<1>3. CASE batch.mode = "EXTEND"
  <2> DEFINE rest == todo \ {r}
  <2>1. /\ IsFiniteSet(PromptTokens(todo))
        /\ Cardinality(PromptTokens(todo)) <= Len(free_pages)
    BY <1>1, <1>3, Zenon DEF BudgetInv
  <2>2. PromptTokens(rest) \subseteq PromptTokens(todo)
    BY Zenon DEF PromptTokens
  <2>3. IsFiniteSet(PromptTokens(rest)) /\ Cardinality(PromptTokens(rest)) \in Nat
    BY <2>1, <2>2, FS_Subset, FS_CardinalityType, Zenon
  <2>4. rest \cup {r} = todo /\ rest \subseteq Req /\ r \notin rest
    BY <1>1, Zenon
  <2>5. Cardinality(PromptTokens(todo)) = Cardinality(PromptTokens(rest)) + PromptLen[r]
    BY <2>3, <2>4, PromptTokensAdd, Zenon
  <2> HIDE DEF rest
  <2>6. extend_input_len[r] = PromptLen[r]
    BY <1>1, <1>3, Zenon DEF Inv, LifecycleInv, AllocInv, PromptReady
  <2>7. PromptLen[r] <= Len(free_pages)
    BY <1>1, <2>1, <2>3, <2>5
  <2>8. CASE status' # "ok"
    <3>1. status' # "out_of_memory" /\ UNCHANGED <<todo, free_pages>>
      BY <1>1, <2>6, <2>7, <2>8 DEF AllocForExtend, Raise, pools
    <3> QED BY <1>1, <2>1, <3>1, Zenon DEF BudgetInv, PromptNeverOutOfMemory
  <2>9. CASE status' = "ok"
    <3>1. PICK row \in Rows, n \in Nat : Allocates(r, row, n)
      BY <2>9, AllocFacts, Zenon
    <3>2. /\ todo' = rest /\ n = PromptLen[r]
          /\ free_pages' = SubSeq(free_pages, n + 1, Len(free_pages))
      BY <2>6, <3>1, Zenon DEF Allocates, rest
    <3>3. Len(free_pages') = Len(free_pages) - PromptLen[r]
      <4>1. free_pages \in Seq(AnySlot)
        BY Zenon DEF Inv, TypeOK
      <4> QED BY <1>1, <2>7, <3>2, <4>1
    <3>4. Cardinality(PromptTokens(rest)) <= Len(free_pages')
      BY <1>1, <2>1, <2>3, <2>5, <3>3
    <3> QED
      BY <1>1, <2>3, <2>9, <3>2, <3>4, Zenon DEF BudgetInv, PromptNeverOutOfMemory
  <2> QED BY <2>8, <2>9, Zenon
<1> QED BY <1>2, <1>3, Zenon

\* Every step of the scheduler keeps the budget.
LEMMA NextBudget == Inv /\ BudgetInv /\ [Next]_vars => BudgetInv'
<1> SUFFICES ASSUME Inv, BudgetInv, [Next]_vars PROVE BudgetInv'
  BY Zenon
<1>1. ASSUME pc' \notin {"prefill", "alloc"},
             status' # "out_of_memory" \/ UNCHANGED <<status, batch>>
      PROVE  BudgetInv'
  BY <1>1, Zenon DEF BudgetInv, PromptNeverOutOfMemory
<1>3. CASE UNCHANGED vars
  BY <1>3, Zenon DEF vars, control, pools, BudgetInv, PromptNeverOutOfMemory
<1>4. CASE Input
  <2>1. pc' = "recv" /\ status' = "ok"
    BY <1>4, Zenon
       DEF Input, AddRequest, WaitingTimeout, AbortRequest, At, control
  <2> QED BY <1>1, <2>1, Zenon
<1>5. CASE \/ GetNextBatch \/ PrepareDone \/ AllocDone \/ ForwardPrompt
           \/ ForwardBlock \/ ProcessDone \/ OnIdle
  <2>1. pc' \notin {"prefill", "alloc"} /\ status' # "out_of_memory"
    BY <1>5, Zenon
       DEF GetNextBatch, PrepareDone, AllocDone, ForwardPrompt, ForwardBlock,
           ProcessDone, OnIdle, Raise, At
  <2> QED BY <1>1, <2>1, Zenon
<1>8. ASSUME NEW r \in Req, \/ PrepareStagingReq(r) \/ FetchWaitingReq(r)
                            \/ AdmitDecode(r) \/ ProcessReq(r)
      PROVE  BudgetInv'
  <2>1. pc' \notin {"prefill", "alloc"} /\ status' # "out_of_memory"
    BY <1>8, Zenon
       DEF PrepareStagingReq, FetchWaitingReq, AdmitDecode,
           ProcessReq, ProcessNoToken, ProcessTokens, Raise, At, control
  <2> QED BY <1>1, <2>1, Zenon
<1>6. CASE FetchDone
  <2>1. /\ can_run_list' = {} /\ status' = "ok" /\ pc' \in {"prefill", "decode"}
        /\ free_pages' = free_pages /\ adder' = NewAdder
    BY <1>6, Zenon
       DEF FetchDone, At, Inv, LifecycleInv, CanRunInv, pools
  <2>2. PromptTokens({}) = {}
    BY Zenon DEF PromptTokens
  <2>3. Len(free_pages) >= 0 /\ NewAdder.rem_total_token_offset = 0
    BY DEF Inv, TypeOK, NewAdder
  <2>4. /\ IsFiniteSet(PromptTokens(can_run_list'))
        /\ Cardinality(PromptTokens(can_run_list')) = 0
    BY <2>1, <2>2, FS_EmptySet, Zenon
  <2> QED BY <2>1, <2>3, <2>4 DEF BudgetInv, PromptNeverOutOfMemory
<1>7. CASE AdmitDone
  <2>1. /\ status' = "ok" /\ pc' \in {"alloc", "idle"}
        /\ free_pages' = free_pages /\ todo' = can_run_list
        /\ pc' = "alloc" /\ batch'.mode = "EXTEND" => pc = "prefill"
    BY <1>7, Zenon
       DEF AdmitDone, At, pools, Inv, TypeOK, LifecycleInv, PrefillInv, DecodeInv
  <2> QED BY <2>1, Zenon DEF BudgetInv, PromptNeverOutOfMemory
<1> QED
  BY <1>3, <1>4, <1>5, <1>6, <1>7, <1>8, AdmitPrefillBudget, AllocForExtendBudget,
     Zenon DEF Next, Loop

\* A prompt batch that admission has let in never runs out of KV slots, whatever
\* blocks are held and given back meanwhile (add_dllm_prompt_cache_req,
\* alloc_for_extend).
THEOREM PromptBatchesFit == Spec => []PromptNeverOutOfMemory
<1>1. Init => BudgetInv
  BY Zenon DEF Init, BudgetInv, PromptNeverOutOfMemory
<1>2. BudgetInv => PromptNeverOutOfMemory
  BY Zenon DEF BudgetInv
<1> QED BY <1>1, <1>2, InitInv, NextInv, NextBudget, PTL DEF Spec
=============================================================================
