------------------------- MODULE DllmControlProofs --------------------------
(***************************************************************************)
(* A scheduler that runs one request at a time, under commands: the idle   *)
(* test of flush_cache is exact, so a flush keeps the ownership of rows    *)
(* and slots; and if every request fits, no exception ends the process.    *)
(***************************************************************************)
EXTENDS DllmControl, DllmKvProofs

\* A request that fits, at any length below its limit.
LEMMA LimitFits ==
  ASSUME RequestsFit, NEW r \in Req
  PROVE  \E n \in Nat : /\ n = MaxOf(MaxNewTokens[r], 1) /\ n > 0
                        /\ PromptLen[r] + n - 1 + BlockSize <= PoolSize
                        /\ PromptLen[r] + n - 1 + BlockSize <= RowWidth
<1>1. /\ PromptLen[r] \in Nat /\ MaxNewTokens[r] \in Nat /\ BlockSize \in Nat
      /\ PoolSize \in Nat /\ RowWidth \in Nat
  BY PromptAssumption, MaxNewAssumption, BlockAssumption, PoolAssumption, Zenon
<1>2. MaxOf(MaxNewTokens[r], 1) \in Nat /\ MaxOf(MaxNewTokens[r], 1) > 0
  BY <1>1 DEF MaxOf
<1>3. /\ MinOf(PoolSize, RowWidth) <= PoolSize
      /\ MinOf(PoolSize, RowWidth) <= RowWidth
      /\ MinOf(PoolSize, RowWidth) \in Nat
  BY <1>1 DEF MinOf
<1>4. PromptLen[r] + MaxOf(MaxNewTokens[r], 1) - 1 + BlockSize
        <= MinOf(PoolSize, RowWidth)
  BY Zenon DEF RequestsFit
<1> QED BY <1>1, <1>2, <1>3, <1>4

\* Only the request that DllmManager holds can have a row.
LEMMA SoleHolder ==
  ASSUME Inv, TurnInv, NEW q \in Req, NEW r \in active, HasRow(q)
  PROVE  q = r
BY Zenon DEF Inv, LifecycleInv, QueuesInv, TurnInv

\* A set with one element has size one, from the definition of Cardinality.
LEMMA SingletonSize ==
  ASSUME NEW x PROVE Cardinality({x}) = 1
<1> DEFINE P(g) == g = [T \in SUBSET {x} |->
                          IF T = {} THEN 0 ELSE 1 + g[T \ {CHOOSE y : y \in T}]]
           CS == CHOOSE g : P(g)
<1>1. (CHOOSE y : y \in {x}) = x
  BY Zenon
<1>2. \E g : P(g)
  <2> DEFINE f == [T \in SUBSET {x} |-> IF T = {} THEN 0 ELSE 1]
  <2>1. \A T \in SUBSET {x} : T = {} \/ T = {x}
    BY Zenon
  <2>2. \A T \in SUBSET {x} : T # {} => T \ {CHOOSE y : y \in T} = {}
    BY <1>1, <2>1
  <2>3. P(f)
    BY <2>2
  <2> QED BY <2>3, Zenon
<1>3. P(CS)
  BY <1>2, Zenon
<1>4. CS[{}] = 0
  <2>1. {} \in SUBSET {x}
    BY Zenon
  <2> HIDE DEF CS
  <2> QED BY <1>3, <2>1, Zenon
<1>5. CS[{x}] = 1 + CS[{}]
  <2>1. {x} \in SUBSET {x} /\ {x} # {} /\ {x} \ {x} = {}
    BY Zenon
  <2> HIDE DEF CS
  <2> QED BY <1>1, <1>3, <2>1, Zenon
<1>6. Cardinality({x}) = CS[{x}]
  BY Zenon DEF Cardinality
<1> QED BY <1>4, <1>5, <1>6

\* _fetch_waiting_reqs takes a request only if DllmManager has none.
LEMMA FetchWhenEmpty ==
  ASSUME MaxRunningRequests = 1, TurnInv, Capacity > 0
  PROVE  active = {}
<1> SUFFICES ASSUME NEW x \in active PROVE FALSE
  BY Zenon
<1>1. active = {x}
  BY Zenon DEF TurnInv
<1>2. Cardinality({x}) = 1
  BY SingletonSize, Zenon
<1>3. Capacity = 1 - Cardinality({x})
  BY <1>1, Zenon DEF Capacity
<1> QED BY <1>2, <1>3

\* The first block is always admitted: an exhausted pool falls back to
\* rem_dllm_tokens.
LEMMA FirstBlockAdmitted ==
  ASSUME Inv, MaxRunningRequests = 1
  PROVE  /\ ~(DllmRemainTokens(NewAdder) <= 0)
         /\ Len(free_pages) >= BlockSize => DllmRemainTokens(NewAdder) = BlockSize
<1>1. Len(free_pages) \in Nat /\ BlockSize \in Nat \ {0}
  BY BlockAssumption DEF Inv, TypeOK
<1>2. /\ NewAdder.rem_dllm_tokens = BlockSize
      /\ NewAdder.rem_total_token_offset = 0
  BY <1>1 DEF NewAdder
<1> QED BY <1>1, <1>2 DEF DllmRemainTokens, MinOf

\* Inputs change neither turns nor rows.
LEMMA InputTurn ==
  ASSUME TurnInv, Input PROVE TurnInv'
BY Zenon
   DEF Input, AddRequest, WaitingTimeout, AbortRequest, TurnInv, HasRow, reqs,
       kv, control

\* The request that has a row goes from staging_queue through the preparation
\* into todo, and from there into the batch.
LEMMA LoopTurn ==
  ASSUME MaxRunningRequests = 1, Inv, TurnInv, Loop PROVE TurnInv'
<1>0. ASSUME NEW e, Raise(e) PROVE TurnInv'
  BY <1>0, Zenon DEF Raise, TurnInv, HasRow, queues, reqs, kv
<1>1. CASE GetNextBatch
  <2>1. \A r \in Req : HasRow(r) => r \in active /\ ~Finished(r)
    BY Zenon DEF Inv, LifecycleInv, QueuesInv
  <2>2. UNCHANGED req_pool_idx /\ pc = "recv" /\ pc' \in {"idle", "prepare"}
    BY <1>1, Zenon DEF GetNextBatch, reqs, kv, At
  <2> QED BY <1>1, <2>1, <2>2, Zenon DEF GetNextBatch, Unfinished, TurnInv, HasRow
<1>2. ASSUME NEW r \in Req, PrepareStagingReq(r) PROVE TurnInv'
  BY <1>2, Zenon DEF PrepareStagingReq, At, TurnInv, HasRow, kv, queues
<1>3. CASE PrepareDone
  BY <1>3, Zenon DEF PrepareDone, TurnInv
<1>4. ASSUME NEW r \in Req, FetchWaitingReq(r) PROVE TurnInv'
  <2>1. CASE r \in active
    BY <1>0, <1>4, <2>1, Zenon DEF FetchWaitingReq
  <2>2. CASE r \notin active
    <3>1. active = {}
      BY <1>4, FetchWhenEmpty, Zenon DEF FetchWaitingReq
    <3> QED BY <1>4, <2>2, <3>1, Zenon DEF FetchWaitingReq, At, TurnInv, control
  <2> QED BY <2>1, <2>2, Zenon
<1>5. CASE FetchDone
  <2>1. \A r \in active : Settled(r)
    BY <1>5, Zenon DEF FetchDone, At, Inv, LifecycleInv, FetchInv
  <2>2. \A r \in Req : HasRow(r) => r \in Phase("STAGING_DECODE")
    BY <2>1, Zenon
       DEF Inv, LifecycleInv, QueuesInv, Settled, Phase, TypeOK, Phases
  <2>3. /\ UNCHANGED <<req_pool_idx, active>> /\ adder' = NewAdder
        /\ can_run_list' = {}
    BY <1>5, Zenon
       DEF FetchDone, At, reqs, kv, queues, Inv, LifecycleInv, CanRunInv
  <2>4. CASE Phase("INCOMING_PREFILL") # {}
    <3>1. PICK x \in active : dllm_phase[x] = "INCOMING_PREFILL"
      BY <2>4, Zenon DEF Phase
    <3>2. \A r \in Req : ~HasRow(r)
      BY <2>1, <3>1, SoleHolder, Zenon DEF Settled
    <3> QED BY <1>5, <2>3, <2>4, <3>2, Zenon DEF FetchDone, TurnInv, HasRow
  <2>5. CASE Phase("INCOMING_PREFILL") = {}
    BY <1>5, <2>2, <2>3, <2>5, Zenon DEF FetchDone, TurnInv, HasRow
  <2> QED BY <2>4, <2>5, Zenon
<1>6. ASSUME NEW r \in Req, AdmitPrefill(r) PROVE TurnInv'
  BY <1>6, Zenon DEF AdmitPrefill, At, TurnInv, HasRow, queues, kv
<1>7. ASSUME NEW r \in Req, AdmitDecode(r) PROVE TurnInv'
  <2>1. /\ pc = "decode" /\ r \in todo /\ todo \subseteq active
        /\ can_run_list = {} /\ adder = NewAdder
    BY <1>7, Zenon
       DEF AdmitDecode, At, First, Inv, LifecycleInv, DecodeInv, TurnInv, Phase
  <2>2. todo = {r}
    BY <2>1, Zenon DEF TurnInv
  <2>3. can_run_list' = {r} /\ todo' = {}
    <3>1. ~(DllmRemainTokens(adder) <= 0)
      BY <2>1, FirstBlockAdmitted, Zenon
    <3>2. /\ can_run_list' = can_run_list \cup {r}
          /\ todo' = {} \/ todo' = todo \ {r}
      BY <1>7, <3>1, Zenon DEF AdmitDecode
    <3> QED BY <2>1, <2>2, <3>2, Zenon
  <2>4. UNCHANGED <<req_pool_idx, active, staging_queue, pc>>
    BY <1>7, Zenon DEF AdmitDecode, queues, kv
  <2> QED BY <2>1, <2>2, <2>3, <2>4, Zenon DEF TurnInv, HasRow
<1>8. CASE AdmitDone
  <2>1. \A r \in Req : HasRow(r) => r \in can_run_list
    BY <1>8, Zenon DEF AdmitDone, At, TurnInv
  <2>2. UNCHANGED <<req_pool_idx, active>> /\ staging_queue' = can_run_list
    BY <1>8, Zenon DEF AdmitDone, reqs, kv
  <2> QED BY <1>8, <2>1, <2>2, Zenon DEF AdmitDone, TurnInv, HasRow
<1>9. ASSUME NEW r \in Req, AllocForExtend(r) PROVE TurnInv'
  <2>1. CASE status' = "ok"
    <3>1. PICK row \in Rows, n \in Nat : Allocates(r, row, n)
      BY <1>9, <2>1, AllocFacts, Zenon
    <3>2. /\ req_pool_idx' = [req_pool_idx EXCEPT ![r] = row]
          /\ UNCHANGED <<active, staging_queue, pc>>
          /\ pc = "alloc" /\ r \in batch.reqs
      BY <3>1, Zenon DEF Allocates, queues
    <3>3. r \in staging_queue
      BY <3>2, Zenon DEF Inv, LifecycleInv, AllocInv
    <3> QED BY <3>2, <3>3, Zenon DEF TurnInv, HasRow, Inv, TypeOK
  <2>2. CASE status' # "ok"
    BY <1>0, <1>9, <2>2, Zenon DEF AllocForExtend, At
  <2> QED BY <2>1, <2>2, Zenon
<1>10. CASE AllocDone \/ ForwardPrompt \/ ForwardBlock \/ ProcessDone
  <2>1. /\ pc \in {"alloc", "forward", "process"}
        /\ pc' \in {"forward", "recv", "process"}
        /\ UNCHANGED <<req_pool_idx, active, staging_queue>>
    BY <1>10, Zenon
       DEF AllocDone, ForwardPrompt, ForwardBlock, ProcessDone, At, Raise,
           queues, reqs, kv
  <2> QED BY <2>1, Zenon DEF TurnInv, HasRow
<1>11. ASSUME NEW r \in Req, ProcessReq(r) PROVE TurnInv'
  <2>1. At("process") /\ First(r, todo)
    BY <1>11, Zenon DEF ProcessReq, ProcessNoToken, ProcessTokens
  <2>2. r \in staging_queue
    BY <2>1, InProcess, Zenon
  <2>3. /\ UNCHANGED <<active, staging_queue, pc>>
        /\ \A q \in Req \ {r} : req_pool_idx'[q] = req_pool_idx[q]
    BY <1>11
       DEF ProcessReq, ProcessNoToken, ProcessTokens, Raise, queues, reqs, kv,
           Inv, TypeOK
  <2> QED BY <2>1, <2>2, <2>3, Zenon DEF TurnInv, HasRow, At
<1>12. CASE OnIdle
  BY <1>0, <1>12, Zenon DEF OnIdle, At, TurnInv, HasRow, queues, reqs, kv
<1> QED
  BY <1>1, <1>2, <1>3, <1>4, <1>5, <1>6, <1>7, <1>8, <1>9, <1>10, <1>11,
     <1>12, Zenon DEF Loop

\* What a step takes from the pools the one request gets, and what it gives
\* back they get.
LEMMA NextSolePools ==
  ASSUME Inv, SoleInv, [Next]_vars PROVE SolePoolsInv'
<1>0. /\ Len(free_pages) \in Nat /\ Len(free_slots) \in Nat
      /\ free_pages \in Seq(AnySlot) /\ free_slots \in Seq(Rows)
      /\ req_pool_idx \in [Req -> Rows \cup {NoRow}]
      /\ kv_committed_len \in [Req -> Nat]
      /\ PoolSize \in Nat /\ NumRows \in Nat
      /\ \A row \in Rows : row # NoRow
  BY PoolAssumption DEF Inv, TypeOK, Rows, NoRow
<1>1. CASE UNCHANGED <<kv, pools>>
  BY <1>1, Zenon DEF SoleInv, SolePoolsInv, PoolsComplete, HasRow, kv, pools
<1>2. ASSUME NEW r \in Req, NEW row \in Rows, NEW n \in Nat,
             Allocates(r, row, n)
      PROVE  SolePoolsInv'
  <2>1. /\ r \in active /\ n <= Len(free_pages)
        /\ fill_len[r] = prefix_len[r] + n
        /\ req_pool_idx'[r] = row /\ kv_committed_len'[r] = fill_len[r]
        /\ \A q \in Req \ {r} : req_pool_idx'[q] = req_pool_idx[q]
    BY <1>0, <1>2, Zenon DEF Allocates
  <2>2. \A q \in Req \ {r} : ~HasRow(q)
    BY <2>1, SoleHolder, Zenon DEF SoleInv
  <2>3. HasRow(r)' /\ \A q \in Req \ {r} : ~HasRow(q)'
    BY <1>0, <2>1, <2>2, Zenon DEF HasRow
  <2>4. Len(free_pages') = Len(free_pages) - n
    <3>1. free_pages' = SubSeq(free_pages, n + 1, Len(free_pages))
      BY <1>2, Zenon DEF Allocates
    <3> QED BY <1>0, <2>1, <3>1, SubSeqTail, Zenon
  <2>5. CASE HasRow(r)
    <3>1. prefix_len[r] = kv_committed_len[r] /\ free_slots' = free_slots
      BY <1>2, <2>5, Zenon DEF Allocates
    <3>2. /\ Len(free_pages) = PoolSize - kv_committed_len[r]
          /\ Len(free_slots) = NumRows - 1
      BY <2>5, Zenon DEF SoleInv, SolePoolsInv
    <3>3. /\ Len(free_pages') = PoolSize - kv_committed_len'[r]
          /\ Len(free_slots') = NumRows - 1
      BY <1>0, <2>1, <2>4, <3>1, <3>2
    <3> QED BY <2>3, <3>3, Zenon DEF SolePoolsInv
  <2>6. CASE ~HasRow(r)
    <3>1. /\ prefix_len[r] = 0 /\ free_slots' = Tail(free_slots)
          /\ free_slots # <<>>
      BY <1>2, <2>6, Zenon DEF Allocates
    <3>2. Len(free_pages) = PoolSize /\ Len(free_slots) = NumRows
      BY <2>2, <2>6, Zenon DEF SoleInv, SolePoolsInv, PoolsComplete
    <3>3. Len(free_slots') = Len(free_slots) - 1
      BY <1>0, <3>1
    <3>4. /\ Len(free_pages') = PoolSize - kv_committed_len'[r]
          /\ Len(free_slots') = NumRows - 1
      BY <1>0, <2>1, <2>4, <3>1, <3>2, <3>3
    <3> QED BY <2>3, <3>4, Zenon DEF SolePoolsInv
  <2> QED BY <2>5, <2>6, Zenon
<1>3. ASSUME NEW r \in Req, NEW m \in Nat, HasRow(r), m <= kv_committed_len[r],
             kv_committed_len[r] <= RowWidth, Truncates(r, m) \/ Releases(r, m)
      PROVE  SolePoolsInv'
  <2> DEFINE k == kv_committed_len[r]
             back == RowSlice(r, m, k)
             rest == RowSlice(r, 0, m)
  <2>1. \A q \in Req \ {r} : ~HasRow(q)
    <3>1. r \in active
      BY <1>3, Zenon DEF Inv, LifecycleInv, QueuesInv
    <3> QED BY <3>1, SoleHolder, Zenon DEF SoleInv
  <2>2. Len(free_pages) = PoolSize - k /\ Len(free_slots) = NumRows - 1
    BY <1>3, Zenon DEF SoleInv, SolePoolsInv
  <2>3. /\ k \in Nat /\ 0 <= m /\ m <= RowWidth /\ 0 \in Nat /\ TypeOK
    BY <1>0, <1>3, PoolAssumption DEF Inv
  <2>4. /\ back \in Seq(AnySlot) /\ Len(back) = k - m
        /\ rest \in Seq(AnySlot) /\ Len(rest) = m - 0
    BY <1>3, <2>3, RowSliceType, Zenon
  <2> HIDE DEF k, back, rest
  <2>5. /\ free_pages \o back \in Seq(AnySlot)
        /\ Len(free_pages \o back) = Len(free_pages) + Len(back)
    BY <1>0, <2>4, ConcatSeq, Zenon
  <2>6. Len(free_pages \o back \o rest) = Len(free_pages \o back) + Len(rest)
    BY <2>4, <2>5, ConcatSeq, Zenon
  <2>7. CASE Truncates(r, m)
    <3>1. /\ free_pages' = free_pages \o back
          /\ kv_committed_len'[r] = m
          /\ UNCHANGED <<req_pool_idx, free_slots>>
      BY <1>0, <2>7, Zenon DEF Truncates, back, k
    <3>2. Len(free_pages') = Len(free_pages) + (k - m)
      BY <2>4, <2>5, <3>1, Zenon
    <3>3. /\ Len(free_pages') = PoolSize - kv_committed_len'[r]
          /\ Len(free_slots') = NumRows - 1
      BY <1>0, <2>2, <2>3, <3>1, <3>2
    <3> QED BY <1>3, <2>1, <3>1, <3>3, Zenon DEF SolePoolsInv, HasRow
  <2>8. CASE Releases(r, m)
    <3>1. /\ free_pages' = free_pages \o back \o rest
          /\ free_slots' = Append(free_slots, req_pool_idx[r])
          /\ req_pool_idx'[r] = NoRow
          /\ \A q \in Req \ {r} : req_pool_idx'[q] = req_pool_idx[q]
      BY <1>0, <2>8, Zenon DEF Releases, back, rest, k
    <3>2. Len(free_pages') = Len(free_pages) + (k - m) + m
      BY <1>0, <2>3, <2>4, <2>5, <2>6, <3>1
    <3>3. Len(free_slots') = Len(free_slots) + 1
      BY <1>0, <1>3, <3>1, AppendSeq DEF HasRow
    <3>4. PoolsComplete'
      BY <1>0, <2>2, <2>3, <3>2, <3>3 DEF PoolsComplete
    <3>5. \A q \in Req : ~HasRow(q)'
      BY <2>1, <3>1, Zenon DEF HasRow
    <3> QED BY <3>4, <3>5, Zenon DEF SolePoolsInv
  <2> QED BY <1>3, <2>7, <2>8, Zenon
<1> QED BY <1>1, <1>2, <1>3, PoolSteps, Zenon

\* One request at a time stays one request at a time.
LEMMA NextSole ==
  ASSUME MaxRunningRequests = 1, Inv, SoleInv, [Next]_vars PROVE SoleInv'
<1>1. TurnInv'
  <2>1. CASE UNCHANGED vars
    BY <2>1, Zenon DEF SoleInv, TurnInv, HasRow, vars, queues, reqs, kv, control
  <2> QED BY <2>1, InputTurn, LoopTurn, Zenon DEF SoleInv, Next
<1> QED BY <1>1, NextSolePools, Zenon DEF SoleInv

-----------------------------------------------------------------------------
(* Commands *)

\* A step of the process is one of the scheduler, or a flush of an idle one.
LEMMA ControlSteps ==
  ASSUME [ControlNext]_<<vars, controls>>
  PROVE  [Next]_vars \/ (At("recv") /\ IsFullyIdle /\ ClearPools)
BY Zenon
   DEF ControlNext, RunLoop, Expire, Arrive, Command, Abort, FlushCache,
       PauseInPlace, ContinueGeneration, CheckPendingFlush, Next, Input

\* When no request has a row and the pools are as ClearPools leaves them,
\* everything is owned once.
LEMMA ClearedPools ==
  ASSUME \A r \in Req : ~HasRow(r),
         free_pages = [i \in 1..PoolSize |-> i],
         free_slots = [i \in 1..NumRows |-> i - 1]
  PROVE  OwnershipInv /\ SolePoolsInv
<1>1. Len(free_pages) = PoolSize /\ \A i \in 1..PoolSize : free_pages[i] = i
  <2>1. free_pages \in [1..PoolSize -> Nat]
    BY PoolAssumption
  <2> QED BY <2>1, PoolAssumption, SeqOfFunction, Zenon
<1>2. Len(free_slots) = NumRows /\ \A i \in 1..NumRows : free_slots[i] = i - 1
  <2>1. free_slots \in [1..NumRows -> Int]
    BY PoolAssumption
  <2> QED BY <2>1, PoolAssumption, SeqOfFunction, Zenon
<1>3. \A r \in Req : Committed(r) = {}
  BY Zenon DEF Committed
<1>4. RowsOwnedOnce
  BY <1>2, PoolAssumption DEF RowsOwnedOnce
<1>5. NoDoubleFree /\ NoSlotShared /\ PaddingReserved
  BY <1>1, <1>3, PoolAssumption
     DEF NoDoubleFree, NoSlotShared, PaddingReserved
<1>6. NoSlotLost
  BY <1>1, PoolAssumption, Zenon DEF NoSlotLost, Slots
<1>7. SolePoolsInv
  BY <1>1, <1>2, Zenon DEF SolePoolsInv, PoolsComplete
<1> QED BY <1>4, <1>5, <1>6, <1>7, Zenon DEF OwnershipInv

\* The types and the lifecycle at recv depend neither on the last batch nor on
\* the order of the free lists.
LEMMA ClearPoolsInv ==
  ASSUME Inv, SoleInv, At("recv"), IsFullyIdle, ClearPools
  PROVE  /\ Inv' /\ OwnershipInv' /\ SoleInv'
         /\ \A r \in Req : ~HasRow(r) /\ ~HasRow(r)'
<1>1. \A r \in Req : ~HasRow(r)
  BY Zenon DEF SoleInv, TurnInv, At, IsFullyIdle
<1>2. /\ \A r \in Req : ~HasRow(r)'
      /\ free_pages' = [i \in 1..PoolSize |-> i]
      /\ free_slots' = [i \in 1..NumRows |-> i - 1]
  BY <1>1, Zenon DEF ClearPools, HasRow, reqs, kv
<1>3. OwnershipInv' /\ SolePoolsInv'
  <2>1. (\A r \in Req : ~HasRow(r))'
    BY <1>2, Zenon
  <2>2. (free_pages = [i \in 1..PoolSize |-> i])'
    BY <1>2, Zenon
  <2>3. (free_slots = [i \in 1..NumRows |-> i - 1])'
    BY <1>2, Zenon
  <2> QED BY <2>1, <2>2, <2>3, ClearedPools, PTL
<1>4. TypeOK'
  <2>1. free_pages' \in Seq(AnySlot) /\ free_slots' \in Seq(Rows)
    <3>1. /\ free_pages' \in [1..PoolSize -> AnySlot]
          /\ free_slots' \in [1..NumRows -> Rows]
      BY <1>2, PoolAssumption DEF AnySlot, Rows
    <3> QED BY <3>1, PoolAssumption, SeqOfFunction, Zenon
  <2> QED BY <2>1, Zenon
     DEF Inv, TypeOK, ClearPools, NoBatch, queues, reqs, inputs, results, kv,
         control
<1>5. LifecycleInv'
  <2>1. pc = "recv" /\ UNCHANGED <<queues, reqs, pc, todo, can_run_list>>
    BY Zenon DEF ClearPools, At, control
  <2> QED BY <2>1, Zenon
     DEF Inv, LifecycleInv, QueuesInv, LiveInv, RecvInv, PrepareInv, FetchInv,
         IdleInv, PrefillInv, DecodeInv, AllocInv, ForwardInv, ProcessInv,
         CanRunInv, Pristine, Resting, Settled, Total, Arrived, Finished,
         HasRow, queues, reqs, inputs, results, kv
<1>6. TurnInv'
  BY <1>2, Zenon DEF SoleInv, TurnInv, ClearPools, At, queues, control
<1> QED BY <1>1, <1>2, <1>3, <1>4, <1>5, <1>6, Zenon DEF Inv, SoleInv

\* What commands and the loop keep together.
ControlInv == Inv /\ OwnershipInv /\ SoleInv

LEMMA InitControl == ControlInit => ControlInv
<1> SUFFICES ASSUME Init PROVE ControlInv
  BY Zenon DEF ControlInit
<1>1. \A r \in Req : ~HasRow(r)
  BY Zenon DEF Init, HasRow
<1>2. OwnershipInv /\ SolePoolsInv
  BY <1>1, ClearedPools, Zenon DEF Init
<1>3. TurnInv
  BY <1>1, Zenon DEF Init, TurnInv
<1> QED BY <1>2, <1>3, InitInv, Zenon DEF ControlInv, SoleInv

LEMMA NextControl ==
  ASSUME MaxRunningRequests = 1, ControlInv, [ControlNext]_<<vars, controls>>
  PROVE  ControlInv'
<1>1. CASE [Next]_vars
  BY <1>1, NextInv, NextOwnership, NextSole, Zenon DEF ControlInv
<1>2. CASE At("recv") /\ IsFullyIdle /\ ClearPools
  BY <1>2, ClearPoolsInv, Zenon DEF ControlInv
<1> QED BY <1>1, <1>2, ControlSteps, Zenon

\* With one request at a time, flushes (immediate, deferred, of a paused engine)
\* never share, lose or free twice a slot or a row.
THEOREM OwnershipUnderFlush ==
  ASSUME MaxRunningRequests = 1 PROVE ControlSpec => []OwnershipInv
<1>1. ControlInv => OwnershipInv
  BY Zenon DEF ControlInv
<1>2. ControlInv /\ [ControlNext]_<<vars, controls>> => ControlInv'
  BY NextControl, Zenon
<1> QED BY <1>1, <1>2, InitControl, PTL DEF ControlSpec

\* With one request at a time, flush_cache takes no row and no slot of a live
\* request: is_fully_idle, which does not look at DllmManager.waiting_queue, is
\* then right all the same.
THEOREM FlushSafe ==
  ASSUME MaxRunningRequests = 1 PROVE ControlSpec => []FlushSparesLiveKv
<1>1. OwnershipInv => FlushSparesLiveKv
  BY Zenon DEF OwnershipInv, RowsOwnedOnce, NoSlotShared, FlushSparesLiveKv
<1> QED BY <1>1, OwnershipUnderFlush, PTL

-----------------------------------------------------------------------------
(* Exceptions *)

\* The request that is to be allocated for has a row and room for its block, or
\* everything is free.
LEMMA AllocFits ==
  ASSUME RequestsFit, Inv, SoleInv, WholeBlocksInv, NEW r \in Req,
         At("alloc"), First(r, todo)
  PROVE  /\ HasRow(r) \/ free_slots # <<>>
         /\ ~(Len(free_pages) < extend_input_len[r])
         /\ ~(fill_len[r] > RowWidth)
<1>1. /\ pc = "alloc" /\ r \in todo /\ r \in batch.reqs /\ r \in active
      /\ batch.mode \in {"EXTEND", "DLLM_EXTEND"}
      /\ IF batch.mode = "EXTEND" THEN PromptReady(r) ELSE BlockReady(r)
  BY Zenon DEF At, First, Inv, LifecycleInv, AllocInv, QueuesInv
<1>2. /\ PromptLen[r] \in Nat /\ output_len[r] \in Nat /\ BlockSize \in Nat
      /\ MaxNewTokens[r] \in Nat /\ PoolSize \in Nat /\ RowWidth \in Nat
      /\ NumRows \in Nat
  BY PromptAssumption, MaxNewAssumption, BlockAssumption, PoolAssumption, Zenon
     DEF Inv, TypeOK
<1>3. PICK n \in Nat :
        /\ n = MaxOf(MaxNewTokens[r], 1) /\ n > 0
        /\ PromptLen[r] + n - 1 + BlockSize <= PoolSize
        /\ PromptLen[r] + n - 1 + BlockSize <= RowWidth
  BY LimitFits, Zenon
<1>4. CASE batch.mode = "EXTEND"
  <2>1. ~HasRow(r) /\ fill_len[r] = PromptLen[r]
        /\ extend_input_len[r] = PromptLen[r]
    BY <1>1, <1>4, Zenon DEF PromptReady
  <2>2. \A q \in Req : ~HasRow(q)
    BY <1>1, <2>1, SoleHolder, Zenon DEF SoleInv
  <2>3. Len(free_pages) = PoolSize /\ Len(free_slots) = NumRows
    BY <2>2, Zenon DEF SoleInv, SolePoolsInv, PoolsComplete
  <2>4. NumRows > 0
    BY Zenon DEF RequestsFit
  <2>5. free_slots # <<>>
    <3>1. Len(<<>>) = 0
      BY Zenon
    <3>2. Len(free_slots) # 0
      BY <1>2, <2>3, <2>4
    <3> QED BY <3>1, <3>2, Zenon
  <2>6. ~(PoolSize < PromptLen[r]) /\ ~(PromptLen[r] > RowWidth)
    BY <1>2, <1>3
  <2> QED BY <2>1, <2>3, <2>5, <2>6, Zenon
<1>5. CASE batch.mode = "DLLM_EXTEND"
  <2>1. /\ HasRow(r) /\ kv_committed_len[r] = PromptLen[r] + output_len[r]
        /\ fill_len[r] = PromptLen[r] + output_len[r] + extend_input_len[r]
    BY <1>1, <1>5, Zenon DEF BlockReady, Total
  <2>2. /\ output_len[r] < MaxOf(MaxNewTokens[r], 1)
        /\ extend_input_len[r] = BlockSize
    BY <1>1, <1>5, <2>1, Zenon DEF WholeBlocksInv
  <2>3. Len(free_pages) = PoolSize - kv_committed_len[r]
    BY <2>1, Zenon DEF SoleInv, SolePoolsInv
  <2>4. output_len[r] < n
    BY <1>3, <2>2, Zenon
  <2>5. /\ ~(PoolSize - (PromptLen[r] + output_len[r]) < BlockSize)
        /\ ~(PromptLen[r] + output_len[r] + BlockSize > RowWidth)
    BY <1>2, <1>3, <2>4
  <2> QED BY <2>1, <2>2, <2>3, <2>5, Zenon
<1> QED BY <1>1, <1>4, <1>5, Zenon

\* No exception is raised.
LEMMA NextRaisesNothing ==
  ASSUME RequestsFit, Inv, SoleInv, WholeBlocksInv, [Next]_vars
  PROVE  NeverRaises'
<1> USE DEF NeverRaises
<1>0. status = "ok"
  BY Zenon DEF WholeBlocksInv
<1>1. CASE UNCHANGED vars
  BY <1>0, <1>1, Zenon DEF vars, control
<1>2. CASE Input
  BY <1>0, <1>2, Zenon
     DEF Input, AddRequest, WaitingTimeout, AbortRequest, control
<1>3. ASSUME NEW r \in Req, FetchWaitingReq(r) PROVE NeverRaises'
  <2>1. r \notin active
    BY <1>3, Zenon DEF FetchWaitingReq, First, Inv, LifecycleInv, QueuesInv
  <2> QED BY <1>0, <1>3, <2>1, Zenon DEF FetchWaitingReq, control
<1>4. ASSUME NEW r \in Req, AllocForExtend(r) PROVE NeverRaises'
  <2>1. At("alloc") /\ First(r, todo)
    BY <1>4, Zenon DEF AllocForExtend
  <2> QED BY <1>0, <1>4, <2>1, AllocFits, Zenon DEF AllocForExtend
<1>5. CASE ForwardBlock
  <2>1. \A r \in batch.reqs : extend_input_len[r] = BlockSize
    BY <1>5, Zenon
       DEF ForwardBlock, At, WholeBlocksInv, Inv, LifecycleInv, AllocInv,
           ForwardInv, BlockAllocated, QueuesInv, TypeOK
  <2> QED BY <1>0, <1>5, <2>1, Zenon DEF ForwardBlock
<1>6. ASSUME NEW r \in Req, ProcessReq(r) PROVE NeverRaises'
  <2>1. At("process") /\ First(r, todo)
    BY <1>6, Zenon DEF ProcessReq, ProcessNoToken, ProcessTokens
  <2>2. ~Finished(r)
    BY <2>1, InProcess, Zenon
  <2> QED BY <1>0, <1>6, <2>2, Zenon
     DEF ProcessReq, ProcessNoToken, ProcessTokens
<1>7. CASE OnIdle
  <2>1. PoolsComplete
    BY <1>7, Zenon DEF OnIdle, At, SoleInv, TurnInv, SolePoolsInv
  <2> QED BY <1>0, <1>7, <2>1, Zenon DEF OnIdle
<1>8. CASE \/ GetNextBatch \/ PrepareDone \/ FetchDone \/ AdmitDone \/ AllocDone
           \/ ForwardPrompt \/ ProcessDone
           \/ \E r \in Req : PrepareStagingReq(r)
           \/ \E r \in Req : AdmitPrefill(r) \/ AdmitDecode(r)
  BY <1>0, <1>8, Zenon
     DEF GetNextBatch, PrepareDone, FetchDone, AdmitDone, AllocDone,
         ForwardPrompt, ProcessDone, PrepareStagingReq, AdmitPrefill,
         AdmitDecode
<1> QED
  BY <1>1, <1>2, <1>3, <1>4, <1>5, <1>6, <1>7, <1>8, Zenon DEF Next, Loop

\* A request that keeps its row stays below its limit: only the results of a
\* block add to its output, and they end a request that reaches it.
LEMMA NextBelowLimit ==
  ASSUME Inv, WholeBlocksInv, [Next]_vars, NEW r \in Req, HasRow(r)'
  PROVE  output_len'[r] < MaxOf(MaxNewTokens[r], 1)
<1>0. /\ MaxNewTokens[r] \in Nat /\ output_len \in [Req -> Nat]
      /\ req_pool_idx \in [Req -> Rows \cup {NoRow}]
      /\ finished_reason \in [Req -> Finish]
  BY MaxNewAssumption, Zenon DEF Inv, TypeOK
<1>1. ASSUME NEW q \in Req, NEW n \in AcceptedLens, NEW stop \in BOOLEAN,
             ProcessTokens(q, n, stop)
      PROVE  output_len'[r] < MaxOf(MaxNewTokens[r], 1)
  <2>1. At("process") /\ First(q, todo) /\ ~Finished(q)
    BY <1>1, InProcess, Zenon DEF ProcessTokens
  <2>2. /\ n \in Nat
        /\ output_len' = [output_len EXCEPT ![q] = output_len[q] + n]
    BY <1>1, ProcessTokensFacts
  <2>3. CASE r = q
    <3>1. FinishReason(r, n, stop) = "no"
      BY <1>0, <1>1, <2>1, <2>3, Zenon DEF ProcessTokens, HasRow
    <3> QED BY <1>0, <2>2, <2>3, <3>1 DEF FinishReason, MaxOf
  <2>4. CASE r # q
    <3>1. HasRow(r) /\ output_len'[r] = output_len[r]
      BY <1>0, <1>1, <2>1, <2>2, <2>4, Zenon DEF ProcessTokens, HasRow
    <3> QED BY <3>1, Zenon DEF WholeBlocksInv
  <2> QED BY <2>3, <2>4, Zenon
<1>2. CASE ~\E q \in Req, n \in AcceptedLens, stop \in BOOLEAN :
              ProcessTokens(q, n, stop)
  <2>1. output_len' = output_len
    BY <1>2, OutputSteps, Zenon
  <2>2. CASE HasRow(r)
    BY <2>1, <2>2, Zenon DEF WholeBlocksInv
  <2>3. CASE ~HasRow(r)
    <3>1. PICK row \in Rows, n \in Nat : Allocates(r, row, n)
      <4>1. ~UNCHANGED <<kv, pools>>
        BY <2>3, Zenon DEF HasRow, kv
      <4>2. ASSUME NEW q \in Req, NEW m \in Nat, Truncates(q, m) \/ Releases(q, m)
            PROVE  FALSE
        BY <1>0, <2>3, <4>2, Zenon DEF Truncates, Releases, HasRow
      <4>3. ASSUME NEW q \in Req, NEW row \in Rows, NEW n \in Nat,
                   Allocates(q, row, n)
            PROVE  q = r
        BY <1>0, <2>3, <4>3, Zenon DEF Allocates, HasRow
      <4> QED BY <4>1, <4>2, <4>3, PoolSteps, Zenon
    <3>2. output_len[r] = 0
      BY <2>3, <3>1, Zenon
         DEF Allocates, Inv, LifecycleInv, AllocInv, PromptReady, BlockReady
    <3> QED BY <1>0, <2>1, <3>2 DEF MaxOf
  <2> QED BY <2>2, <2>3, Zenon
<1> QED BY <1>1, <1>2, Zenon

\* From _prepare_staging_reqs to the results a block keeps its length: with
\* BlockSize free slots admission does not cut it.
LEMMA NextWholeBlocks ==
  ASSUME MaxRunningRequests = 1, RequestsFit, Inv, SoleInv, WholeBlocksInv,
         [Next]_vars
  PROVE  WholeBlocksInv'
<1> DEFINE Whole(r) ==
             \/ pc = "prepare" /\ r \notin todo
             \/ pc \in {"fetch", "decode"}
             \/ pc \in {"alloc", "forward"} /\ batch.mode = "DLLM_EXTEND"
             => extend_input_len[r] = BlockSize
<1>0. /\ extend_input_len \in [Req -> Nat] /\ BlockSize \in Nat
      /\ output_len \in [Req -> Nat] /\ PromptLen \in [Req -> Nat]
      /\ kv_committed_len \in [Req -> Nat]
  BY BlockAssumption, PromptAssumption, Zenon DEF Inv, TypeOK
<1>1. \A r \in Req : HasRow(r) => Whole(r)
  BY Zenon DEF WholeBlocksInv
<1> SUFFICES ASSUME NEW q \in Req, HasRow(q)' PROVE Whole(q)'
  BY NextRaisesNothing, NextBelowLimit, Zenon DEF WholeBlocksInv
<1>2. CASE UNCHANGED vars \/ Input
  BY <1>1, <1>2, Zenon
     DEF Input, AddRequest, WaitingTimeout, AbortRequest, HasRow, vars, reqs,
         inputs, kv, control
<1>3. CASE GetNextBatch
  BY <1>3, Zenon
     DEF GetNextBatch, HasRow, reqs, kv, At, SoleInv, TurnInv, Inv,
         LifecycleInv, QueuesInv, Unfinished
<1>4. ASSUME NEW r \in Req, PrepareStagingReq(r) PROVE Whole(q)'
  <2>1. /\ pc = "prepare" /\ r \in todo /\ todo' = todo \ {r}
        /\ UNCHANGED pc /\ UNCHANGED req_pool_idx
    BY <1>4, Zenon DEF PrepareStagingReq, At, First, kv
  <2>2. Resting(r)
    BY <2>1, Zenon DEF Inv, LifecycleInv, PrepareInv
  <2>3. NextPrefix(r) = PromptLen[r] + output_len[r]
    BY <1>0, <2>2, PromptAssumption DEF NextPrefix, Resting, Total
  <2>4. extend_input_len'[r] = BlockSize
    BY <1>0, <1>4, <2>3 DEF PrepareStagingReq
  <2>5. \A p \in Req \ {r} : extend_input_len'[p] = extend_input_len[p]
    BY <1>0, <1>4, Zenon DEF PrepareStagingReq
  <2> QED BY <1>0, <1>1, <2>1, <2>4, <2>5, Zenon DEF HasRow
<1>5. CASE PrepareDone \/ FetchDone
  BY <1>1, <1>5, Zenon DEF PrepareDone, FetchDone, At, HasRow, reqs, inputs, kv
<1>6. ASSUME NEW r \in Req, FetchWaitingReq(r) PROVE Whole(q)'
  BY <1>1, <1>6, Zenon
     DEF FetchWaitingReq, At, Raise, HasRow, reqs, inputs, kv, control
<1>7. ASSUME NEW r \in Req, AdmitPrefill(r) PROVE Whole(q)'
  BY <1>7, Zenon DEF AdmitPrefill, At
<1>8. ASSUME NEW r \in Req, AdmitDecode(r) PROVE Whole(q)'
  <2>1. /\ pc = "decode" /\ r \in todo /\ r \in active
        /\ adder = NewAdder /\ UNCHANGED <<req_pool_idx, pc>>
    BY <1>8, Zenon
       DEF AdmitDecode, At, First, Inv, LifecycleInv, DecodeInv, SoleInv,
           TurnInv, Phase, kv
  <2>2. HasRow(q) /\ q = r /\ extend_input_len[r] = BlockSize
    BY <1>1, <2>1, SoleHolder, Zenon DEF HasRow, SoleInv
  <2>3. Settled(r) \/ BlockReady(r)
    BY <2>1, Zenon DEF Inv, LifecycleInv, DecodeInv
  <2>4. kv_committed_len[r] = PromptLen[r] + output_len[r]
    BY <2>2, <2>3, Zenon DEF Settled, BlockReady, Total
  <2>5. Len(free_pages) >= BlockSize
    <3>1. /\ output_len[r] < MaxOf(MaxNewTokens[r], 1)
          /\ Len(free_pages) = PoolSize - kv_committed_len[r]
      BY <2>2, Zenon DEF WholeBlocksInv, SoleInv, SolePoolsInv
    <3>2. PICK n \in Nat : /\ n = MaxOf(MaxNewTokens[r], 1)
                           /\ PromptLen[r] + n - 1 + BlockSize <= PoolSize
      BY LimitFits, Zenon
    <3>3. output_len[r] < n
      BY <3>1, <3>2, Zenon
    <3>4. /\ PromptLen[r] \in Nat /\ output_len[r] \in Nat
          /\ PoolSize \in Nat /\ BlockSize \in Nat
      BY <1>0, PoolAssumption, Zenon
    <3>5. PromptLen[r] + output_len[r] + BlockSize <= PoolSize
      BY <3>2, <3>3, <3>4
    <3> QED BY <2>4, <3>1, <3>4, <3>5
  <2>6. DllmRemainTokens(adder) = BlockSize
    BY <2>1, <2>5, FirstBlockAdmitted, Zenon
  <2>7. /\ extend_input_len' = [extend_input_len EXCEPT ![r] =
                                  MinOf(extend_input_len[r], BlockSize)]
    BY <1>0, <1>8, <2>6, BlockAssumption DEF AdmitDecode
  <2> QED BY <1>0, <2>1, <2>2, <2>7, Zenon DEF MinOf
<1>9. CASE AdmitDone
  <2>1. /\ pc = "decode" \/ pc' = "idle" \/ batch'.mode = "EXTEND"
        /\ pc' \in {"idle", "alloc"}
        /\ UNCHANGED <<req_pool_idx, extend_input_len>>
    BY <1>9, Zenon
       DEF AdmitDone, At, reqs, inputs, kv, Inv, TypeOK, LifecycleInv,
           PrefillInv
  <2> QED BY <1>1, <2>1, Zenon DEF HasRow
<1>10. ASSUME NEW r \in Req, AllocForExtend(r) PROVE Whole(q)'
  <2>1. /\ pc = "alloc" /\ r \in todo /\ r \in active
        /\ UNCHANGED <<pc, batch, extend_input_len>>
    BY <1>10, Zenon
       DEF AllocForExtend, At, First, Raise, reqs, inputs, Inv, LifecycleInv,
           AllocInv, QueuesInv
  <2>2. CASE batch.mode = "DLLM_EXTEND"
    <3>1. HasRow(r)
      BY <2>1, <2>2, Zenon DEF Inv, LifecycleInv, AllocInv, BlockReady
    <3>2. req_pool_idx \in [Req -> Rows \cup {NoRow}]
      BY Zenon DEF Inv, TypeOK
    <3>3. HasRow(q)
      BY <1>10, <3>1, <3>2, Zenon
         DEF AllocForExtend, Raise, HasRow, reqs, kv
    <3> QED BY <1>1, <2>1, <2>2, <3>3, Zenon
  <2> QED BY <2>1, <2>2, Zenon
<1>11. CASE AllocDone
  BY <1>1, <1>11, Zenon DEF AllocDone, At, HasRow, reqs, inputs, kv
<1>12. CASE ForwardPrompt \/ ForwardBlock \/ ProcessDone \/ OnIdle
  <2>1. \/ pc' \notin {"prepare", "fetch", "decode", "alloc", "forward"}
        \/ UNCHANGED <<pc, todo, batch, extend_input_len, req_pool_idx>>
    BY <1>12, Zenon
       DEF ForwardPrompt, ForwardBlock, ProcessDone, OnIdle, Raise, reqs,
           inputs, kv
  <2> QED BY <1>1, <2>1, Zenon DEF HasRow
<1>13. ASSUME NEW r \in Req, ProcessReq(r) PROVE Whole(q)'
  BY <1>13, Zenon DEF ProcessReq, ProcessNoToken, ProcessTokens, At, Raise
<1> QED
  BY <1>2, <1>3, <1>4, <1>5, <1>6, <1>7, <1>8, <1>9, <1>10, <1>11, <1>12,
     <1>13, Zenon DEF Next, Loop

\* With one request at a time, pools and rows that every request fits into, and
\* any commands: the allocators find memory for every batch they are asked
\* for, no block is cut or leaves its row, the strict idle check finds no leak,
\* and neither assertion of the request queues fails.
THEOREM SoleNeverRaises ==
  ASSUME MaxRunningRequests = 1, RequestsFit
  PROVE  ControlSpec => []NeverRaises
<1>1. ControlInit => WholeBlocksInv
  BY Zenon DEF ControlInit, Init, WholeBlocksInv, NeverRaises, HasRow
<1>2. ControlInv /\ WholeBlocksInv /\ [ControlNext]_<<vars, controls>>
        => WholeBlocksInv'
  <2> SUFFICES ASSUME ControlInv, WholeBlocksInv,
                      [ControlNext]_<<vars, controls>>
               PROVE  WholeBlocksInv'
    BY Zenon
  <2>1. CASE [Next]_vars
    BY <2>1, NextWholeBlocks, Zenon DEF ControlInv
  <2>2. CASE At("recv") /\ IsFullyIdle /\ ClearPools
    BY <2>2, ClearPoolsInv, Zenon
       DEF ControlInv, WholeBlocksInv, NeverRaises, ClearPools, control
  <2> QED BY <2>1, <2>2, ControlSteps, Zenon
<1>3. WholeBlocksInv => NeverRaises
  BY Zenon DEF WholeBlocksInv
<1>4. ControlInv /\ [ControlNext]_<<vars, controls>> => ControlInv'
  BY NextControl, Zenon
<1> QED BY <1>1, <1>2, <1>3, <1>4, InitControl, PTL DEF ControlSpec
=============================================================================
