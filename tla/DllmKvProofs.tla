---------------------------- MODULE DllmKvProofs ----------------------------
(***************************************************************************)
(* Proof that no step loses, shares or frees twice a KV slot or a row, and *)
(* what follows from it and from the lifecycle invariant: the single       *)
(* properties the runs check, the stability of committed KV, and that the  *)
(* memory pools of the scheduler refine KvStore: every step extends the    *)
(* table of one request by free slots, or drops slots from its end and     *)
(* frees them, or leaves the tables and the free slots alone.              *)
(***************************************************************************)
EXTENDS DllmKvStepProofs

SlotsInv == NoDoubleFree /\ NoSlotShared /\ NoSlotLost /\ PaddingReserved

\* A step that touches neither rows nor pools keeps the ownership.
LEMMA OwnershipUnchanged ==
  ASSUME Inv, Inv', OwnershipInv, UNCHANGED <<kv, pools>>
  PROVE  OwnershipInv'
<1>1. SlotsInv'
  BY DEF OwnershipInv, SlotsInv, NoDoubleFree, NoSlotShared, NoSlotLost,
         PaddingReserved, Committed, SlotAt, HasRow, kv, pools
<1>2. RowsOwnedOnce'
  BY Zenon DEF OwnershipInv, RowsOwnedOnce, HasRow, kv, pools, Inv, LifecycleInv,
         QueuesInv
<1> QED BY <1>1, <1>2, Zenon DEF OwnershipInv, SlotsInv

\* At the start every slot and every row is free, once.
LEMMA InitOwnership == Init => OwnershipInv
<1> SUFFICES ASSUME Init PROVE OwnershipInv
  BY Zenon
<1>1. Len(free_pages) = PoolSize /\ \A i \in 1..PoolSize : free_pages[i] = i
  <2>1. free_pages \in [1..PoolSize -> Nat]
    BY PoolAssumption DEF Init
  <2> QED BY <2>1, PoolAssumption, SeqOfFunction, Zenon DEF Init
<1>2. Len(free_slots) = NumRows /\ \A i \in 1..NumRows : free_slots[i] = i - 1
  <2>1. free_slots \in [1..NumRows -> Int]
    BY PoolAssumption DEF Init
  <2> QED BY <2>1, PoolAssumption, SeqOfFunction, Zenon DEF Init
<1>3. \A r \in Req : ~HasRow(r) /\ Committed(r) = {}
  BY Zenon DEF Init, HasRow, Committed
<1>4. RowsOwnedOnce
  BY <1>2, <1>3, PoolAssumption DEF RowsOwnedOnce
<1>5. NoDoubleFree /\ NoSlotShared /\ PaddingReserved
  BY <1>1, <1>3, PoolAssumption
     DEF NoDoubleFree, NoSlotShared, PaddingReserved
<1>6. NoSlotLost
  BY <1>1, PoolAssumption, Zenon DEF NoSlotLost, Slots
<1> QED BY <1>4, <1>5, <1>6, Zenon DEF OwnershipInv

\* A step that changes the pools allocates for a request or gives back slots
\* of one.
LEMMA PoolSteps ==
  ASSUME Inv, [Next]_vars
  PROVE  \/ UNCHANGED <<kv, pools>>
         \/ \E r \in Req, row \in Rows, n \in Nat : Allocates(r, row, n)
         \/ \E r \in Req, m \in Nat :
              /\ HasRow(r) /\ m <= kv_committed_len[r]
              /\ kv_committed_len[r] <= RowWidth
              /\ Truncates(r, m) \/ Releases(r, m)
<1>1. CASE UNCHANGED vars
  BY <1>1, Zenon DEF vars, reqs
<1>2. CASE Input
  BY <1>2, Zenon DEF Input, AddRequest, WaitingTimeout, AbortRequest, reqs
<1>3. ASSUME NEW e, Raise(e) PROVE UNCHANGED <<kv, pools>>
  BY <1>3, Zenon DEF Raise, reqs
<1>4. ASSUME NEW r \in Req, AllocForExtend(r)
      PROVE  \/ UNCHANGED <<kv, pools>>
             \/ \E row \in Rows, n \in Nat : Allocates(r, row, n)
  <2>1. CASE status' = "ok"
    BY <1>4, <2>1, AllocFacts, Zenon
  <2>2. CASE status' # "ok"
    BY <1>3, <1>4, <2>2, Zenon DEF AllocForExtend, At
  <2> QED BY <2>1, <2>2, Zenon
<1>5. ASSUME NEW r \in Req, ProcessReq(r)
      PROVE  \E m \in Nat :
              /\ HasRow(r) /\ m <= kv_committed_len[r]
              /\ kv_committed_len[r] <= RowWidth
              /\ Truncates(r, m) \/ Releases(r, m)
  <2>1. At("process") /\ First(r, todo)
    BY <1>5, Zenon DEF ProcessReq, ProcessNoToken, ProcessTokens
  <2>2. /\ HasRow(r) /\ kv_committed_len[r] <= RowWidth
        /\ Total(r) \in Nat /\ kv_committed_len[r] = Total(r) + BlockSize
    BY <2>1, InProcess, Zenon
  <2>3. CASE ProcessNoToken(r)
    BY <2>2, <2>3, ProcessNoTokenFacts, BlockAssumption
  <2>4. ASSUME NEW n \in AcceptedLens,
               NEW stop \in BOOLEAN, ProcessTokens(r, n, stop)
        PROVE  \E m \in Nat :
                 /\ HasRow(r) /\ m <= kv_committed_len[r]
                 /\ kv_committed_len[r] <= RowWidth
                 /\ Truncates(r, m) \/ Releases(r, m)
    <3>1. /\ n \in 1..BlockSize
          /\ Truncates(r, Total(r) + n) \/ Releases(r, Total(r) + n)
      BY <2>4, ProcessTokensFacts, Zenon
    <3>2. Total(r) + n \in Nat /\ Total(r) + n <= kv_committed_len[r]
      BY <2>2, <3>1, BlockAssumption
    <3> QED BY <2>2, <3>1, <3>2, Zenon
  <2> QED BY <1>5, <2>3, <2>4, Zenon DEF ProcessReq
<1>6. ASSUME \/ GetNextBatch \/ PrepareDone \/ FetchDone \/ AdmitDone
                \/ AllocDone
             \/ ForwardPrompt \/ ForwardBlock \/ ProcessDone \/ OnIdle
             \/ \E r \in Req : PrepareStagingReq(r) \/ FetchWaitingReq(r)
             \/ \E r \in Req : AdmitPrefill(r) \/ AdmitDecode(r)
      PROVE  UNCHANGED <<kv, pools>>
  BY <1>3, <1>6, Zenon
     DEF GetNextBatch, PrepareDone, FetchDone, AdmitDone, AllocDone,
         ForwardPrompt, ForwardBlock, ProcessDone, OnIdle, PrepareStagingReq,
         FetchWaitingReq, AdmitPrefill, AdmitDecode, reqs
<1> QED BY <1>1, <1>2, <1>4, <1>5, <1>6, Zenon DEF Next, Loop

\* Every step of the scheduler keeps the ownership.
LEMMA NextOwnership ==
  Inv /\ OwnershipInv /\ [Next]_vars => OwnershipInv'
<1> SUFFICES ASSUME Inv, OwnershipInv, [Next]_vars PROVE OwnershipInv'
  BY Zenon
<1>1. Inv'
  BY NextInv, Zenon
<1> QED
  BY <1>1, PoolSteps, OwnershipUnchanged, AllocOwnership, FreesOwnership, Zenon

\* No KV slot or row is ever shared, lost or freed twice, whatever prompts,
\* partial acceptances, aborts and finishes the scheduler meets.
THEOREM KvOwnership == Spec => []OwnershipInv
<1> QED BY InitInv, NextInv, InitOwnership, NextOwnership, PTL DEF Spec

\* What partial acceptance and release_kv_cache give back is never given back
\* twice.
THEOREM FreedOnce == Spec => []NoDoubleFree
<1>1. OwnershipInv => NoDoubleFree
  BY Zenon DEF OwnershipInv
<1> QED BY <1>1, KvOwnership, PTL

\* alloc_for_extend never hands out a slot that serves a position.
THEOREM SlotsUnshared == Spec => []NoSlotShared
<1>1. OwnershipInv => NoSlotShared
  BY Zenon DEF OwnershipInv
<1> QED BY <1>1, KvOwnership, PTL

\* Blocks that yield fewer tokens than they have slots for, finished and aborted
\* requests give everything back.
THEOREM SlotsComplete == Spec => []NoSlotLost
<1>1. OwnershipInv => NoSlotLost
  BY Zenon DEF OwnershipInv
<1> QED BY <1>1, KvOwnership, PTL

\* A row of ReqToTokenPool is free or has one live owner.
THEOREM RowsUnshared == Spec => []RowsOwnedOnce
<1>1. OwnershipInv => RowsOwnedOnce
  BY Zenon DEF OwnershipInv
<1> QED BY <1>1, KvOwnership, PTL

\* Every block batch runs on the whole accepted prefix (_prepare_staging_reqs,
\* alloc_for_extend).
THEOREM BlockPrefix == Spec => []BlockSeesWholePrefix
<1>1. Inv => BlockSeesWholePrefix
  BY Zenon DEF Inv, LifecycleInv, AllocInv, BlockAllocated, Total,
         BlockSeesWholePrefix
<1> QED BY <1>1, InitInv, NextInv, PTL DEF Spec

\* After the accounting of partial acceptance a live request's committed KV is
\* its prompt and output.
THEOREM CommittedOutput == Spec => []CommittedIsOutput
<1>1. Inv => CommittedIsOutput
  BY Zenon
     DEF Inv, LifecycleInv, QueuesInv, RecvInv, Resting, Settled, Total,
         CommittedIsOutput
<1> QED BY <1>1, InitInv, NextInv, PTL DEF Spec

\* Neither the duplicate check of add_waiting_reqs nor the double-release
\* assertion of pop_committed_kv_cache ever fails.
THEOREM ProtocolErrorFree == Spec => []NoProtocolError
<1>1. Init => NoProtocolError
  BY Zenon DEF Init, NoProtocolError
<1>2. Inv /\ NoProtocolError /\ [Next]_vars => NoProtocolError'
  <2> SUFFICES ASSUME Inv, NoProtocolError, [Next]_vars
               PROVE  NoProtocolError'
    BY Zenon
  <2> USE DEF NoProtocolError
  <2>1. CASE UNCHANGED vars
    BY <2>1, Zenon DEF vars, control
  <2>2. CASE Input
    BY <2>2, Zenon
       DEF Input, AddRequest, WaitingTimeout, AbortRequest, control
  <2>3. ASSUME NEW r \in Req, FetchWaitingReq(r) PROVE NoProtocolError'
    <3>1. r \notin active
      BY <2>3, Zenon DEF FetchWaitingReq, First, Inv, LifecycleInv, QueuesInv
    <3> QED BY <2>3, <3>1, Zenon DEF FetchWaitingReq, control
  <2>4. ASSUME NEW r \in Req, ProcessReq(r) PROVE NoProtocolError'
    <3>1. ~Finished(r)
      BY <2>4, InProcess, Zenon
         DEF ProcessReq, ProcessNoToken, ProcessTokens, Inv, LifecycleInv,
             QueuesInv
    <3> QED BY <2>4, <3>1, Zenon DEF ProcessReq, ProcessNoToken, ProcessTokens
  <2>5. CASE \/ GetNextBatch \/ PrepareDone \/ FetchDone \/ AdmitDone
             \/ AllocDone \/ ForwardPrompt \/ ForwardBlock \/ ProcessDone
             \/ OnIdle
    BY <2>5, Zenon
       DEF GetNextBatch, PrepareDone, FetchDone, AdmitDone, AllocDone,
           ForwardPrompt, ForwardBlock, ProcessDone, OnIdle, Raise
  <2>6. ASSUME NEW r \in Req,
               \/ PrepareStagingReq(r) \/ AdmitPrefill(r) \/ AdmitDecode(r)
               \/ AllocForExtend(r)
        PROVE  NoProtocolError'
    BY <2>6, Zenon
       DEF PrepareStagingReq, AdmitPrefill, AdmitDecode, AllocForExtend, Raise
  <2> QED BY <2>1, <2>2, <2>3, <2>4, <2>5, <2>6, Zenon DEF Next, Loop
<1> QED BY <1>1, <1>2, InitInv, NextInv, PTL DEF Spec

-----------------------------------------------------------------------------
\* A step of allocation or of partial acceptance leaves the slots of the
\* positions that stay committed in place.
LEMMA StepStable ==
  ASSUME Inv, OwnershipInv, [Next]_vars,
         NEW r \in Req, NEW p \in Committed(r), p \in Committed(r)'
  PROVE  SlotAt(r, p)' = SlotAt(r, p)
<1>1. Inv'
  BY NextInv, Zenon
<1>2. CASE UNCHANGED <<kv, pools>>
  BY <1>2, Zenon DEF SlotAt, kv, pools
<1>3. ASSUME NEW v \in Req, NEW row \in Rows, NEW n \in Nat,
             Allocates(v, row, n)
      PROVE  SlotAt(r, p)' = SlotAt(r, p)
  <2>1. PICK k \in Nat :
          /\ \A q \in Req \ {v} : \A t \in Committed(q) :
               SlotAt(q, t)' = SlotAt(q, t)
          /\ Committed(v) = 0..(k - 1)
          /\ \A t \in 0..(k - 1) : SlotAt(v, t)' = SlotAt(v, t)
    BY <1>1, <1>3, AllocSlots, Zenon
  <2> QED BY <2>1, Zenon
<1>4. ASSUME NEW v \in Req, NEW m \in Nat, HasRow(v),
             m <= kv_committed_len[v], kv_committed_len[v] <= RowWidth,
             Truncates(v, m) \/ Releases(v, m)
      PROVE  SlotAt(r, p)' = SlotAt(r, p)
  BY <1>4, FreesGiveBack, Zenon DEF GivesBack
<1> QED BY <1>2, <1>3, <1>4, PoolSteps, Zenon

\* No step of the scheduler moves or overwrites KV that stays committed.
THEOREM KvStable == Spec => CommittedKvStable
<1>1. Inv /\ OwnershipInv /\ [Next]_vars =>
        [\A r \in Req : \A p \in Committed(r) :
           HasRow(r)' /\ p < kv_committed_len'[r] =>
             SlotAt(r, p)' = SlotAt(r, p)]_vars
  <2> SUFFICES ASSUME Inv, OwnershipInv, [Next]_vars,
                      NEW r \in Req, NEW p \in Committed(r),
                      HasRow(r)', p < kv_committed_len'[r]
               PROVE  SlotAt(r, p)' = SlotAt(r, p)
    BY Zenon
  <2>1. kv_committed_len[r] \in Nat /\ kv_committed_len'[r] \in Nat
    BY NextInv, Zenon DEF Inv, TypeOK
  <2>2. p \in Committed(r)'
    BY <2>1 DEF Committed
  <2> QED BY <2>2, StepStable, Zenon
<1> QED
  BY <1>1, InitInv, NextInv, InitOwnership, NextOwnership, PTL
     DEF Spec, CommittedKvStable

-----------------------------------------------------------------------------
(* The refinement of KvStore. *)

\* The abstract table of a request is its committed positions in order.
TableShape ==
    \A r \in Req :
      /\ Table[r] \in Seq(AnySlot)
      /\ Committed(r) = 0..(Len(Table[r]) - 1)
      /\ \A i \in 1..Len(Table[r]) : Table[r][i] = SlotAt(r, i - 1)

\* Table lists the slots of the committed positions.
LEMMA TableShapes == Inv => TableShape
<1> SUFFICES ASSUME Inv, NEW r \in Req
             PROVE  /\ Table[r] \in Seq(AnySlot)
                    /\ Committed(r) = 0..(Len(Table[r]) - 1)
                    /\ \A i \in 1..Len(Table[r]) :
                         Table[r][i] = SlotAt(r, i - 1)
  BY Zenon DEF TableShape
<1>1. CASE ~HasRow(r)
  <2>1. Table[r] = <<>>
    BY <1>1, Zenon DEF Table
  <2> QED BY <1>1, <2>1 DEF Committed
<1>2. CASE HasRow(r)
  <2> DEFINE k == kv_committed_len[r]
  <2>1. TypeOK /\ k \in Nat /\ k <= RowWidth /\ req_pool_idx[r] \in Rows
    <3>1. TypeOK /\ k <= RowWidth
      BY <1>2, Zenon DEF Inv, LifecycleInv, QueuesInv
    <3> QED BY <1>2, <3>1, Zenon DEF TypeOK, HasRow
  <2>2. Table[r] = RowSlice(r, 0, k)
    BY <1>2, Zenon DEF Table
  <2>3. /\ k - 0 = k /\ \A i \in 1..k : 0 + i - 1 = i - 1
        /\ 0 \in Nat /\ 0 <= k
    BY <2>1
  <2>4. /\ RowSlice(r, 0, k) \in Seq(AnySlot) /\ Len(RowSlice(r, 0, k)) = k - 0
        /\ \A i \in 1..(k - 0) : RowSlice(r, 0, k)[i] = SlotAt(r, 0 + i - 1)
    BY <1>2, <2>1, <2>3, RowSliceType, Zenon
  <2>5. Committed(r) = 0..(k - 1)
    BY <1>2, Zenon DEF Committed
  <2> HIDE DEF k
  <2> QED BY <2>2, <2>3, <2>4, <2>5, Zenon
<1> QED BY <1>1, <1>2, Zenon

\* Intervals that start at 0 are equal only if they end at the same place.
LEMMA IntervalEnd ==
  ASSUME NEW a \in Nat, NEW b \in Nat, 0..(a - 1) = 0..(b - 1)
  PROVE  a = b
<1>1. CASE a < b
  <2>1. a \in 0..(b - 1) /\ a \notin 0..(a - 1)
    BY <1>1
  <2> QED BY <2>1, Zenon
<1>2. CASE b < a
  <2>1. b \in 0..(a - 1) /\ b \notin 0..(b - 1)
    BY <1>2
  <2> QED BY <2>1, Zenon
<1> QED BY <1>1, <1>2

\* A request whose committed positions and slots stay keeps its table.
LEMMA TableKept ==
  ASSUME TableShape, TableShape', NEW q \in Req,
         Committed(q)' = Committed(q),
         \A p \in Committed(q) : SlotAt(q, p)' = SlotAt(q, p)
  PROVE  (Table')[q] = Table[q]
<1> DEFINE a == Table[q]
           b == (Table')[q]
<1>1. /\ a \in Seq(AnySlot) /\ Committed(q) = 0..(Len(a) - 1)
      /\ \A i \in 1..Len(a) : a[i] = SlotAt(q, i - 1)
  BY Zenon DEF TableShape
<1>2. /\ b \in Seq(AnySlot) /\ Committed(q)' = 0..(Len(b) - 1)
      /\ \A i \in 1..Len(b) : b[i] = SlotAt(q, i - 1)'
  BY Zenon DEF TableShape
<1> HIDE DEF a, b
<1>3. Len(a) \in Nat /\ Len(b) \in Nat
  BY <1>1, <1>2
<1>4. Len(a) = Len(b)
  BY <1>1, <1>2, <1>3, IntervalEnd, Zenon
<1>5. \A i \in 1..Len(a) : a[i] = b[i]
  BY <1>1, <1>2, <1>3, <1>4
<1>6. a = b
  BY <1>1, <1>2, <1>4, <1>5, SameSeq, Zenon
<1> QED BY <1>6, Zenon DEF a, b

\* alloc_for_extend is an Extend of the abstract store.
LEMMA AllocExtends ==
  ASSUME NEW r \in Req, NEW row \in Rows, NEW n \in Nat, Inv, Inv',
         OwnershipInv, TableShape, TableShape', Allocates(r, row, n)
  PROVE  Store!Extend(r)
<1> DEFINE old == Table[r]
           new == (Table')[r]
<1>1. PICK k \in Nat :
        /\ n <= Len(free_pages) /\ Len(free_pages') = Len(free_pages) - n
        /\ \A i \in 1..Len(free_pages') : free_pages'[i] = free_pages[n + i]
        /\ \A q \in Req \ {r} :
             /\ Committed(q)' = Committed(q)
             /\ \A p \in Committed(q) : SlotAt(q, p)' = SlotAt(q, p)
        /\ Committed(r) = 0..(k - 1)
        /\ Committed(r)' = 0..(k + n - 1)
        /\ \A p \in 0..(k - 1) : SlotAt(r, p)' = SlotAt(r, p)
        /\ \A p \in k..(k + n - 1) : SlotAt(r, p)' = free_pages[p - k + 1]
  BY AllocSlots, Zenon
<1>2. /\ old \in Seq(AnySlot) /\ Committed(r) = 0..(Len(old) - 1)
      /\ \A i \in 1..Len(old) : old[i] = SlotAt(r, i - 1)
  BY Zenon DEF TableShape
<1>3. /\ new \in Seq(AnySlot) /\ Committed(r)' = 0..(Len(new) - 1)
      /\ \A i \in 1..Len(new) : new[i] = SlotAt(r, i - 1)'
  BY Zenon DEF TableShape
<1>4. Len(free_pages) \in Nat
  <2>1. free_pages \in Seq(AnySlot)
    BY Zenon DEF Inv, TypeOK
  <2> QED BY <2>1
<1> HIDE DEF old, new
<1>5. Len(old) = k /\ Len(new) = k + n
  <2>1. Len(old) \in Nat /\ Len(new) \in Nat /\ k + n \in Nat
    BY <1>2, <1>3
  <2> QED BY <1>1, <1>2, <1>3, <2>1, IntervalEnd
<1>6. ASSUME NEW i \in 1..k PROVE new[i] = old[i]
  <2>1. i \in 1..Len(old) /\ i \in 1..Len(new) /\ i - 1 \in 0..(k - 1)
    BY <1>5
  <2> QED BY <1>1, <1>2, <1>3, <2>1, Zenon
<1>7. \A i \in (k + 1)..(k + n) :
        i - k \in 1..Len(free_pages) /\ new[i] = free_pages[i - k]
  <2> SUFFICES ASSUME NEW i \in (k + 1)..(k + n)
               PROVE  i - k \in 1..Len(free_pages)
                        /\ new[i] = free_pages[i - k]
    BY Zenon
  <2>1. i \in 1..(k + n) /\ i - 1 \in k..(k + n - 1) /\ (i - 1) - k + 1 = i - k
    OBVIOUS
  <2>2. n <= Len(free_pages)
    BY <1>1, Zenon
  <2>3. i - k \in 1..Len(free_pages)
    BY <1>4, <2>2
  <2>4. new[i] = SlotAt(r, i - 1)'
    BY <1>3, <1>5, <2>1, Zenon
  <2>5. SlotAt(r, i - 1)' = free_pages[(i - 1) - k + 1]
    BY <1>1, <2>1, Zenon
  <2> QED BY <2>1, <2>3, <2>4, <2>5, Zenon
<1>8. \A i \in (k + 1)..(k + n) : new[i] \in FreeSlots
  BY <1>7, Zenon DEF FreeSlots
<1>9. \A i, j \in (k + 1)..(k + n) : new[i] = new[j] => i = j
  <2> SUFFICES ASSUME NEW i \in (k + 1)..(k + n), NEW j \in (k + 1)..(k + n),
                      new[i] = new[j]
               PROVE  i = j
    BY Zenon
  <2>1. i - k = j - k
    BY <1>7, Zenon DEF OwnershipInv, NoDoubleFree
  <2> QED BY <2>1
<1>10. FreeSlots' = FreeSlots \ {new[i] : i \in (k + 1)..(k + n)}
  <2>1. ASSUME NEW s \in FreeSlots'
        PROVE  s \in FreeSlots /\ \A i \in (k + 1)..(k + n) : new[i] # s
    <3>1. PICK j \in 1..Len(free_pages') : s = free_pages'[j]
      BY <2>1, Zenon DEF FreeSlots
    <3>2. n + j \in 1..Len(free_pages) /\ s = free_pages[n + j]
      BY <1>1, <1>4, <3>1
    <3>3. ASSUME NEW i \in (k + 1)..(k + n), new[i] = s PROVE FALSE
      <4>1. i - k = n + j
        BY <1>7, <3>2, <3>3, Zenon DEF OwnershipInv, NoDoubleFree
      <4> QED BY <4>1
    <3> QED BY <3>2, <3>3, Zenon DEF FreeSlots
  <2>2. ASSUME NEW s \in FreeSlots, \A i \in (k + 1)..(k + n) : new[i] # s
        PROVE  s \in FreeSlots'
    <3>1. PICK j \in 1..Len(free_pages) : s = free_pages[j]
      BY Zenon DEF FreeSlots
    <3>2. CASE j <= n
      <4>1. k + j \in (k + 1)..(k + n) /\ (k + j) - k = j
        BY <3>2
      <4> QED BY <1>7, <2>2, <3>1, <4>1, Zenon
    <3>3. CASE j > n
      <4>1. j - n \in 1..Len(free_pages') /\ n + (j - n) = j
        BY <1>1, <1>4, <3>3
      <4>2. free_pages'[j - n] = s
        BY <1>1, <3>1, <4>1, Zenon
      <4> QED BY <4>1, <4>2, Zenon DEF FreeSlots
    <3> QED BY <3>2, <3>3
  <2> QED BY <2>1, <2>2, Zenon
<1>11. \A q \in Req \ {r} : (Table')[q] = Table[q]
  BY <1>1, TableKept, Zenon
<1>12. k <= k + n
  OBVIOUS
<1> QED
  BY <1>5, <1>6, <1>8, <1>9, <1>10, <1>11, <1>12, ZenonT(30)
     DEF Store!Extend, Store!OthersKept, old, new

\* Partial acceptance and release are a Shrink of the abstract store.
LEMMA GivesBackShrinks ==
  ASSUME NEW r \in Req, NEW c \in Nat, NEW pos \in [1..c -> Nat],
         Len(free_pages) \in Nat, TableShape, TableShape', GivesBack(r, c, pos)
  PROVE  Store!Shrink(r)
<1> DEFINE old == Table[r]
           new == (Table')[r]
<1>1. /\ old \in Seq(AnySlot) /\ Committed(r) = 0..(Len(old) - 1)
      /\ \A i \in 1..Len(old) : old[i] = SlotAt(r, i - 1)
  BY Zenon DEF TableShape
<1>2. /\ new \in Seq(AnySlot) /\ Committed(r)' = 0..(Len(new) - 1)
      /\ \A i \in 1..Len(new) : new[i] = SlotAt(r, i - 1)'
  BY Zenon DEF TableShape
<1> HIDE DEF old, new
<1>3. Len(old) \in Nat /\ Len(new) \in Nat
  BY <1>1, <1>2
<1>4. Committed(r)' \subseteq Committed(r)
  BY Zenon DEF GivesBack
<1>5. Len(new) <= Len(old)
  <2> SUFFICES ASSUME Len(new) > Len(old) PROVE FALSE
    BY <1>3
  <2>1. Len(old) \in Committed(r)' /\ Len(old) \notin Committed(r)
    BY <1>1, <1>2, <1>3
  <2> QED BY <1>4, <2>1, Zenon
<1>6. \A i \in 1..Len(new) : new[i] = old[i]
  <2> SUFFICES ASSUME NEW i \in 1..Len(new) PROVE new[i] = old[i]
    BY Zenon
  <2>1. i - 1 \in Committed(r)' /\ i \in 1..Len(old)
    BY <1>2, <1>3, <1>5
  <2>2. SlotAt(r, i - 1)' = SlotAt(r, i - 1)
    BY <2>1, Zenon DEF GivesBack
  <2> QED BY <1>1, <1>2, <2>1, <2>2, Zenon
<1>7. FreeSlots' = FreeSlots \cup {old[i] : i \in (Len(new) + 1)..Len(old)}
  <2>0. /\ Len(free_pages') = Len(free_pages) + c
        /\ \A i \in 1..Len(free_pages) : free_pages'[i] = free_pages[i]
        /\ \A j \in 1..c : free_pages'[Len(free_pages) + j] = SlotAt(r, pos[j])
        /\ \A j \in 1..c : pos[j] \in Committed(r)
             /\ pos[j] \notin Committed(r)'
        /\ \A p \in Committed(r) :
             p \in Committed(r)' \/ \E j \in 1..c : pos[j] = p
    BY Zenon DEF GivesBack
  <2>1. ASSUME NEW s \in FreeSlots', s \notin FreeSlots
        PROVE  \E i \in (Len(new) + 1)..Len(old) : s = old[i]
    <3>1. PICK a \in 1..Len(free_pages') : s = free_pages'[a]
      BY Zenon DEF FreeSlots
    <3>2. ~(a <= Len(free_pages))
      BY <2>0, <2>1, <3>1 DEF FreeSlots
    <3>3. PICK j \in 1..c : a = Len(free_pages) + j
      <4>1. a - Len(free_pages) \in 1..c
              /\ a = Len(free_pages) + (a - Len(free_pages))
        BY <2>0, <3>2
      <4> QED BY <4>1, Zenon
    <3>4. s = SlotAt(r, pos[j]) /\ pos[j] \in 0..(Len(old) - 1)
          /\ pos[j] \notin 0..(Len(new) - 1)
      BY <1>1, <1>2, <2>0, <3>1, <3>3, Zenon
    <3>5. pos[j] + 1 \in (Len(new) + 1)..Len(old) /\ (pos[j] + 1) - 1 = pos[j]
          /\ pos[j] + 1 \in 1..Len(old)
      BY <1>3, <3>4
    <3>6. old[pos[j] + 1] = s
      BY <1>1, <3>4, <3>5, Zenon
    <3> QED BY <3>5, <3>6, Zenon
  <2>2. ASSUME NEW i \in (Len(new) + 1)..Len(old)
        PROVE  old[i] \in FreeSlots'
    <3>1. i \in 1..Len(old) /\ i - 1 \in Committed(r)
            /\ i - 1 \notin Committed(r)'
      BY <1>1, <1>2, <1>3
    <3>2. PICK j \in 1..c : pos[j] = i - 1
      BY <2>0, <3>1, Zenon
    <3>3. Len(free_pages) + j \in 1..Len(free_pages')
      BY <2>0
    <3>4. old[i] = free_pages'[Len(free_pages) + j]
      BY <1>1, <2>0, <3>1, <3>2
    <3> QED BY <3>3, <3>4, Zenon DEF FreeSlots
  <2>3. ASSUME NEW s \in FreeSlots PROVE s \in FreeSlots'
    <3>1. PICK a \in 1..Len(free_pages) : s = free_pages[a]
      BY Zenon DEF FreeSlots
    <3>2. a \in 1..Len(free_pages') /\ free_pages'[a] = s
      BY <2>0, <3>1
    <3> QED BY <3>2, Zenon DEF FreeSlots
  <2> QED BY <2>1, <2>2, <2>3, Zenon
<1>8. \A q \in Req \ {r} : (Table')[q] = Table[q]
  <2> SUFFICES ASSUME NEW q \in Req \ {r} PROVE (Table')[q] = Table[q]
    BY Zenon
  <2>1. /\ Committed(q)' = Committed(q)
        /\ \A p \in Committed(q) : SlotAt(q, p)' = SlotAt(q, p)
    BY Zenon DEF GivesBack
  <2> QED BY <2>1, TableKept, Zenon
<1> QED
  BY <1>5, <1>6, <1>7, <1>8, Zenon
     DEF Store!Shrink, Store!OthersKept, old, new

\* The pools as the scheduler uses them implement the abstract KV store.
THEOREM KvRefinement == Spec => RefinesKvStore
<1>1. Init => Store!Init
  <2> SUFFICES ASSUME Init PROVE Store!Init
    BY Zenon
  <2>1. Table = [r \in Req |-> <<>>]
    BY Zenon DEF Init, Table, HasRow
  <2>2. Len(free_pages) = PoolSize /\ \A i \in 1..PoolSize : free_pages[i] = i
    <3>1. free_pages \in [1..PoolSize -> Nat]
      BY PoolAssumption DEF Init
    <3> QED BY <3>1, PoolAssumption, SeqOfFunction, Zenon DEF Init
  <2>3. FreeSlots = Slots
    BY <2>2, Zenon DEF FreeSlots, Slots
  <2> QED BY <2>1, <2>3, Zenon DEF Store!Init
<1>2. Inv /\ OwnershipInv /\ [Next]_vars /\ TableShape /\ TableShape'
        => [Store!Next]_(Store!vars)
  <2> SUFFICES ASSUME Inv, OwnershipInv, [Next]_vars, TableShape, TableShape'
               PROVE  Store!Next \/ UNCHANGED Store!vars
    BY Zenon
  <2>1. Inv' /\ Len(free_pages) \in Nat
    <3>1. free_pages \in Seq(AnySlot)
      BY Zenon DEF Inv, TypeOK
    <3> QED BY <3>1, NextInv
  <2>2. CASE UNCHANGED <<kv, pools>>
    <3>1. Table' = Table /\ FreeSlots' = FreeSlots
      BY <2>2, Zenon DEF Table, FreeSlots, RowSlice, HasRow, kv, pools
    <3> QED BY <3>1, Zenon DEF Store!vars
  <2>3. ASSUME NEW r \in Req, NEW row \in Rows, NEW n \in Nat,
               Allocates(r, row, n)
        PROVE  Store!Extend(r)
    BY <2>1, <2>3, AllocExtends, Zenon
  <2>4. ASSUME NEW r \in Req, NEW m \in Nat, HasRow(r),
               m <= kv_committed_len[r], kv_committed_len[r] <= RowWidth,
               Truncates(r, m) \/ Releases(r, m)
        PROVE  Store!Shrink(r)
    BY <2>1, <2>4, FreesGiveBack, GivesBackShrinks, Zenon
  <2> QED BY <2>2, <2>3, <2>4, PoolSteps, Zenon DEF Store!Next
<1> QED
  BY <1>1, <1>2, TableShapes, InitInv, NextInv, InitOwnership, NextOwnership,
     PTL
     DEF Spec, RefinesKvStore, Store!Spec
=============================================================================
