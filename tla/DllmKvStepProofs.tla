-------------------------- MODULE DllmKvStepProofs --------------------------
(***************************************************************************)
(* Allocations and frees keep the ownership of rows and KV slots.  An      *)
(* allocation takes a prefix of free_pages, and a row of free_slots for a  *)
(* request without one, and appends the slots to the positions of one      *)
(* request.  A free (rejected tokens, a block without tokens, a finished   *)
(* request) gives back some committed positions of one request, each once, *)
(* and keeps the others (GivesBack).                                       *)
(***************************************************************************)
EXTENDS DllmSchedulerProofs

(* Allocations *)

\* The row of an allocation is the request's own or a free one.
LEMMA AllocRows ==
  ASSUME NEW r \in Req, NEW row \in Rows, NEW n \in Nat, Inv, Inv',
         OwnershipInv, Allocates(r, row, n)
  PROVE  /\ RowsOwnedOnce'
         /\ \A q \in Req \ {r} : HasRow(q) => req_pool_idx[q] # row
<1>0. /\ free_slots \in Seq(Rows)
      /\ req_pool_idx \in [Req -> Rows \cup {NoRow}] /\ row # NoRow
  <2>1. row # NoRow
    BY PoolAssumption DEF Rows, NoRow
  <2> QED BY <2>1, Zenon DEF Inv, TypeOK
<1>1. CASE HasRow(r)
  BY <1>0, <1>1, Zenon
     DEF Allocates, OwnershipInv, RowsOwnedOnce, Inv, LifecycleInv, QueuesInv,
         HasRow
<1>2. CASE ~HasRow(r)
  <2>1. /\ Len(free_slots) \in Nat \ {0} /\ row = free_slots[1]
        /\ Len(free_slots') = Len(free_slots) - 1
        /\ \A i \in 1..Len(free_slots') : free_slots'[i] = free_slots[i + 1]
    <3>1. /\ free_slots # <<>> /\ row = Head(free_slots)
          /\ free_slots' = Tail(free_slots)
      BY <1>2, Zenon DEF Allocates
    <3>2. Len(free_slots) \in Nat \ {0}
      BY <1>0, <3>1, SeqLen
    <3> QED BY <1>0, <3>1, <3>2, TailSeq, Zenon
  <2>2. \A i \in 1..Len(free_slots') : free_slots'[i] # row
    BY <2>1 DEF OwnershipInv, RowsOwnedOnce
  <2>3. \A q \in Req \ {r} : HasRow(q) => req_pool_idx[q] # row
    BY <2>1 DEF OwnershipInv, RowsOwnedOnce
  <2>4. \A i, j \in 1..Len(free_slots') : free_slots'[i] = free_slots'[j] =>
          i = j
    BY <2>1 DEF OwnershipInv, RowsOwnedOnce
  <2>5. \A q \in Req : HasRow(q)' => q \in active' /\ ~Finished(q)'
    BY Zenon DEF Inv, LifecycleInv, QueuesInv
  <2>6. req_pool_idx'[r] = row
          /\ \A q \in Req \ {r} : req_pool_idx'[q] = req_pool_idx[q]
    BY <1>0, Zenon DEF Allocates
  <2>7. \A q \in Req \ {r} : HasRow(q) =>
          \A i \in 1..Len(free_slots') : free_slots'[i] # req_pool_idx[q]
    BY <2>1 DEF OwnershipInv, RowsOwnedOnce
  <2> QED
    BY <1>0, <2>2, <2>3, <2>4, <2>5, <2>6, <2>7
       DEF OwnershipInv, RowsOwnedOnce, HasRow
<1> QED BY <1>1, <1>2, Zenon

\* An allocation moves the first n free slots to the end of one row, and
\* nothing else.
LEMMA AllocSlots ==
  ASSUME NEW r \in Req, NEW row \in Rows, NEW n \in Nat, Inv, Inv',
         OwnershipInv, Allocates(r, row, n)
  PROVE  \E k \in Nat :
         /\ n <= Len(free_pages) /\ Len(free_pages') = Len(free_pages) - n
         /\ \A i \in 1..Len(free_pages') : free_pages'[i] = free_pages[n + i]
         /\ \A q \in Req \ {r} : /\ Committed(q)' = Committed(q)
                                 /\ \A p \in Committed(q) :
                                      SlotAt(q, p)' = SlotAt(q, p)
         /\ Committed(r) = 0..(k - 1)
         /\ Committed(r)' = 0..(k + n - 1)
         /\ \A p \in 0..(k - 1) : SlotAt(r, p)' = SlotAt(r, p)
         /\ \A p \in k..(k + n - 1) : SlotAt(r, p)' = free_pages[p - k + 1]
<1>0. /\ free_pages \in Seq(AnySlot) /\ row # NoRow
      /\ req_pool_idx \in [Req -> Rows \cup {NoRow}]
      /\ kv_committed_len \in [Req -> Nat] /\ prefix_len[r] \in Nat
      /\ req_to_token \in [Rows -> [Positions -> AnySlot]]
  <2>1. row # NoRow
    BY PoolAssumption DEF Rows, NoRow
  <2> QED BY <2>1, Zenon DEF Inv, TypeOK
<1>1. n <= Len(free_pages) /\ Len(free_pages') = Len(free_pages) - n
      /\ \A i \in 1..Len(free_pages') : free_pages'[i] = free_pages[n + i]
  <2>1. n <= Len(free_pages)
          /\ free_pages' = SubSeq(free_pages, n + 1, Len(free_pages))
    BY Zenon DEF Allocates
  <2> QED BY <1>0, <2>1, SubSeqTail
<1>2. ASSUME NEW q \in Req \ {r}
      PROVE  /\ Committed(q)' = Committed(q)
             /\ \A p \in Committed(q) : SlotAt(q, p)' = SlotAt(q, p)
  <2>1. req_pool_idx'[q] = req_pool_idx[q]
          /\ kv_committed_len'[q] = kv_committed_len[q]
    BY <1>0, Zenon DEF Allocates
  <2>2. HasRow(q) => req_pool_idx[q] # row /\ req_pool_idx[q] \in Rows
    BY <1>0, AllocRows, Zenon DEF HasRow
  <2>3. HasRow(q) =>
          req_to_token'[req_pool_idx[q]] = req_to_token[req_pool_idx[q]]
    BY <1>0, <2>2, Zenon DEF Allocates
  <2> QED BY <2>1, <2>2, <2>3, Zenon DEF Committed, SlotAt, HasRow
<1> DEFINE k == prefix_len[r]
<1>3. /\ Committed(r) = 0..(k - 1)
      /\ Committed(r)' = 0..(k + n - 1)
  <2>1. req_pool_idx'[r] = row /\ kv_committed_len'[r] = k + n
    BY <1>0, Zenon DEF Allocates
  <2>2. HasRow(r)'
    BY <1>0, <2>1, Zenon DEF HasRow
  <2>3. IF HasRow(r) THEN kv_committed_len[r] = k ELSE k = 0
    BY Zenon DEF Allocates
  <2>4. Committed(r)' = 0..(k + n - 1)
    <3>1. Committed(r)' = 0..(kv_committed_len'[r] - 1)
      BY <2>2, Zenon DEF Committed, HasRow
    <3>2. kv_committed_len'[r] - 1 = (k + n) - 1
      BY <2>1, Zenon
    <3>3. (k + n) - 1 = k + n - 1
      <4>1. k \in Nat
        BY <1>0, Zenon
      <4> HIDE DEF k
      <4> QED BY <4>1
    <3> QED BY <3>1, <3>2, <3>3, Zenon
  <2>5. Committed(r) = 0..(k - 1)
    BY <1>0, <2>3 DEF Committed
  <2> QED BY <2>4, <2>5, Zenon
<1>4. ASSUME NEW p \in 0..(k + n - 1)
      PROVE  SlotAt(r, p)' = IF k <= p
               THEN free_pages[p - k + 1] ELSE SlotAt(r, p)
  <2>1. p \in Positions /\ p < fill_len[r]
    <3>1. fill_len[r] = k + n /\ fill_len[r] <= RowWidth
      BY Zenon DEF Allocates
    <3> QED BY <1>0, <3>1, PoolAssumption DEF Positions
  <2>2. req_pool_idx'[r] = row
    BY <1>0, Zenon DEF Allocates
  <2>3. req_to_token'[row][p] = IF k <= p
          THEN free_pages[p - k + 1] ELSE req_to_token[row][p]
    BY <1>0, <2>1, Zenon DEF Allocates
  <2>4. HasRow(r) => row = req_pool_idx[r]
    BY Zenon DEF Allocates
  <2>5. HasRow(r) \/ k <= p
    BY <1>0 DEF Allocates
  <2> QED BY <2>2, <2>3, <2>4, <2>5, Zenon DEF SlotAt
<1>5. /\ \A p \in 0..(k - 1) : SlotAt(r, p)' = SlotAt(r, p)
      /\ \A p \in k..(k + n - 1) : SlotAt(r, p)' = free_pages[p - k + 1]
  BY <1>0, <1>4
<1>6. k \in Nat
  BY <1>0, Zenon
<1> HIDE DEF k
<1> QED BY <1>1, <1>2, <1>3, <1>5, <1>6, Zenon

\* An allocation keeps the ownership.
LEMMA AllocOwnership ==
  ASSUME NEW r \in Req, NEW row \in Rows, NEW n \in Nat, Inv, Inv',
         OwnershipInv, Allocates(r, row, n)
  PROVE  OwnershipInv'
<1>0. /\ Len(free_pages) \in Nat
      /\ \A i \in 1..Len(free_pages) : free_pages[i] \in AnySlot
      /\ Len(free_pages') \in Nat
  <2>1. free_pages \in Seq(AnySlot) /\ free_pages' \in Seq(AnySlot)
    BY Zenon DEF Inv, TypeOK
  <2> QED BY <2>1
<1>1. PICK k \in Nat :
         /\ n <= Len(free_pages) /\ Len(free_pages') = Len(free_pages) - n
         /\ \A i \in 1..Len(free_pages') : free_pages'[i] = free_pages[n + i]
         /\ \A q \in Req \ {r} : /\ Committed(q)' = Committed(q)
                                 /\ \A p \in Committed(q) :
                                      SlotAt(q, p)' = SlotAt(q, p)
         /\ Committed(r) = 0..(k - 1)
         /\ Committed(r)' = 0..(k + n - 1)
         /\ \A p \in 0..(k - 1) : SlotAt(r, p)' = SlotAt(r, p)
         /\ \A p \in k..(k + n - 1) : SlotAt(r, p)' = free_pages[p - k + 1]
  BY AllocSlots, Zenon
<1>2. NoDoubleFree'
  <2> SUFFICES ASSUME NEW i \in 1..Len(free_pages'),
                      NEW j \in 1..Len(free_pages'),
                      free_pages'[i] = free_pages'[j]
               PROVE  i = j
    BY Zenon DEF NoDoubleFree
  <2>1. n + i \in 1..Len(free_pages) /\ n + j \in 1..Len(free_pages)
    BY <1>0, <1>1
  <2>2. n + i = n + j
    BY <1>1, <2>1, ZenonT(30) DEF OwnershipInv, NoDoubleFree
  <2> QED BY <2>2
\* A committed position kept its slot, or has one of the first n free slots.
<1>3. ASSUME NEW q \in Req, NEW p \in Committed(q)'
      PROVE  \/ p \in Committed(q) /\ SlotAt(q, p)' = SlotAt(q, p)
             \/ /\ q = r /\ p \in k..(k + n - 1) /\ p - k + 1 \in 1..n
                /\ SlotAt(q, p)' = free_pages[p - k + 1]
  <2>1. CASE q # r
    BY <1>1, <2>1, Zenon
  <2>2. CASE q = r /\ p < k
    BY <1>1, <2>2
  <2>3. CASE q = r /\ k <= p
    BY <1>1, <2>3, SMTT(30)
  <2> QED BY <1>1, <2>1, <2>2, <2>3
<1>4. ASSUME NEW q \in Req, NEW p \in Committed(q)'
      PROVE  \A i \in 1..Len(free_pages') : free_pages'[i] # SlotAt(q, p)'
  <2> SUFFICES ASSUME NEW i \in 1..Len(free_pages')
               PROVE  free_pages[n + i] # SlotAt(q, p)'
    BY <1>1, Zenon
  <2>1. n + i \in 1..Len(free_pages) /\ i \in Nat \ {0}
    BY <1>0, <1>1
  <2>2. CASE p \in Committed(q) /\ SlotAt(q, p)' = SlotAt(q, p)
    BY <2>1, <2>2, Zenon DEF OwnershipInv, NoSlotShared
  <2>3. CASE p - k + 1 \in 1..n /\ SlotAt(q, p)' = free_pages[p - k + 1]
    <3>1. p - k + 1 \in 1..Len(free_pages) /\ p - k + 1 # n + i
      BY <1>0, <1>1, <2>1, <2>3
    <3> QED BY <2>1, <2>3, <3>1, Zenon DEF OwnershipInv, NoDoubleFree
  <2> QED BY <1>3, <2>2, <2>3, Zenon
<1>5. ASSUME NEW q \in Req, NEW p \in Committed(q)', NEW v \in Req,
             NEW t \in Committed(v)',
             SlotAt(q, p)' = SlotAt(v, t)'
      PROVE  q = v /\ p = t
  <2>1. CASE /\ p \in Committed(q) /\ SlotAt(q, p)' = SlotAt(q, p)
             /\ t \in Committed(v) /\ SlotAt(v, t)' = SlotAt(v, t)
    BY <1>5, <2>1, Zenon DEF OwnershipInv, NoSlotShared
  <2>2. CASE /\ q = r /\ p \in k..(k + n - 1) /\ p - k + 1 \in 1..n
             /\ SlotAt(q, p)' = free_pages[p - k + 1]
             /\ v = r /\ t \in k..(k + n - 1) /\ t - k + 1 \in 1..n
             /\ SlotAt(v, t)' = free_pages[t - k + 1]
    <3>1. p - k + 1 \in 1..Len(free_pages) /\ t - k + 1 \in 1..Len(free_pages)
      BY <1>0, <1>1, <2>2
    <3>2. p - k + 1 = t - k + 1
      BY <1>5, <2>2, <3>1, Zenon DEF OwnershipInv, NoDoubleFree
    <3> QED BY <2>2, <3>2
  <2>3. ASSUME NEW a \in Req, NEW b \in Committed(a), NEW i \in 1..n
        PROVE  SlotAt(a, b) # free_pages[i]
    <3>1. i \in 1..Len(free_pages)
      BY <1>0, <1>1
    <3> QED BY <3>1, Zenon DEF OwnershipInv, NoSlotShared
  <2> QED BY <1>3, <1>5, <2>1, <2>2, <2>3, Zenon
<1>6. NoSlotShared'
  BY <1>4, <1>5, Zenon DEF NoSlotShared
<1>7. NoSlotLost'
  <2> SUFFICES ASSUME NEW s \in Slots
               PROVE  \/ \E i \in 1..Len(free_pages') : free_pages'[i] = s
                      \/ \E q \in Req : \E p \in Committed(q)' :
                           SlotAt(q, p)' = s
    BY Zenon DEF NoSlotLost
  <2>1. CASE \E i \in 1..Len(free_pages) : free_pages[i] = s
    <3>1. PICK i \in 1..Len(free_pages) : free_pages[i] = s
      BY <2>1, Zenon
    <3>2. CASE i <= n
      <4>1. k + i - 1 \in Committed(r)' /\ k + i - 1 \in k..(k + n - 1)
            /\ (k + i - 1) - k + 1 = i
        BY <1>1, <3>2
      <4> QED BY <1>1, <3>1, <4>1, Zenon
    <3>3. CASE i > n
      <4>1. i - n \in 1..Len(free_pages') /\ n + (i - n) = i
        BY <1>0, <1>1, <3>3
      <4> QED BY <1>1, <3>1, <4>1, Zenon
    <3> QED BY <1>0, <3>2, <3>3
  <2>2. CASE \E q \in Req : \E p \in Committed(q) : SlotAt(q, p) = s
    <3>1. PICK q \in Req : \E p \in Committed(q) : SlotAt(q, p) = s
      BY <2>2, Zenon
    <3>2. PICK p \in Committed(q) : SlotAt(q, p) = s
      BY <3>1, Zenon
    <3>3. p \in Committed(q)' /\ SlotAt(q, p)' = s
      BY <1>1, <3>2
    <3> QED BY <3>3, Zenon
  <2> QED BY <2>1, <2>2, Zenon DEF OwnershipInv, NoSlotLost
<1>8. PaddingReserved'
  <2>1. \A i \in 1..Len(free_pages') : free_pages'[i] # 0
    <3>1. n <= Len(free_pages) /\ Len(free_pages') = Len(free_pages) - n
      BY <1>1, Zenon
    <3>2. \A i \in 1..Len(free_pages') : n + i \in 1..Len(free_pages)
      BY <1>0, <3>1
    <3> QED BY <1>1, <3>2, Zenon DEF OwnershipInv, PaddingReserved
  <2>2. ASSUME NEW q \in Req, NEW p \in Committed(q)'
        PROVE  SlotAt(q, p)' # 0
    <3>1. CASE p - k + 1 \in 1..n /\ SlotAt(q, p)' = free_pages[p - k + 1]
      <4>1. p - k + 1 \in 1..Len(free_pages)
        BY <1>0, <1>1, <3>1
      <4> QED BY <3>1, <4>1, Zenon DEF OwnershipInv, PaddingReserved
    <3> QED BY <1>3, <3>1, Zenon DEF OwnershipInv, PaddingReserved
  <2> QED BY <2>1, <2>2, Zenon DEF PaddingReserved
<1> QED BY <1>2, <1>6, <1>7, <1>8, AllocRows, Zenon DEF OwnershipInv

-----------------------------------------------------------------------------
(* Frees *)

\* r gives back the slots of its positions pos[1], ..., pos[c], in this order,
\* and keeps the others; nothing else moves.
GivesBack(r, c, pos) ==
    /\ Len(free_pages') = Len(free_pages) + c
    /\ \A i \in 1..Len(free_pages) : free_pages'[i] = free_pages[i]
    /\ \A j \in 1..c : free_pages'[Len(free_pages) + j] = SlotAt(r, pos[j])
    /\ \A j \in 1..c : pos[j] \in Committed(r) /\ pos[j] \notin Committed(r)'
    /\ \A i, j \in 1..c : pos[i] = pos[j] => i = j
    /\ \A p \in Committed(r) : p \in Committed(r)'
         \/ \E j \in 1..c : pos[j] = p
    /\ \A q \in Req : Committed(q)' \subseteq Committed(q)
    /\ \A q \in Req \ {r} : Committed(q)' = Committed(q)
    /\ \A q \in Req : \A p \in Committed(q)' : SlotAt(q, p)' = SlotAt(q, p)

\* Giving back committed positions of one request, each once, keeps the slots
\* owned.
LEMMA GivesBackOwnership ==
  ASSUME NEW r \in Req, NEW c \in Nat, NEW pos \in [1..c -> Nat],
         Len(free_pages) \in Nat, OwnershipInv, GivesBack(r, c, pos)
  PROVE  NoDoubleFree' /\ NoSlotShared' /\ NoSlotLost' /\ PaddingReserved'
<1> USE DEF OwnershipInv, GivesBack
\* A free slot was free, or serves no position any more.
<1>1. ASSUME NEW i \in 1..Len(free_pages')
      PROVE  \/ i \in 1..Len(free_pages) /\ free_pages'[i] = free_pages[i]
             \/ \E j \in 1..c : i = Len(free_pages) + j
                  /\ free_pages'[i] = SlotAt(r, pos[j])
  <2>1. CASE i <= Len(free_pages)
    BY <2>1
  <2>2. CASE i > Len(free_pages)
    <3>1. i - Len(free_pages) \in 1..c
            /\ i = Len(free_pages) + (i - Len(free_pages))
      BY <2>2
    <3> QED BY <3>1
  <2> QED BY <2>1, <2>2
<1>2. \A j \in 1..c, i \in 1..Len(free_pages) :
        free_pages[i] # SlotAt(r, pos[j])
  BY Zenon DEF NoSlotShared
<1>3. \A i, j \in 1..c : SlotAt(r, pos[i]) = SlotAt(r, pos[j]) => i = j
  BY DEF NoSlotShared
<1>4. NoDoubleFree'
  <2> SUFFICES ASSUME NEW i \in 1..Len(free_pages'),
                      NEW j \in 1..Len(free_pages'),
                      free_pages'[i] = free_pages'[j]
               PROVE  i = j
    BY Zenon DEF NoDoubleFree
  <2>1. CASE i \in 1..Len(free_pages) /\ j \in 1..Len(free_pages)
    BY <2>1, Zenon DEF NoDoubleFree
  <2>2. CASE i \in 1..Len(free_pages) /\ j \notin 1..Len(free_pages)
    <3>1. PICK b \in 1..c : j = Len(free_pages) + b
                 /\ free_pages'[j] = SlotAt(r, pos[b])
      BY <1>1, <2>2, Zenon
    <3>2. free_pages'[i] = free_pages[i]
      BY <2>2, Zenon
    <3> QED BY <1>2, <2>2, <3>1, <3>2, Zenon
  <2>3. CASE i \notin 1..Len(free_pages) /\ j \in 1..Len(free_pages)
    <3>1. PICK a \in 1..c : i = Len(free_pages) + a
                 /\ free_pages'[i] = SlotAt(r, pos[a])
      BY <1>1, <2>3, Zenon
    <3>2. free_pages'[j] = free_pages[j]
      BY <2>3, Zenon
    <3> QED BY <1>2, <2>3, <3>1, <3>2, Zenon
  <2>4. CASE i \notin 1..Len(free_pages) /\ j \notin 1..Len(free_pages)
    <3>1. PICK a \in 1..c : i = Len(free_pages) + a
                 /\ free_pages'[i] = SlotAt(r, pos[a])
      BY <1>1, <2>4, Zenon
    <3>2. PICK b \in 1..c : j = Len(free_pages) + b
                 /\ free_pages'[j] = SlotAt(r, pos[b])
      BY <1>1, <2>4, Zenon
    <3>3. SlotAt(r, pos[a]) = SlotAt(r, pos[b])
      BY <3>1, <3>2, Zenon
    <3>4. a = b
      BY <1>3, <3>3, Zenon
    <3> QED BY <3>1, <3>2, <3>4, Zenon
  <2> QED BY <2>1, <2>2, <2>3, <2>4, Zenon
<1>5. NoSlotShared'
  <2>1. ASSUME NEW q \in Req, NEW p \in Committed(q)',
               NEW i \in 1..Len(free_pages')
        PROVE  free_pages'[i] # SlotAt(q, p)'
    <3>1. p \in Committed(q) /\ SlotAt(q, p)' = SlotAt(q, p)
      BY Zenon
    <3>2. \A j \in 1..c : SlotAt(r, pos[j]) # SlotAt(q, p)
      BY <3>1 DEF NoSlotShared
    <3>3. \A j \in 1..Len(free_pages) : free_pages[j] # SlotAt(q, p)
      BY <3>1, Zenon DEF NoSlotShared
    <3> QED BY <1>1, <3>1, <3>2, <3>3
  <2>2. ASSUME NEW q \in Req, NEW p \in Committed(q)', NEW v \in Req,
               NEW t \in Committed(v)',
               SlotAt(q, p)' = SlotAt(v, t)'
        PROVE  q = v /\ p = t
    BY <2>2 DEF NoSlotShared
  <2> QED BY <2>1, <2>2 DEF NoSlotShared
<1>6. NoSlotLost'
  <2> SUFFICES ASSUME NEW s \in Slots
               PROVE  \/ \E i \in 1..Len(free_pages') : free_pages'[i] = s
                      \/ \E q \in Req : \E p \in Committed(q)' :
                           SlotAt(q, p)' = s
    BY Zenon DEF NoSlotLost
  <2>1. CASE \E i \in 1..Len(free_pages) : free_pages[i] = s
    <3>1. PICK i \in 1..Len(free_pages) : free_pages[i] = s
      BY <2>1, Zenon
    <3>2. i \in 1..Len(free_pages')
      OBVIOUS
    <3> QED BY <3>1, <3>2, Zenon
  <2>2. CASE \E q \in Req : \E p \in Committed(q) : SlotAt(q, p) = s
    <3>1. PICK q \in Req : \E p \in Committed(q) : SlotAt(q, p) = s
      BY <2>2, Zenon
    <3>2. PICK p \in Committed(q) : SlotAt(q, p) = s
      BY <3>1, Zenon
    <3>3. CASE p \in Committed(q)'
      BY <3>2, <3>3, Zenon
    <3>4. CASE p \notin Committed(q)'
      <4>1. PICK j \in 1..c : q = r /\ pos[j] = p
        BY <3>4
      <4>2. Len(free_pages) + j \in 1..Len(free_pages')
        OBVIOUS
      <4> QED BY <3>2, <4>1, <4>2, Zenon
    <3> QED BY <3>3, <3>4, Zenon
  <2> QED BY <2>1, <2>2, Zenon DEF NoSlotLost
<1>7. PaddingReserved'
  <2>1. ASSUME NEW i \in 1..Len(free_pages') PROVE free_pages'[i] # 0
    BY <1>1 DEF PaddingReserved
  <2>2. ASSUME NEW q \in Req, NEW p \in Committed(q)' PROVE SlotAt(q, p)' # 0
    <3>1. p \in Committed(q) /\ SlotAt(q, p)' = SlotAt(q, p)
      BY Zenon
    <3> QED BY <3>1 DEF PaddingReserved
  <2> QED BY <2>1, <2>2, Zenon DEF PaddingReserved
<1> QED BY <1>4, <1>5, <1>6, <1>7, Zenon

\* Partial acceptance and release give back what they should.
LEMMA FreesGiveBack ==
  ASSUME NEW r \in Req, NEW m \in Nat, Inv, HasRow(r),
         m <= kv_committed_len[r], kv_committed_len[r] <= RowWidth,
         Truncates(r, m) \/ Releases(r, m)
  PROVE  \E c \in Nat : \E pos \in [1..c -> Nat] : GivesBack(r, c, pos)
<1> DEFINE k == kv_committed_len[r]
<1>0. /\ TypeOK /\ k \in Nat /\ free_pages \in Seq(AnySlot)
           /\ Len(free_pages) \in Nat
      /\ req_pool_idx \in [Req -> Rows \cup {NoRow}]
           /\ req_pool_idx[r] \in Rows
      /\ kv_committed_len \in [Req -> Nat] /\ free_slots \in Seq(Rows)
  <2>1. TypeOK
    BY Zenon DEF Inv
  <2>2. /\ free_pages \in Seq(AnySlot) /\ free_slots \in Seq(Rows)
        /\ req_pool_idx \in [Req -> Rows \cup {NoRow}]
        /\ kv_committed_len \in [Req -> Nat]
    BY <2>1, Zenon DEF TypeOK
  <2>3. Len(free_pages) \in Nat /\ req_pool_idx[r] \in Rows
    BY <2>2 DEF HasRow
  <2> QED BY <2>1, <2>2, <2>3, Zenon
<1>1. \A q \in Req \ {r} : /\ req_pool_idx'[q] = req_pool_idx[q]
                           /\ kv_committed_len'[q] = kv_committed_len[q]
  BY <1>0, Zenon DEF Truncates, Releases
<1>2. req_to_token' = req_to_token /\ kv_committed_len'[r] = m
  BY <1>0, Zenon DEF Truncates, Releases
<1>3. \A q \in Req \ {r} : Committed(q)' = Committed(q)
  BY <1>1, Zenon DEF Committed, HasRow
<1>4. Committed(r) = 0..(k - 1)
  BY Zenon DEF Committed
<1>5. /\ RowSlice(r, m, k) \in Seq(AnySlot) /\ Len(RowSlice(r, m, k)) = k - m
      /\ \A i \in 1..(k - m) : RowSlice(r, m, k)[i] = SlotAt(r, m + i - 1)
  BY <1>0, RowSliceType, Zenon
<1>6. /\ RowSlice(r, 0, m) \in Seq(AnySlot) /\ Len(RowSlice(r, 0, m)) = m
      /\ \A i \in 1..m : RowSlice(r, 0, m)[i] = SlotAt(r, i - 1)
  <2>1. m <= RowWidth /\ m - 0 = m /\ \A i \in 1..m : 0 + i - 1 = i - 1
    BY <1>0, PoolAssumption
  <2>2. /\ RowSlice(r, 0, m) \in Seq(AnySlot) /\ Len(RowSlice(r, 0, m)) = m - 0
        /\ \A i \in 1..(m - 0) : RowSlice(r, 0, m)[i] = SlotAt(r, 0 + i - 1)
    BY <1>0, <2>1, RowSliceType
  <2> QED BY <2>1, <2>2, Zenon
<1> DEFINE F1 == free_pages \o RowSlice(r, m, k)
<1>7. /\ F1 \in Seq(AnySlot) /\ Len(F1) = Len(free_pages) + (k - m)
      /\ \A i \in 1..Len(free_pages) : F1[i] = free_pages[i]
      /\ \A j \in 1..(k - m) : F1[Len(free_pages) + j] = SlotAt(r, m + j - 1)
  <2>1. /\ F1 \in Seq(AnySlot) /\ Len(F1) = Len(free_pages) + (k - m)
        /\ \A i \in 1..(Len(free_pages) + (k - m)) :
             F1[i] = IF i <= Len(free_pages) THEN free_pages[i]
                     ELSE RowSlice(r, m, k)[i - Len(free_pages)]
    BY <1>0, <1>5, ConcatSeq
  <2> HIDE DEF F1
  <2>2. ASSUME NEW j \in 1..(k - m)
        PROVE  F1[Len(free_pages) + j] = SlotAt(r, m + j - 1)
    <3>1. /\ Len(free_pages) + j \in 1..(Len(free_pages) + (k - m))
          /\ ~(Len(free_pages) + j <= Len(free_pages))
          /\ (Len(free_pages) + j) - Len(free_pages) = j
      BY <1>0
    <3> QED BY <1>5, <2>1, <3>1, Zenon
  <2>3. \A i \in 1..Len(free_pages) : F1[i] = free_pages[i]
    <3>1. \A i \in 1..Len(free_pages) :
            i \in 1..(Len(free_pages) + (k - m)) /\ i <= Len(free_pages)
      BY <1>0
    <3> QED BY <2>1, <3>1, Zenon
  <2> QED BY <2>1, <2>2, <2>3, Zenon
<1>8. CASE Truncates(r, m)
  <2>1. PICK c \in Nat : c = k - m
    BY <1>0
  <2> DEFINE pos == [j \in 1..c |-> m + j - 1]
  <2>2. pos \in [1..c -> Nat]
    OBVIOUS
  <2>3. free_pages' = F1 /\ req_pool_idx'[r] = req_pool_idx[r]
          /\ UNCHANGED <<req_pool_idx, free_slots>>
    BY <1>8, Zenon DEF Truncates
  <2>4. Committed(r)' = 0..(m - 1)
    BY <1>2, <2>3, Zenon DEF Committed, HasRow
  <2>5. \A q \in Req : Committed(q)' \subseteq Committed(q)
    BY <1>0, <1>3, <1>4, <2>4
  <2>6. \A q \in Req : \A p \in Committed(q)' : SlotAt(q, p)' = SlotAt(q, p)
    BY <1>2, <2>3, Zenon DEF SlotAt
  <2>7. \A j \in 1..c : pos[j] \in Committed(r) /\ pos[j] \notin Committed(r)'
    BY <1>0, <1>4, <2>1, <2>4
  <2>8. \A p \in Committed(r) : p \in Committed(r)'
          \/ \E j \in 1..c : pos[j] = p
    <3> SUFFICES ASSUME NEW p \in Committed(r), p \notin Committed(r)'
                 PROVE  \E j \in 1..c : pos[j] = p
      BY Zenon
    <3>1. p - m + 1 \in 1..c /\ pos[p - m + 1] = p
      BY <1>0, <1>4, <2>1, <2>4
    <3> QED BY <3>1, Zenon
  <2>9. \A j \in 1..c : free_pages'[Len(free_pages) + j] = SlotAt(r, pos[j])
    BY <1>7, <2>1, <2>3, Zenon
  <2>10. \A i, j \in 1..c : pos[i] = pos[j] => i = j
    OBVIOUS
  <2>11. /\ Len(free_pages') = Len(free_pages) + c
         /\ \A i \in 1..Len(free_pages) : free_pages'[i] = free_pages[i]
    BY <1>7, <2>1, <2>3, Zenon
  <2> HIDE DEF pos
  <2>12. GivesBack(r, c, pos)
    BY <1>3, <2>5, <2>6, <2>7, <2>8, <2>9, <2>10, <2>11, Zenon DEF GivesBack
  <2> QED BY <2>2, <2>12, Zenon
<1>9. CASE Releases(r, m)
  <2> DEFINE pos == [j \in 1..k |-> IF j <= k - m THEN m + j - 1
                                    ELSE j - (k - m) - 1]
  <2>1. pos \in [1..k -> Nat]
    BY <1>0
  <2>2. /\ free_pages' = F1 \o RowSlice(r, 0, m)
        /\ req_pool_idx'[r] = NoRow
        /\ free_slots' = Append(free_slots, req_pool_idx[r])
    BY <1>0, <1>9, Zenon DEF Releases
  <2>3. Committed(r)' = {}
    BY <2>2, Zenon DEF Committed, HasRow
  <2>4. /\ Len(free_pages') = Len(free_pages) + k
        /\ \A i \in 1..Len(free_pages) : free_pages'[i] = free_pages[i]
        /\ \A j \in 1..k : free_pages'[Len(free_pages) + j] = SlotAt(r, pos[j])
    <3> HIDE DEF F1, pos
    <3>1. /\ Len(F1) \in Nat /\ Len(F1) = Len(free_pages) + (k - m)
          /\ Len(free_pages') = Len(F1) + m
          /\ \A i \in 1..(Len(F1) + m) :
               free_pages'[i] = IF i <= Len(F1) THEN F1[i]
                                ELSE RowSlice(r, 0, m)[i - Len(F1)]
      <4>1. F1 \in Seq(AnySlot) /\ Len(F1) = Len(free_pages) + (k - m)
        BY <1>7, Zenon
      <4>2. Len(F1) \in Nat
        BY <4>1, SeqLen, Zenon
      <4>3. RowSlice(r, 0, m) \in Seq(AnySlot) /\ Len(RowSlice(r, 0, m)) = m
        BY <1>6, Zenon
      <4>4. /\ Len(F1 \o RowSlice(r, 0, m)) = Len(F1) + Len(RowSlice(r, 0, m))
            /\ \A i \in 1..(Len(F1) + Len(RowSlice(r, 0, m))) :
                 (F1 \o RowSlice(r, 0, m))[i] =
                   IF i <= Len(F1) THEN F1[i]
                   ELSE RowSlice(r, 0, m)[i - Len(F1)]
        BY <4>1, <4>3, ConcatSeq, Zenon
      <4> QED BY <2>2, <4>1, <4>2, <4>3, <4>4, Zenon
    <3>2. Len(free_pages') = Len(free_pages) + k
      BY <1>0, <3>1
    <3>3. \A i \in 1..Len(free_pages) : free_pages'[i] = free_pages[i]
      <4>1. \A i \in 1..Len(free_pages) : i \in 1..(Len(F1) + m)
              /\ i <= Len(F1)
        BY <1>0, <3>1
      <4> QED BY <1>7, <3>1, <4>1, Zenon
    <3>4. ASSUME NEW j \in 1..k
          PROVE  free_pages'[Len(free_pages) + j] = SlotAt(r, pos[j])
      <4>1. CASE j <= k - m
        <5>1. /\ j \in 1..(k - m) /\ Len(free_pages) + j \in 1..(Len(F1) + m)
              /\ Len(free_pages) + j <= Len(F1)
          BY <1>0, <3>1, <4>1
        <5>2. pos[j] = m + j - 1
          BY <4>1, Zenon DEF pos
        <5> QED BY <1>7, <3>1, <5>1, <5>2, Zenon
      <4>2. CASE j > k - m
        <5>1. /\ j - (k - m) \in 1..m
                   /\ Len(free_pages) + j \in 1..(Len(F1) + m)
              /\ ~(Len(free_pages) + j <= Len(F1))
              /\ (Len(free_pages) + j) - Len(F1) = j - (k - m)
          BY <1>0, <3>1, <4>2
        <5>2. pos[j] = j - (k - m) - 1
          BY <1>0, <4>2 DEF pos
        <5> QED BY <1>6, <3>1, <5>1, <5>2, Zenon
      <4> QED BY <1>0, <4>1, <4>2
    <3> QED BY <3>2, <3>3, <3>4, Zenon
  <2>5. \A j \in 1..k : pos[j] \in Committed(r) /\ pos[j] \notin Committed(r)'
    BY <1>0, <1>4, <2>3
  <2>6. \A i, j \in 1..k : pos[i] = pos[j] => i = j
    BY <1>0
  <2>7. \A p \in Committed(r) : p \in Committed(r)'
          \/ \E j \in 1..k : pos[j] = p
    <3> SUFFICES ASSUME NEW p \in Committed(r)
                 PROVE  \E j \in 1..k : pos[j] = p
      BY Zenon
    <3>1. CASE m <= p
      <4>1. p - m + 1 \in 1..k /\ pos[p - m + 1] = p
        BY <1>0, <1>4, <3>1
      <4> QED BY <4>1, Zenon
    <3>2. CASE p < m
      <4>1. p + 1 + (k - m) \in 1..k /\ pos[p + 1 + (k - m)] = p
        BY <1>0, <1>4, <3>2, SMTT(30)
      <4> QED BY <4>1, Zenon
    <3> QED BY <1>0, <1>4, <3>1, <3>2
  <2>8. \A q \in Req : Committed(q)' \subseteq Committed(q)
    BY <1>3, <2>3, Zenon
  <2>9. \A q \in Req : \A p \in Committed(q)' : SlotAt(q, p)' = SlotAt(q, p)
    <3>1. ASSUME NEW q \in Req,
                 NEW p \in Committed(q)' PROVE SlotAt(q, p)' = SlotAt(q, p)
      <4>1. q # r
        BY <2>3, Zenon
      <4> QED BY <1>1, <1>2, <4>1, Zenon DEF SlotAt
    <3> QED BY <3>1, Zenon
  <2> HIDE DEF pos
  <2>10. GivesBack(r, k, pos)
    BY <1>3, <2>4, <2>5, <2>6, <2>7, <2>8, <2>9, Zenon DEF GivesBack
  <2> QED BY <1>0, <2>1, <2>10, Zenon
<1> QED BY <1>8, <1>9, Zenon

\* Setting a row back or releasing it keeps every row with one owner.
LEMMA FreesRows ==
  ASSUME NEW r \in Req, NEW m \in Nat, Inv, Inv', OwnershipInv, HasRow(r),
         Truncates(r, m) \/ Releases(r, m)
  PROVE  RowsOwnedOnce'
<1>0. /\ req_pool_idx \in [Req -> Rows \cup {NoRow}]
           /\ free_slots \in Seq(Rows)
      /\ req_pool_idx[r] \in Rows
  <2>1. req_pool_idx \in [Req -> Rows \cup {NoRow}] /\ free_slots \in Seq(Rows)
    BY Zenon DEF Inv, TypeOK
  <2> QED BY <2>1, Zenon DEF HasRow
<1>1. CASE Truncates(r, m)
  BY <1>1
     DEF Truncates, OwnershipInv, RowsOwnedOnce, HasRow, Inv, LifecycleInv,
         QueuesInv
<1>2. CASE Releases(r, m)
  <2>1. /\ req_pool_idx'[r] = NoRow
        /\ \A q \in Req \ {r} : req_pool_idx'[q] = req_pool_idx[q]
        /\ free_slots' = Append(free_slots, req_pool_idx[r])
    BY <1>0, <1>2, Zenon DEF Releases
  <2>2. RowsOwnedOnce'
    <3>1. /\ Len(free_slots') = Len(free_slots) + 1 /\ Len(free_slots) \in Nat
          /\ \A i \in 1..Len(free_slots) : free_slots'[i] = free_slots[i]
          /\ free_slots'[Len(free_slots) + 1] = req_pool_idx[r]
      BY <1>0, <2>1, AppendSeq, SMTT(30)
    <3>2. \A q \in Req \ {r} : HasRow(q) => req_pool_idx[q] # req_pool_idx[r]
      BY Zenon DEF OwnershipInv, RowsOwnedOnce
    <3>3. \A i \in 1..Len(free_slots) : free_slots[i] # req_pool_idx[r]
      BY Zenon DEF OwnershipInv, RowsOwnedOnce
    <3>4. \A i, j \in 1..Len(free_slots') : free_slots'[i] = free_slots'[j] =>
            i = j
      BY <3>1, <3>3 DEF OwnershipInv, RowsOwnedOnce
    <3>5. ASSUME NEW q \in Req, HasRow(q)'
          PROVE  /\ q # r /\ HasRow(q) /\ req_pool_idx'[q] = req_pool_idx[q]
                 /\ q \in active' /\ ~Finished(q)'
      BY <2>1, <3>5, ZenonT(30) DEF HasRow, Inv, LifecycleInv, QueuesInv
    <3>6. ASSUME NEW q \in Req, HasRow(q)'
          PROVE  \A i \in 1..Len(free_slots') :
                   free_slots'[i] # req_pool_idx'[q]
      <4>1. \A i \in 1..Len(free_slots) : free_slots'[i] # req_pool_idx'[q]
        BY <3>1, <3>5, <3>6, ZenonT(30) DEF OwnershipInv, RowsOwnedOnce
      <4>2. free_slots'[Len(free_slots) + 1] # req_pool_idx'[q]
        BY <3>1, <3>2, <3>5, <3>6, ZenonT(30)
      <4> QED BY <3>1, <4>1, <4>2
    <3>7. ASSUME NEW q \in Req, HasRow(q)',
                 NEW v \in Req, req_pool_idx'[v] = req_pool_idx'[q]
          PROVE  v = q
      <4>1. HasRow(v)'
        BY <3>7, Zenon DEF HasRow
      <4> QED BY <3>5, <3>7, <4>1, ZenonT(30) DEF OwnershipInv, RowsOwnedOnce
    <3> QED BY <3>4, <3>5, <3>6, <3>7, Zenon DEF RowsOwnedOnce
  <2> QED BY <2>2, Zenon
<1> QED BY <1>1, <1>2, Zenon

\* Setting a row back or releasing it keeps the ownership.
LEMMA FreesOwnership ==
  ASSUME NEW r \in Req, NEW m \in Nat, Inv, Inv', OwnershipInv, HasRow(r),
         m <= kv_committed_len[r], kv_committed_len[r] <= RowWidth,
         Truncates(r, m) \/ Releases(r, m)
  PROVE  OwnershipInv'
<1>1. Len(free_pages) \in Nat
  <2>1. free_pages \in Seq(AnySlot)
    BY Zenon DEF Inv, TypeOK
  <2> QED BY <2>1
<1> QED BY <1>1, FreesGiveBack, GivesBackOwnership, FreesRows, Zenon
           DEF OwnershipInv
=============================================================================
