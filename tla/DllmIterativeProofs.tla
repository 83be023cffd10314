------------------------ MODULE DllmIterativeProofs -------------------------
(***************************************************************************)
(* The steps of LowConfidence, JointThreshold and FastDiffuser keep the    *)
(* inductive invariant of DllmAlgorithmsInv; with what the proofs of all   *)
(* five algorithms need of parameters, control and blocks.                 *)
(***************************************************************************)
EXTENDS DllmAlgorithmsInv, TLAPS

\* What the server was started with stays.
LEMMA ArgsKept == ASSUME [Next]_vars PROVE args' = args
BY Zenon
   DEF Next, Run, vars, Forward, Finish, TidarDraft, TidarPass, TidarDone, Return,
       Place, LinearSpecAccept, TidarAccept, Prefill, Abort, StartBlock,
       reconfigure_dllm

LEMMA Setting ==
  ASSUME ControlInv
  PROVE  BlockSize \in Nat \ {0} /\ algorithm \in Algorithms
BY SettingAssumption, Zenon DEF ControlInv, BlockSize, algorithm

-----------------------------------------------------------------------------
(* Two facts of the library *)

\* Every set of naturals has a least element; a subset of a finite set that has
\* its size is the set.  The lemmas below take them as hypotheses, and
\* DllmAlgorithmsProofs proves both from the library's theorems.
LeastElements ==
    \A S \in SUBSET Nat : S # {} => Min(S) \in S /\ \A y \in S : Min(S) <= y

FullSubsets ==
    \A n \in Nat : \A U \in SUBSET (1..n) :
      /\ Cardinality(U) \in Nat
      /\ \A S \in SUBSET U : Cardinality(S) = Cardinality(U) => S = U

LEMMA MaxNat ==
  ASSUME LeastElements, NEW n \in Nat, NEW S \in SUBSET (0..n), S # {}
  PROVE  Max(S) \in S /\ \A y \in S : y <= Max(S)
<1> DEFINE T == {k \in 0..n : n - k \in S}
<1>1. T \in SUBSET Nat /\ T # {}
  <2>1. PICK y \in 0..n : y \in S
    BY Zenon
  <2>2. n - y \in 0..n /\ n - (n - y) \in S
    <3>1. n - (n - y) = y
      BY <2>1
    <3> QED BY <2>1, <3>1
  <2>3. n - y \in T
    BY <2>2, Zenon
  <2>4. T \subseteq Nat
    OBVIOUS
  <2> QED BY <2>3, <2>4, Zenon
<1>2. Min(T) \in T /\ \A k \in T : Min(T) <= k
  BY <1>1, Zenon DEF LeastElements
<1>3. n - Min(T) \in S /\ \A y \in S : y <= n - Min(T)
  <2>1. ASSUME NEW y \in S PROVE n - y \in T
    OBVIOUS
  <2> QED BY <1>2, <2>1
<1>4. \E x \in S : \A y \in S : x >= y
  BY <1>3, Zenon
<1> QED BY <1>4, Zenon DEF Max

-----------------------------------------------------------------------------
(* Sequences *)

LEMMA SeqElements ==
  ASSUME NEW S, NEW s \in Seq(S) PROVE \A i \in 1..Len(s) : s[i] \in S
OBVIOUS

LEMMA ConcatSeq ==
  ASSUME NEW S, NEW s \in Seq(S), NEW t \in Seq(S)
  PROVE  s \o t \in Seq(S) /\ Len(s \o t) = Len(s) + Len(t)
OBVIOUS

LEMMA WholeSubSeq ==
  ASSUME NEW S, NEW s \in Seq(S) PROVE SubSeq(s, 1, Len(s)) = s
OBVIOUS

-----------------------------------------------------------------------------
(* reconfigure_dllm *)

\* What an override may set the parameters to that the validation does not look at.
LEMMA OverrideFields ==
  ASSUME NEW o \in Overrides
  PROVE  /\ "threshold" \in DOMAIN o => o.threshold \in Thresholds
         /\ "max_steps" \in DOMAIN o => o.max_steps \in MaxSteps
         /\ "tokens_per_step" \in DOMAIN o => o.tokens_per_step \in {None, 2}
BY Zenon DEF Overrides

\* Only reconfigure_dllm sets the parameters, and no block is started between
\* an answer and its being sent back.
LEMMA NextParams ==
  ASSUME ParamsInv, UndoInv, [Next]_vars PROVE ParamsInv' /\ UndoInv'
<1>1. CASE UNCHANGED params /\ (undo' = None \/ UNCHANGED undo)
  BY <1>1 DEF ParamsInv, UndoInv
<1>2. ASSUME NEW o \in Overrides, params' = Applied(o),
             undo' = [previous |-> Previous(o), before |-> params]
      PROVE  ParamsInv' /\ UndoInv'
  <2>1. params = [f \in DOMAIN params |-> params[f]]
    BY DEF ParamsInv
  <2>2. CASE Refused(o)
    <3>1. params' = params /\ undo' = [previous |-> Restrict(params, {}), before |-> params]
      BY <1>2, <2>2, Zenon DEF Applied, Previous
    <3>2. {} \in SUBSET DOMAIN params
      BY Zenon
    <3> QED BY <2>1, <3>1, <3>2 DEF ParamsInv, UndoInv
  <2>3. CASE ~Refused(o)
    <3>1. /\ params' = Updated(o) /\ DOMAIN o \in SUBSET DOMAIN params
          /\ undo' = [previous |-> Restrict(params, DOMAIN o), before |-> params]
      BY <1>2, <2>3, Zenon DEF Applied, Previous, Refused, Reconfigurable
    <3>2. ParamsInv'
      BY <2>3, <3>1, OverrideFields, LimitsAssumption, Zenon
         DEF ParamsInv, Updated, Refused
    <3>3. \A f \in DOMAIN params \ DOMAIN o : params'[f] = params[f]
      BY <3>1, Zenon DEF Updated
    <3>4. DOMAIN params' = DOMAIN params
      BY <3>1, Zenon DEF Updated
    <3>5. UndoInv'
      BY <2>1, <3>1, <3>3, <3>4 DEF UndoInv, ParamsInv
    <3> QED BY <3>2, <3>5, Zenon
  <2> QED BY <2>2, <2>3, Zenon
<1> QED BY <1>1, <1>2, Zenon
   DEF Next, Run, vars, Forward, Finish, TidarDraft, TidarPass, TidarDone, Return,
       Place, LinearSpecAccept, TidarAccept, Prefill, Abort, StartBlock,
       reconfigure_dllm

-----------------------------------------------------------------------------
(* Control *)

LEMMA PassesNat ==
  ASSUME ParamsInv, ControlInv, algorithm \in Iterative PROVE Passes \in Nat
BY Setting, LimitsAssumption DEF Passes, Iterative, ParamsInv

LEMMA NextControl ==
  ASSUME ParamsInv, ControlInv, [Next]_vars PROVE ControlInv'
<1> USE DEF ControlInv
<1>0. args' = args /\ BlockSize \in Nat \ {0} /\ algorithm \in Algorithms
  BY ArgsKept, Setting, Zenon
<1>1. CASE UNCHANGED vars
  BY <1>1, Zenon DEF vars, output, loop, algorithm, Passes, BlockSize
<1>2. CASE Forward
  <2>1. /\ pc = "loop" /\ algorithm \in Iterative /\ step < Passes
        /\ step' = step + 1 /\ Passes' = Passes /\ algorithm' = algorithm
        /\ step \in Nat
    BY <1>0, <1>2, Zenon DEF Forward, Passes, algorithm, BlockSize
  <2>2. Passes \in Nat
    BY <2>1, PassesNat, Zenon
  <2>3. step' \in Nat /\ step' > 0 /\ step' <= Passes'
    BY <2>1, <2>2
  <2>4. Active \subseteq batch
    BY Zenon DEF Active
  <2> QED BY <1>0, <1>2, <2>1, <2>3, <2>4, Zenon DEF Forward, output
<1>3. CASE Finish
  BY <1>0, <1>3, Zenon DEF Finish, output, algorithm
<1>4. CASE TidarDraft
  BY <1>0, <1>4, Zenon DEF TidarDraft, output, algorithm
<1>5. CASE TidarPass
  BY <1>0, <1>5 DEF TidarPass, output, algorithm
<1>6. CASE TidarDone
  BY <1>0, <1>6, Zenon DEF TidarDone, output, algorithm
<1>7. CASE Return
  BY <1>0, <1>7, Zenon DEF Return, Leave, algorithm
<1>8. ASSUME NEW r \in Req, Place(r) PROVE ControlInv'
  BY <1>0, <1>8, Zenon DEF Place, output, algorithm, Passes, BlockSize
<1>9. ASSUME NEW r \in Req, LinearSpecAccept(r) PROVE ControlInv'
  BY <1>0, <1>9, Zenon DEF LinearSpecAccept, output, algorithm
<1>10. ASSUME NEW r \in Req, TidarAccept(r) PROVE ControlInv'
  BY <1>0, <1>10, Zenon DEF TidarAccept, output, algorithm
<1>11. ASSUME NEW r \in Req, Prefill(r) PROVE ControlInv'
  BY <1>0, <1>11, SettingAssumption, Zenon DEF Prefill, loop, algorithm
<1>12. ASSUME NEW r \in Req, Abort(r) PROVE ControlInv'
  BY <1>0, <1>12, Zenon DEF Abort, Leave, loop, algorithm
<1>13. ASSUME NEW R \in SUBSET live, StartBlock(R) PROVE ControlInv'
  <2>1. /\ pc = "idle" /\ R # {} /\ pc' = First /\ batch' = R
        /\ todo' = IF algorithm = "LinearSpec" THEN R ELSE {}
        /\ UNCHANGED <<params, live, step, changed, seed>>
    BY <1>13, Zenon DEF StartBlock, output
  <2>2. algorithm \in Iterative => Passes \in Nat /\ Passes' = Passes
    BY <1>0, <2>1, PassesNat, Zenon DEF Passes, algorithm, BlockSize
  <2> QED BY <1>0, <2>1, <2>2 DEF algorithm, First, Algorithms, Iterative
<1>14. ASSUME NEW o \in Overrides, reconfigure_dllm(o) PROVE ControlInv'
  BY <1>0, <1>14, Zenon DEF reconfigure_dllm, output, loop, algorithm
<1> QED
  BY <1>1, <1>2, <1>3, <1>4, <1>5, <1>6, <1>7, <1>8, <1>9, <1>10, <1>11, <1>12,
     <1>13, <1>14, Zenon DEF Next, Run

-----------------------------------------------------------------------------
(* Blocks *)

LEMMA NewBlockFacts ==
  ASSUME ControlInv
  PROVE  IsBlock(NewBlock) /\ NewBlock.res = << >> /\ NewBlock.kv = << >>
         /\ NewBlock.done = FALSE /\ NewBlock.forced = FALSE
         /\ \A i \in Block : NewBlock.ids[i] = MASK /\ NewBlock.commit[i] = -1
BY DEF IsBlock, NewBlock

\* A block in which the tokens x of S are revealed.
LEMMA RevealFacts ==
  ASSUME NEW b, IsBlock(b), NEW S, NEW x \in [Block -> Token], NEW s \in Int,
         NEW ids
  PROVE  LET n == Reveal(b, S, x, s, ids)
         IN /\ IsBlock(n)
            /\ n.ids = Put(b.ids, S, x) /\ n.commit = Put(b.commit, S, Every(s))
            /\ n.ctx = Put(b.ctx, S, Attended(ids, s))
            /\ n.kv = b.kv /\ n.res = b.res /\ n.done = b.done
            /\ n.forced = b.forced
<1> DEFINE n == Reveal(b, S, x, s, ids)
<1>1. /\ DOMAIN n = DOMAIN b
      /\ n.ids = Put(b.ids, S, x) /\ n.commit = Put(b.commit, S, Every(s))
      /\ n.ctx = Put(b.ctx, S, Attended(ids, s))
      /\ n.kv = b.kv /\ n.res = b.res /\ n.done = b.done /\ n.forced = b.forced
  BY Zenon DEF IsBlock, Reveal
<1>2. /\ Put(b.ids, S, x) \in [Block -> Token \cup {MASK}]
      /\ Put(b.commit, S, Every(s)) \in [Block -> Int]
  BY Zenon DEF IsBlock, Put, Every
<1>3. n.ctx = [i \in Block |-> n.ctx[i]]
  BY <1>1, Zenon DEF Put
<1> HIDE DEF n
<1> QED BY <1>1, <1>2, <1>3, Zenon DEF IsBlock, n

LEMMA LowConfidenceBlock ==
  ASSUME NEW b, IsBlock(b), NEW n \in LowConfidencePlace(b)
  PROVE  IsBlock(n) /\ n.kv = b.kv /\ n.res = b.res /\ n.forced = b.forced
<1>1. PICK S \in SUBSET Masks(b), x \in [Block -> Token \cup {MASK}] :
        n = [b EXCEPT !.ids = Put(b.ids, S, x)]
  BY DEF LowConfidencePlace
<1>2. Put(b.ids, S, x) \in [Block -> Token \cup {MASK}]
  BY Zenon DEF IsBlock, Put
<1> QED BY <1>1, <1>2, Zenon DEF IsBlock

\* A pass of JointThreshold leaves a block that it calls done as it was.
LEMMA JointThresholdBlock ==
  ASSUME NEW b, IsBlock(b), NEW n \in JointThresholdPlace(b)
  PROVE  /\ IsBlock(n) /\ n.kv = b.kv /\ n.res = b.res /\ n.forced = b.forced
         /\ n.done => n.ids = b.ids
<1>1. CASE n = [b EXCEPT !.done = TRUE, !.edits = Edits(b)]
  BY <1>1, Zenon DEF IsBlock
<1>2. CASE \E M \in SUBSET Masks(b), D \in SUBSET (Block \ Masks(b)),
              x \in [Block -> Token \cup {MASK}] : n = Edited(b, M, D, x)
  <2>1. PICK M \in SUBSET Masks(b), D \in SUBSET (Block \ Masks(b)),
             x \in [Block -> Token \cup {MASK}] : n = Edited(b, M, D, x)
    BY <1>2, Zenon
  <2>2. /\ n.ids = Put(b.ids, M \cup D, x)
        /\ n.done = (M = {} /\ \A i \in D : x[i] = b.ids[i])
        /\ n.kv = b.kv /\ n.res = b.res /\ n.forced = b.forced
        /\ DOMAIN n = DOMAIN b
        /\ n.commit = b.commit /\ n.ctx = b.ctx
    BY <2>1, Zenon DEF IsBlock, Edited
  <2>3. Put(b.ids, M \cup D, x) \in [Block -> Token \cup {MASK}]
    BY Zenon DEF Put, IsBlock
  <2>4. n.done => Put(b.ids, M \cup D, x) = b.ids
    BY <2>2, Zenon DEF Put, IsBlock
  <2> QED BY <2>2, <2>3, <2>4, Zenon DEF IsBlock
<1>3. \/ n = [b EXCEPT !.done = TRUE, !.edits = Edits(b)]
      \/ \E M \in SUBSET Masks(b), D \in SUBSET (Block \ Masks(b)),
            x \in [Block -> Token \cup {MASK}] : n = Edited(b, M, D, x)
  BY DEF JointThresholdPlace
<1> QED BY <1>1, <1>2, <1>3, Zenon

-----------------------------------------------------------------------------
(* A pass of FastDiffuser *)

\* A block of which no mask is behind an EOS is not frozen anywhere.
LEMMA NothingFrozen ==
  ASSUME ControlInv, NEW b, EosClosed(b) PROVE Unfrozen(b) = Masks(b)
<1>1. ASSUME NEW i \in Masks(b), NEW j \in 1..i PROVE b.ids[j] # EOS
  <2>1. i \in Block /\ j \in Block /\ b.ids[i] = MASK /\ (j < i \/ j = i)
    BY <1>1, Setting DEF Masks, Block
  <2> QED BY <2>1, TokenAssumption, Zenon DEF EosClosed
<1> QED BY <1>1, Zenon DEF Unfrozen

LEMMA SelectionsOfMasks ==
  ASSUME NEW b, NEW S \in Selections(b) PROVE S \subseteq Unfrozen(b)
BY Zenon DEF Selections, kSubset

\* Tokens revealed in one pass, later than all others, from the block before it.
LEMMA RevealReplays ==
  ASSUME NEW b, IsBlock(b), Replays(b), NEW T \in SUBSET Masks(b),
         NEW x \in [Block -> Token], NEW s \in Nat,
         \A i \in Block : b.commit[i] < s,
         NEW n, n.ids = Put(b.ids, T, x), n.commit = Put(b.commit, T, Every(s)),
         n.ctx = Put(b.ctx, T, Attended(b.ids, s))
  PROVE  Replays(n) /\ \A i \in Block : n.commit[i] <= s
<1>0. \A i \in Block : b.commit[i] >= -1 /\ (b.ids[i] = MASK <=> b.commit[i] = -1)
  BY Zenon DEF Replays
<1>1. \A i \in T : /\ i \in Block /\ b.ids[i] = MASK /\ b.commit[i] = -1
                  /\ n.ids[i] = x[i] /\ n.commit[i] = s /\ n.ctx[i] = Attended(b.ids, s)[i]
                  /\ x[i] # MASK
  <2>1. ASSUME NEW i \in T PROVE i \in Block /\ b.ids[i] = MASK
    BY Zenon DEF Masks
  <2>2. ASSUME NEW i \in Block PROVE x[i] # MASK
    BY TokenAssumption, Zenon DEF Token
  <2>3. ASSUME NEW i \in T
        PROVE  n.ids[i] = x[i] /\ n.commit[i] = s /\ n.ctx[i] = Attended(b.ids, s)[i]
    BY <2>1, Zenon DEF Put, Every
  <2> QED BY <1>0, <2>1, <2>2, <2>3, Zenon
<1>2. \A i \in Block \ T : /\ n.ids[i] = b.ids[i] /\ n.commit[i] = b.commit[i]
                          /\ n.ctx[i] = b.ctx[i]
  BY Zenon DEF Put
<1>3. \A i \in Block : b.commit[i] \in Int /\ b.commit[i] >= -1
  BY <1>0, Zenon DEF IsBlock
<1>4. \A i \in Block : n.commit[i] <= s /\ n.commit[i] >= -1
                      /\ (n.ids[i] = MASK <=> n.commit[i] = -1)
  <2>1. ASSUME NEW i \in T
        PROVE  n.commit[i] <= s /\ n.commit[i] >= -1
               /\ (n.ids[i] = MASK <=> n.commit[i] = -1)
    BY <1>1
  <2>2. ASSUME NEW i \in Block \ T
        PROVE  n.commit[i] <= s /\ n.commit[i] >= -1
               /\ (n.ids[i] = MASK <=> n.commit[i] = -1)
    BY <1>0, <1>2, <1>3
  <2> QED BY <2>1, <2>2, Zenon
<1>5. ASSUME NEW i \in Block, n.commit[i] # -1
      PROVE  n.ctx[i] = Attended(Before(n, n.commit[i]), n.commit[i])[i]
  <2>1. CASE i \in T
    <3>1. \A j \in Block : b.ids[j] = IF n.commit[j] < s THEN n.ids[j] ELSE MASK
      BY <1>1, <1>2
    <3>2. b.ids = [j \in Block |-> b.ids[j]]
      BY Zenon DEF IsBlock
    <3>3. b.ids = Before(n, s)
      BY <3>1, <3>2, Zenon DEF Before
    <3> QED BY <1>1, <2>1, <3>3, Zenon
  <2>2. CASE i \notin T
    <3>1. /\ n.ctx[i] = Attended(Before(b, b.commit[i]), b.commit[i])[i]
          /\ n.commit[i] = b.commit[i]
      BY <1>2, <1>5, <2>2, Zenon DEF Replays
    <3>2. \A j \in Block : (IF b.commit[j] < b.commit[i] THEN b.ids[j] ELSE MASK)
                         = (IF n.commit[j] < b.commit[i] THEN n.ids[j] ELSE MASK)
      BY <1>1, <1>2, <1>3
    <3>3. Before(b, b.commit[i]) = Before(n, b.commit[i])
      BY <3>2, Zenon DEF Before
    <3> QED BY <3>1, <3>3, Zenon
  <2> QED BY <2>1, <2>2, Zenon
<1> QED BY <1>4, <1>5, Zenon DEF Replays

\* n is b with tokens at the masks of S, and perhaps at others, from this pass.
RevealedIn(n, b, S) ==
    \E T \in SUBSET Masks(b), y \in [Block -> Token] :
      /\ S \subseteq T
      /\ n.ids = Put(b.ids, T, y) /\ n.commit = Put(b.commit, T, Every(step - 1))
      /\ n.ctx = Put(b.ctx, T, Attended(b.ids, step - 1))

\* After the EOS propagation no mask is left behind an EOS.
LEMMA PropagateFacts ==
  ASSUME ControlInv, NEW b, IsBlock(b), EosClosed(b), NEW S \in SUBSET Masks(b),
         NEW x \in [Block -> Token], step > 0,
         NEW n, n = Propagate(Reveal(b, S, x, step - 1, b.ids), S, b.ids)
  PROVE  /\ IsBlock(n) /\ EosClosed(n)
         /\ n.kv = b.kv /\ n.res = b.res /\ n.done = b.done /\ n.forced = b.forced
         /\ RevealedIn(n, b, S)
<1> DEFINE m == Reveal(b, S, x, step - 1, b.ids)
           eos == {i \in Block : m.ids[i] = EOS}
           P == {i \in Masks(m) : \E e \in eos : e < i}
<1>0. step - 1 \in Int /\ BlockSize \in Nat
  BY Setting DEF ControlInv
<1>1. /\ IsBlock(m)
      /\ m.ids = Put(b.ids, S, x) /\ m.commit = Put(b.commit, S, Every(step - 1))
      /\ m.ctx = Put(b.ctx, S, Attended(b.ids, step - 1))
      /\ m.kv = b.kv /\ m.res = b.res /\ m.done = b.done /\ m.forced = b.forced
  BY <1>0, RevealFacts
<1>2. /\ \A i \in S : i \in Block /\ m.ids[i] = x[i] /\ x[i] # MASK
      /\ \A i \in Block \ S : m.ids[i] = b.ids[i]
  <2>1. \A i \in Block : x[i] # MASK
    BY TokenAssumption, Zenon DEF Token
  <2>2. S \subseteq Block
    BY Zenon DEF Masks
  <2> QED BY <1>1, <2>1, <2>2, Zenon DEF Put
<1> HIDE DEF m
<1>3. CASE \A i \in S : m.ids[i] # EOS
  <2>1. n = m
    BY <1>3, Zenon DEF Propagate, m
  <2>2. EosClosed(m)
    <3>1. ASSUME NEW i \in Block, NEW j \in Block, i < j, m.ids[i] = EOS
          PROVE  m.ids[j] # MASK
      <4>1. i \notin S /\ b.ids[i] = EOS
        BY <1>2, <1>3, <3>1, Zenon
      <4>2. b.ids[j] # MASK
        BY <3>1, <4>1, Zenon DEF EosClosed
      <4> QED BY <1>2, <4>2, Zenon
    <3> QED BY <3>1, Zenon DEF EosClosed
  <2>3. RevealedIn(n, b, S)
    BY <1>1, <2>1, Zenon DEF RevealedIn
  <2> QED BY <1>1, <2>1, <2>2, <2>3, Zenon
<1>4. CASE \E i \in S : m.ids[i] = EOS
  <2>1. n = Reveal(m, P, Every(EOS), step - 1, b.ids)
    BY <1>4, Zenon DEF Propagate, m
  <2>2. Every(EOS) \in [Block -> Token]
    BY Zenon DEF Every, Token
  <2>3. /\ IsBlock(n)
        /\ n.ids = Put(m.ids, P, Every(EOS))
        /\ n.commit = Put(m.commit, P, Every(step - 1))
        /\ n.ctx = Put(m.ctx, P, Attended(b.ids, step - 1))
        /\ n.kv = b.kv /\ n.res = b.res /\ n.done = b.done /\ n.forced = b.forced
    BY <1>0, <1>1, <2>1, <2>2, RevealFacts
  <2>6. EosClosed(n)
    <3>1. ASSUME NEW i \in Block, NEW j \in Block, i < j, n.ids[i] = EOS,
                 n.ids[j] = MASK
          PROVE  FALSE
      <4>1. j \notin P /\ m.ids[j] = MASK
        BY <2>3, <3>1, TokenAssumption, Zenon DEF Put, Every
      <4>2. \A e \in eos : ~(e < j)
        BY <4>1, Zenon DEF Masks
      <4>3. i \in P
        BY <2>3, <3>1, <4>2, Zenon DEF Put
      <4>4. PICK e \in eos : e < i
        BY <4>3, Zenon
      <4>5. e < j
        BY <1>0, <3>1, <4>4 DEF Block
      <4> QED BY <4>2, <4>4, <4>5, Zenon
    <3> QED BY <3>1, Zenon DEF EosClosed
  <2>7. P \subseteq Masks(b) /\ P \cap S = {}
    BY <1>2, Zenon DEF Masks
  <2> DEFINE T == S \cup P
             y == Put(x, P, Every(EOS))
  <2>8. y \in [Block -> Token] /\ T \in SUBSET Masks(b)
    BY <2>2, <2>7, Zenon DEF Put
  <2>9. /\ n.ids = Put(b.ids, T, y) /\ n.commit = Put(b.commit, T, Every(step - 1))
        /\ n.ctx = Put(b.ctx, T, Attended(b.ids, step - 1))
    <3> HIDE DEF P
    <3>1. n.ids = Put(b.ids, T, y)
      BY <1>1, <2>3 DEF Put
    <3>2. n.commit = Put(b.commit, T, Every(step - 1))
      BY <1>1, <2>3 DEF Put
    <3>3. n.ctx = Put(b.ctx, T, Attended(b.ids, step - 1))
      BY <1>1, <2>3 DEF Put
    <3> QED BY <3>1, <3>2, <3>3, Zenon
  <2> HIDE DEF T, y
  <2>10. S \subseteq T
    BY Zenon DEF T
  <2>11. RevealedIn(n, b, S)
    BY <2>8, <2>9, <2>10, Zenon DEF RevealedIn
  <2> QED BY <2>3, <2>6, <2>11, Zenon
<1> QED BY <1>3, <1>4, Zenon

LEMMA RevealedMasks ==
  ASSUME NEW b, NEW n, NEW T, NEW y \in [Block -> Token], n.ids = Put(b.ids, T, y)
  PROVE  Masks(n) = Masks(b) \ T
<1>1. \A i \in Block : y[i] # MASK
  BY TokenAssumption, Zenon DEF Token
<1> QED BY <1>1, Zenon DEF Masks, Put

\* With one step left, _get_num_transfer_tokens gives all masks to it.
LEMMA LastShare ==
  ASSUME FullSubsets,
         ParamsInv, ControlInv, EvenSchedule, step = params.max_steps, NEW b,
         NEW S \in Selections(b)
  PROVE  S = Unfrozen(b)
<1> DEFINE n == Cardinality(Unfrozen(b))
<1>1. Unfrozen(b) \in SUBSET (1..BlockSize) /\ BlockSize \in Nat
  BY Setting, Zenon DEF Unfrozen, Masks, Block
<1>2. n \in Nat
  BY <1>1, Zenon DEF FullSubsets
<1> HIDE DEF n
<1>3. params.max_steps - step + 1 = 1
  BY DEF ParamsInv
<1>4. EvenShare(n, 1) = n
  BY <1>2 DEF EvenShare
<1>5. Min({n, n}) = n
  BY <1>2 DEF Min
<1>6. S \in kSubset(n, Unfrozen(b))
  BY <1>3, <1>4, <1>5, Zenon DEF Selections, EvenSchedule, n
<1>7. S \in SUBSET Unfrozen(b) /\ Cardinality(S) = Cardinality(Unfrozen(b))
  BY <1>6, Zenon DEF kSubset, n
<1> QED BY <1>1, <1>7, Zenon DEF FullSubsets

\* Blocks with the same tokens.
LEMMA SameTokens ==
  ASSUME NEW m, NEW n, n.ids = m.ids, n.commit = m.commit, n.ctx = m.ctx
  PROVE  /\ Replays(m) => Replays(n)
         /\ EosClosed(m) => EosClosed(n)
         /\ Masks(n) = Masks(m)
<1>1. Replays(m) => Replays(n)
  BY Zenon DEF Replays, Before
<1>2. EosClosed(m) => EosClosed(n)
  BY Zenon DEF EosClosed
<1>3. Masks(n) = Masks(m)
  BY Zenon DEF Masks
<1> QED BY <1>1, <1>2, <1>3, Zenon

\* What a pass of FastDiffuser does to a block.
LEMMA FastDiffuserBlock ==
  ASSUME FullSubsets, ParamsInv, ControlInv, step > 0,
         NEW b, IsBlock(b), Replays(b), EosClosed(b),
         \A i \in Block : b.commit[i] < step - 1,
         NEW n \in FastDiffuserPlace(b)
  PROVE  /\ IsBlock(n) /\ Replays(n) /\ EosClosed(n)
         /\ \A i \in Block : n.commit[i] < step
         /\ n.done => Masks(n) = {}
         /\ EvenSchedule /\ step = params.max_steps => Masks(n) = {}
         /\ n.kv = b.kv /\ n.res = b.res /\ n.forced = b.forced
<1>0. step \in Nat /\ Unfrozen(b) = Masks(b)
  BY NothingFrozen, Zenon DEF ControlInv
<1>1. CASE Unfrozen(b) = {}
  <2>1. n = [b EXCEPT !.done = TRUE]
    BY <1>1 DEF FastDiffuserPlace
  <2>2. /\ IsBlock(n) /\ n.ids = b.ids /\ n.commit = b.commit /\ n.ctx = b.ctx
        /\ n.kv = b.kv /\ n.res = b.res /\ n.forced = b.forced
    BY <2>1, Zenon DEF IsBlock
  <2>3. Masks(n) = {}
    BY <1>0, <1>1, <2>2, Zenon DEF Masks
  <2>4. \A i \in Block : n.commit[i] < step
    BY <1>0, <2>2 DEF IsBlock
  <2>5. Replays(n) /\ EosClosed(n)
    BY <2>2, SameTokens, Zenon
  <2> QED BY <2>2, <2>3, <2>4, <2>5, Zenon
<1>2. CASE Unfrozen(b) # {}
  <2>0. PICK S \in Selections(b), x \in [Block -> Token] : \E m :
          /\ m = Propagate(Reveal(b, S, x, step - 1, b.ids), S, b.ids)
          /\ n = [m EXCEPT !.done = (Masks(m) = {})]
    BY <1>2 DEF FastDiffuserPlace
  <2>1. PICK m : /\ m = Propagate(Reveal(b, S, x, step - 1, b.ids), S, b.ids)
                 /\ n = [m EXCEPT !.done = (Masks(m) = {})]
    BY <2>0, Zenon
  <2>2. S \in SUBSET Masks(b)
    BY <1>0, SelectionsOfMasks, Zenon
  <2>3. /\ IsBlock(m) /\ EosClosed(m) /\ m.kv = b.kv /\ m.res = b.res
        /\ m.forced = b.forced
        /\ RevealedIn(m, b, S)
    BY <2>1, <2>2, PropagateFacts, ZenonT(30)
  <2>4. PICK T \in SUBSET Masks(b), y \in [Block -> Token] :
          /\ S \subseteq T
          /\ m.ids = Put(b.ids, T, y) /\ m.commit = Put(b.commit, T, Every(step - 1))
          /\ m.ctx = Put(b.ctx, T, Attended(b.ids, step - 1))
    BY <2>3, Zenon DEF RevealedIn
  <2>5. Replays(m) /\ \A i \in Block : m.commit[i] <= step - 1
    BY <1>0, <2>4, RevealReplays
  <2>6. /\ IsBlock(n) /\ n.ids = m.ids /\ n.commit = m.commit /\ n.ctx = m.ctx
        /\ n.kv = m.kv /\ n.res = m.res /\ n.forced = m.forced
        /\ n.done = (Masks(m) = {})
    BY <2>1, <2>3, Zenon DEF IsBlock
  <2>7. Masks(m) = Masks(b) \ T
    BY <2>4, RevealedMasks, Zenon
  <2>8. EvenSchedule /\ step = params.max_steps => Masks(n) = {}
    BY <1>0, <2>4, <2>6, <2>7, LastShare, SameTokens, Zenon
  <2>9. \A i \in Block : n.commit[i] < step
    BY <1>0, <2>3, <2>5, <2>6 DEF IsBlock
  <2>10. Replays(n) /\ EosClosed(n) /\ Masks(n) = Masks(m)
    BY <2>3, <2>5, <2>6, SameTokens, Zenon
  <2> QED BY <2>3, <2>6, <2>8, <2>9, <2>10, Zenon
<1> QED BY <1>1, <1>2, Zenon

-----------------------------------------------------------------------------
(* Forward passes *)

\* A pass only writes the KV.
LEMMA WrittenFacts ==
  ASSUME BlocksInv, NEW R, NEW r \in Req
  PROVE  LET n == Written(R)[r]
         IN /\ IsBlock(n) /\ n.ids = blk[r].ids /\ n.commit = blk[r].commit
            /\ n.ctx = blk[r].ctx /\ n.res = blk[r].res /\ n.done = blk[r].done
            /\ n.forced = blk[r].forced
            /\ n.kv = IF r \in R THEN blk[r].ids ELSE blk[r].kv
            /\ r \notin R => n = blk[r]
BY Zenon DEF Written, BlocksInv, IsBlock

\* The block n that the forced commit of the positions left makes of b.
ForcedFrom(n, b, left, x) ==
    /\ IsBlock(n) /\ n.kv = b.kv /\ n.forced = (left # {})
    /\ n.ids = Put(b.ids, left, x)
    /\ n.commit = Put(b.commit, left, Every(params.max_steps))
    /\ n.ctx = Put(b.ctx, left, Attended(b.ids, params.max_steps))

\* The commit after the loop, which only FastDiffuser has.
LEMMA ForceFacts ==
  ASSUME ParamsInv, NEW b, IsBlock(b), NEW x \in [Block -> Token], NEW left,
         left = IF algorithm = "FastDiffuser" THEN Unfrozen(b) ELSE {},
         NEW n, n = ForceCommit(b, x)
  PROVE  ForcedFrom(n, b, left, x)
<1>1. params.max_steps \in Int
  BY DEF ParamsInv
<1>2. PICK m : m = Reveal(b, left, x, params.max_steps, b.ids)
  BY Zenon
<1>3. /\ IsBlock(m)
      /\ m.ids = Put(b.ids, left, x)
      /\ m.commit = Put(b.commit, left, Every(params.max_steps))
      /\ m.ctx = Put(b.ctx, left, Attended(b.ids, params.max_steps))
      /\ m.kv = b.kv
  BY <1>1, <1>2, RevealFacts
<1>4. n = [m EXCEPT !.forced = (left # {})]
  BY <1>2, Zenon DEF ForceCommit
<1>5. /\ IsBlock(n) /\ n.ids = m.ids /\ n.commit = m.commit /\ n.ctx = m.ctx
      /\ n.kv = m.kv /\ n.forced = (left # {})
  BY <1>3, <1>4, Zenon DEF IsBlock
<1> QED BY <1>3, <1>5, Zenon DEF ForcedFrom

\* A block as a result.
LEMMA BlockSeq ==
  ASSUME ControlInv, NEW S, NEW f \in [Block -> S]
  PROVE  f \in Seq(S) /\ Len(f) = BlockSize
<1>1. BlockSize \in Nat
  BY Setting, Zenon
<1>2. f \in [1..BlockSize -> S]
  BY Zenon DEF Block
<1>3. f \in Seq(S)
  BY <1>1, <1>2
<1> QED BY <1>1, <1>2, <1>3

\* The blocks of the next state.
LEMMA BlocksPrimed ==
  ASSUME args' = args, DOMAIN blk' = Req, \A r \in Req : IsBlock(blk'[r]),
         \A r \in Req \ batch' : blk'[r] = NewBlock,
         pc' \notin {"return", "spec", "quad", "verify"} =>
           \A r \in Req : blk'[r].res = << >>
  PROVE  BlocksInv'
BY Zenon DEF BlocksInv, IsBlock, NewBlock, Block, BlockSize, Token

\* The requests of FastDiffuser in the next state.
LEMMA FastPrimed ==
  ASSUME args' = args, params' = params, algorithm = "FastDiffuser",
         \A r \in batch' :
           /\ Replays(blk'[r]) /\ EosClosed(blk'[r])
           /\ blk'[r].done => Masks(blk'[r]) = {}
           /\ pc' = "return" => Masks(blk'[r]) = {}
           /\ pc' \in {"loop", "place"} =>
                /\ \A i \in Block :
                     blk'[r].commit[i] < IF r \in todo' THEN step' - 1 ELSE step'
                /\ EvenSchedule /\ step' = params.max_steps /\ r \notin todo' =>
                     Masks(blk'[r]) = {}
                /\ ~blk'[r].forced
           /\ pc' = "return" /\ EvenSchedule => ~blk'[r].forced
  PROVE  FastInv'
<1>1. ASSUME NEW r \in batch' PROVE Replays(blk[r])'
  <2>1. Block' = Block
    BY Zenon DEF Block, BlockSize
  <2>2. PICK b : b = blk'[r]
    BY Zenon
  <2>3. \A f, k : Attended(f, k)' = Attended(f, k)
    BY <2>1, Zenon DEF Attended
  <2>4. \A k : Before(blk[r], k)' = Before(b, k)
    BY <2>1, <2>2, Zenon DEF Before
  <2>5. Replays(b)
    BY <1>1, <2>2, Zenon
  <2> QED BY <2>1, <2>2, <2>3, <2>4, <2>5, ZenonT(30) DEF Replays
<1>2. ASSUME NEW r \in batch'
      PROVE  EosClosed(blk[r])' /\ Masks(blk[r])' = Masks(blk'[r])
  BY <1>2, Zenon DEF EosClosed, Masks, Block, BlockSize
<1>3. Block' = Block /\ EvenSchedule' = EvenSchedule
  BY Zenon DEF Block, BlockSize, EvenSchedule
<1> QED BY <1>1, <1>2, <1>3, Zenon DEF FastInv

-----------------------------------------------------------------------------
(* The steps of the iterative algorithms *)

LEMMA ForwardRun ==
  ASSUME ParamsInv, ControlInv, RunInv, Forward PROVE RunInv'
<1> DEFINE W == IF algorithm = "FastDiffuser" THEN Active ELSE batch
<1>1. /\ args' = args /\ params' = params /\ batch' = batch /\ blk' = Written(W)
      /\ pc = "loop" /\ pc' = "place" /\ todo' = Active /\ step' = step + 1
      /\ changed' = FALSE /\ Active \subseteq batch /\ batch \subseteq Req
      /\ algorithm \in Iterative /\ algorithm' = algorithm /\ todo = {}
      /\ step \in Nat
  BY Zenon DEF Forward, Active, ControlInv, algorithm
<1> HIDE DEF W
<1>2. BlocksInv
  BY Zenon DEF RunInv
<1>3. \A r \in Req :
        /\ IsBlock(blk'[r]) /\ blk'[r].ids = blk[r].ids
        /\ blk'[r].commit = blk[r].commit /\ blk'[r].ctx = blk[r].ctx
        /\ blk'[r].res = blk[r].res /\ blk'[r].done = blk[r].done
        /\ blk'[r].forced = blk[r].forced
        /\ blk'[r].kv = IF r \in W THEN blk[r].ids ELSE blk[r].kv
        /\ r \notin W => blk'[r] = blk[r]
  BY <1>1, <1>2, WrittenFacts
<1>4. DOMAIN blk' = Req
  BY <1>1, Zenon DEF Written
<1>5. BlocksInv'
  <2>1. \A r \in Req \ batch' : blk'[r] = NewBlock
    BY <1>1, <1>2, <1>3 DEF BlocksInv, W
  <2>2. \A r \in Req : blk'[r].res = << >>
    BY <1>1, <1>2, <1>3 DEF BlocksInv
  <2> QED BY <1>1, <1>3, <1>4, <2>1, <2>2, BlocksPrimed, Zenon
<1>6. ResultsInv' /\ SpecInv'
  BY <1>1, Zenon DEF ResultsInv, SpecInv, Iterative
<1>7. JointInv'
  BY <1>1, <1>3 DEF JointInv, W
<1>8. FastInv'
  <2>1. CASE algorithm = "FastDiffuser"
    <3>1. ASSUME NEW r \in batch
          PROVE  /\ Replays(blk'[r]) /\ EosClosed(blk'[r])
                 /\ blk'[r].done => Masks(blk'[r]) = {}
                 /\ \A i \in Block :
                      blk'[r].commit[i] < IF r \in todo' THEN step' - 1 ELSE step'
                 /\ r \notin todo' => Masks(blk'[r]) = {}
                 /\ ~blk'[r].forced
      <4>1. /\ Replays(blk[r]) /\ EosClosed(blk[r]) /\ ~blk[r].forced
            /\ blk[r].done => Masks(blk[r]) = {}
            /\ \A i \in Block : blk[r].commit[i] < step
        BY <1>1, <2>1, Zenon DEF RunInv, FastInv
      <4>2. /\ Replays(blk'[r]) /\ EosClosed(blk'[r])
            /\ Masks(blk'[r]) = Masks(blk[r])
        BY <1>1, <1>3, <4>1, SameTokens, Zenon
      <4>3. r \notin todo' => blk[r].done
        BY <1>1, <2>1, Zenon DEF Active
      <4>4. \A i \in Block : blk[r].commit[i] \in Int
        BY <1>1, <1>2, Zenon DEF BlocksInv, IsBlock
      <4>5. \A i \in Block :
              blk'[r].commit[i] < IF r \in todo' THEN step' - 1 ELSE step'
        BY <1>1, <1>3, <4>1, <4>4
      <4> QED BY <1>1, <1>3, <4>1, <4>2, <4>3, <4>5, Zenon
    <3> QED BY <1>1, <2>1, <3>1, FastPrimed, Zenon
  <2> QED BY <1>1, <2>1, Zenon DEF FastInv
<1> QED BY <1>5, <1>6, <1>7, <1>8, Zenon DEF RunInv

LEMMA PlacedBlock ==
  ASSUME FullSubsets,
         ParamsInv, ControlInv, RunInv, pc = "place", NEW r \in todo,
         NEW n \in Placements(blk[r])
  PROVE  /\ IsBlock(n) /\ n.kv = blk[r].kv /\ n.res = blk[r].res
         /\ algorithm = "JointThreshold" => (n.done => n.ids = blk[r].ids)
         /\ algorithm = "FastDiffuser" =>
              /\ Replays(n) /\ EosClosed(n)
              /\ \A i \in Block : n.commit[i] < step
              /\ n.done => Masks(n) = {}
              /\ EvenSchedule /\ step = params.max_steps => Masks(n) = {}
              /\ ~n.forced
<1>1. r \in Req /\ r \in batch /\ algorithm \in Iterative /\ step > 0
  BY Zenon DEF ControlInv
<1>2. IsBlock(blk[r])
  BY <1>1, Zenon DEF RunInv, BlocksInv
<1>3. CASE algorithm = "LowConfidence"
  BY <1>2, <1>3, LowConfidenceBlock, Zenon DEF Placements
<1>4. CASE algorithm = "JointThreshold"
  BY <1>2, <1>4, JointThresholdBlock, Zenon DEF Placements
<1>5. CASE algorithm = "FastDiffuser"
  <2>1. /\ Replays(blk[r]) /\ EosClosed(blk[r]) /\ ~blk[r].forced
        /\ \A i \in Block : blk[r].commit[i] < step - 1
    BY <1>1, <1>5, Zenon DEF RunInv, FastInv
  <2>2. n \in FastDiffuserPlace(blk[r])
    BY <1>5, Zenon DEF Placements
  <2> QED BY <1>1, <1>2, <1>5, <2>1, <2>2, FastDiffuserBlock, Zenon
<1> QED BY <1>1, <1>3, <1>4, <1>5, Zenon DEF Iterative

LEMMA PlaceRun ==
  ASSUME FullSubsets,
         ParamsInv, ControlInv, RunInv, NEW r \in Req, Place(r)
  PROVE  RunInv'
<1>1. /\ args' = args /\ params' = params /\ batch' = batch /\ pc = "place"
      /\ r \in todo /\ todo' = todo \ {r} /\ pc' \in {"loop", "place"}
      /\ step' = step /\ step \in Nat /\ step > 0
      /\ todo \subseteq batch /\ batch \subseteq Req
      /\ algorithm \in Iterative /\ algorithm' = algorithm
  BY Zenon DEF Place, ControlInv, algorithm
<1>2. PICK n \in Placements(blk[r]) :
        /\ blk' = [blk EXCEPT ![r] = n]
        /\ changed' = (algorithm = "JointThreshold" /\ (changed \/ ~n.done))
  BY Zenon DEF Place
<1>3. /\ IsBlock(n) /\ n.kv = blk[r].kv /\ n.res = blk[r].res
      /\ algorithm = "JointThreshold" => (n.done => n.ids = blk[r].ids)
      /\ algorithm = "FastDiffuser" =>
           /\ Replays(n) /\ EosClosed(n)
           /\ \A i \in Block : n.commit[i] < step
           /\ n.done => Masks(n) = {}
           /\ EvenSchedule /\ step = params.max_steps => Masks(n) = {}
           /\ ~n.forced
  BY <1>1, PlacedBlock, Zenon
<1>4. BlocksInv
  BY Zenon DEF RunInv
<1>5. DOMAIN blk' = Req /\ blk'[r] = n /\ \A q \in Req \ {r} : blk'[q] = blk[q]
  BY <1>2, <1>4, Zenon DEF BlocksInv
<1>6. BlocksInv'
  <2>1. \A q \in Req : IsBlock(blk'[q]) /\ blk'[q].res = << >>
    BY <1>1, <1>3, <1>4, <1>5, Zenon DEF BlocksInv
  <2>2. \A q \in Req \ batch' : blk'[q] = NewBlock
    BY <1>1, <1>4, <1>5, Zenon DEF BlocksInv
  <2> QED BY <1>1, <1>5, <2>1, <2>2, BlocksPrimed, Zenon
<1>7. ResultsInv' /\ SpecInv'
  BY <1>1, Zenon DEF ResultsInv, SpecInv, Iterative
<1>8. JointInv'
  <2>1. ASSUME algorithm = "JointThreshold", NEW q \in batch, ~changed'
        PROVE  blk'[q].kv = blk'[q].ids
    <3>1. ~changed /\ n.done
      BY <1>2, <2>1, Zenon
    <3>2. blk[q].kv = blk[q].ids
      BY <1>1, <2>1, <3>1 DEF RunInv, JointInv
    <3> QED BY <1>1, <1>3, <1>5, <2>1, <3>1, <3>2, Zenon
  <2> QED BY <1>1, <2>1 DEF JointInv
<1>9. FastInv'
  <2>1. CASE algorithm = "FastDiffuser"
    <3>1. \A q \in batch :
            /\ Replays(blk'[q]) /\ EosClosed(blk'[q])
            /\ blk'[q].done => Masks(blk'[q]) = {}
            /\ \A i \in Block :
                 blk'[q].commit[i] < IF q \in todo' THEN step' - 1 ELSE step'
            /\ EvenSchedule /\ step' = params.max_steps /\ q \notin todo' =>
                 Masks(blk'[q]) = {}
            /\ ~blk'[q].forced
      <4>1. ASSUME NEW q \in batch, q # r
            PROVE  /\ Replays(blk[q]) /\ EosClosed(blk[q])
                   /\ blk[q].done => Masks(blk[q]) = {}
                   /\ \A i \in Block :
                        blk[q].commit[i] < IF q \in todo THEN step - 1 ELSE step
                   /\ EvenSchedule /\ step = params.max_steps /\ q \notin todo =>
                        Masks(blk[q]) = {}
                   /\ ~blk[q].forced
        BY <1>1, <2>1, Zenon DEF RunInv, FastInv
      <4>2. ASSUME NEW q \in batch, q # r
            PROVE  blk'[q] = blk[q] /\ (q \in todo' <=> q \in todo)
        BY <1>1, <1>5, <4>2, Zenon
      <4> QED BY <1>1, <1>3, <1>5, <2>1, <4>1, <4>2, Zenon
    <3> QED BY <1>1, <2>1, <3>1, FastPrimed, Zenon
  <2> QED BY <1>1, <2>1, Zenon DEF FastInv
<1> QED BY <1>6, <1>7, <1>8, <1>9, Zenon DEF RunInv

\* With no token frozen, the forced commit fills every mask.
LEMMA ForceAll ==
  ASSUME ParamsInv, algorithm = "FastDiffuser", NEW b, IsBlock(b),
         Unfrozen(b) = Masks(b), NEW x \in [Block -> Token],
         NEW n, n = ForceCommit(b, x)
  PROVE  ForcedFrom(n, b, Masks(b), x) /\ Masks(n) = {}
<1>1. Masks(b) = IF algorithm = "FastDiffuser" THEN Unfrozen(b) ELSE {}
  BY Zenon
<1>2. ForcedFrom(n, b, Masks(b), x)
  BY <1>1, ForceFacts, Zenon
<1>3. n.ids = Put(b.ids, Masks(b), x)
  BY <1>2, Zenon DEF ForcedFrom
<1>4. Masks(n) = Masks(b) \ Masks(b)
  BY <1>3, RevealedMasks
<1> QED BY <1>2, <1>4, Zenon

\* The block of a request of the batch after the loop of FastDiffuser.
LEMMA FastFinished ==
  ASSUME ParamsInv, ControlInv, RunInv, algorithm = "FastDiffuser", pc = "loop",
         step >= Passes \/ Active = {}, NEW r \in batch,
         NEW x \in [Block -> Token], NEW b, IsBlock(b), b.ids = blk[r].ids,
         b.commit = blk[r].commit, b.ctx = blk[r].ctx, b.kv = b.ids,
         NEW n, n = ForceCommit(b, x)
  PROVE  /\ Replays(n) /\ EosClosed(n) /\ Masks(n) = {}
         /\ n.forced \/ n.kv = n.ids
         /\ EvenSchedule => ~n.forced
<1>1. /\ r \in Req /\ todo = {} /\ step \in Nat /\ step <= Passes
      /\ Passes = params.max_steps /\ params.max_steps \in Nat
  BY Zenon DEF ControlInv, Passes, ParamsInv
<1>2. /\ Replays(blk[r]) /\ EosClosed(blk[r])
      /\ blk[r].done => Masks(blk[r]) = {}
      /\ \A i \in Block : blk[r].commit[i] < step
      /\ EvenSchedule /\ step = params.max_steps => Masks(blk[r]) = {}
  BY <1>1, Zenon DEF RunInv, FastInv
<1>3. Replays(b) /\ EosClosed(b) /\ Masks(b) = Masks(blk[r])
  BY <1>2, SameTokens, Zenon
<1>4. Unfrozen(b) = Masks(b)
  BY <1>3, NothingFrozen, Zenon
<1>5. /\ IsBlock(n) /\ n.kv = b.kv /\ n.forced = (Masks(b) # {})
      /\ n.ids = Put(b.ids, Masks(b), x)
      /\ n.commit = Put(b.commit, Masks(b), Every(params.max_steps))
      /\ n.ctx = Put(b.ctx, Masks(b), Attended(b.ids, params.max_steps))
      /\ Masks(n) = {}
  <2>1. ForcedFrom(n, b, Masks(b), x) /\ Masks(n) = {}
    BY <1>4, ForceAll, Zenon
  <2> QED BY <2>1, Zenon DEF ForcedFrom
<1>6. \A i \in Block : b.commit[i] < params.max_steps
  BY <1>1, <1>2 DEF IsBlock
<1>7. Replays(n)
  BY <1>1, <1>3, <1>5, <1>6, RevealReplays, Zenon
<1>8. EosClosed(n)
  BY <1>5, Zenon DEF EosClosed, Masks
<1>9. n.forced \/ n.kv = n.ids
  <2>1. CASE Masks(b) = {}
    <3>1. Put(b.ids, {}, x) = b.ids
      BY Zenon DEF Put, IsBlock
    <3> QED BY <1>5, <2>1, <3>1, Zenon
  <2>2. CASE Masks(b) # {}
    BY <1>5, <2>2, Zenon
  <2> QED BY <2>1, <2>2, Zenon
<1>10. EvenSchedule => ~n.forced
  <2>1. CASE Active = {}
    BY <1>2, <1>3, <1>5, <2>1, Zenon DEF Active
  <2>2. CASE step >= Passes
    <3>1. step = params.max_steps
      BY <1>1, <2>2
    <3> QED BY <1>2, <1>3, <1>5, <3>1, Zenon
  <2> QED BY <2>1, <2>2, Zenon
<1> QED BY <1>5, <1>7, <1>8, <1>9, <1>10, Zenon

LEMMA FinishRun ==
  ASSUME ParamsInv, ControlInv, RunInv, Finish PROVE RunInv'
<1>1. /\ args' = args /\ params' = params /\ batch' = batch /\ pc = "loop"
      /\ pc' = "return" /\ batch \subseteq Req /\ step \in Nat
      /\ step >= Passes \/ Active = {}
      /\ algorithm \in Iterative /\ algorithm' = algorithm /\ batch # {}
  BY Zenon DEF Finish, ControlInv, algorithm
<1>2. PICK x \in [batch -> [Block -> Token]] :
        blk' = [r \in Req |->
                  IF r \notin batch THEN blk[r]
                  ELSE LET b == ForceCommit(Written(LastPass)[r], x[r])
                       IN [b EXCEPT !.res = b.ids]]
  BY Zenon DEF Finish
<1> DEFINE F(r) == ForceCommit(Written(LastPass)[r], x[r])
<1>3. \A r \in batch : blk'[r] = [F(r) EXCEPT !.res = F(r).ids]
  BY <1>1, <1>2, Zenon
<1>4. DOMAIN blk' = Req /\ \A r \in Req \ batch : blk'[r] = blk[r]
  BY <1>2, Zenon
<1>5. ASSUME NEW r \in batch
      PROVE  /\ IsBlock(F(r)) /\ F(r).kv = Written(LastPass)[r].kv
             /\ algorithm # "FastDiffuser" =>
                  F(r).ids = blk[r].ids /\ F(r).forced = FALSE
  <2>1. IsBlock(Written(LastPass)[r]) /\ Written(LastPass)[r].ids = blk[r].ids
    BY <1>1, WrittenFacts DEF RunInv
  <2>2. x[r] \in [Block -> Token]
    BY Zenon
  <2>3. PICK w, y, f : w = Written(LastPass)[r] /\ y = x[r] /\ f = ForceCommit(w, y)
    BY Zenon
  <2>4. /\ IsBlock(f) /\ f.kv = w.kv
        /\ algorithm # "FastDiffuser" => f.ids = w.ids /\ f.forced = FALSE
    <3>1. IsBlock(w) /\ y \in [Block -> Token] /\ f = ForceCommit(w, y)
      BY <2>1, <2>2, <2>3, Zenon
    <3>2. PICK left : left = IF algorithm = "FastDiffuser" THEN Unfrozen(w) ELSE {}
      BY Zenon
    <3>3. ForcedFrom(f, w, left, y)
      BY <3>1, <3>2, ForceFacts, Zenon
    <3>4. Put(w.ids, {}, y) = w.ids
      BY <3>1, Zenon DEF Put, IsBlock
    <3> QED BY <3>2, <3>3, <3>4, Zenon DEF ForcedFrom
  <2> QED BY <2>1, <2>3, <2>4, Zenon
<1> HIDE DEF F
<1>6. ASSUME NEW r \in batch
      PROVE  /\ IsBlock(blk'[r]) /\ blk'[r].res = blk'[r].ids
             /\ blk'[r].ids = F(r).ids /\ blk'[r].commit = F(r).commit
             /\ blk'[r].ctx = F(r).ctx /\ blk'[r].kv = F(r).kv
             /\ blk'[r].done = F(r).done /\ blk'[r].forced = F(r).forced
  <2>1. F(r).ids \in Seq(Token \cup {MASK})
    BY <1>5, BlockSeq, Zenon DEF IsBlock
  <2>2. PICK b : b = F(r)
    BY Zenon
  <2>3. PICK n : n = blk'[r]
    BY Zenon
  <2>4. n = [b EXCEPT !.res = b.ids] /\ IsBlock(b)
    BY <1>3, <1>5, <2>2, <2>3, Zenon
  <2>5. /\ IsBlock(n) /\ n.res = b.ids /\ n.ids = b.ids /\ n.commit = b.commit
        /\ n.ctx = b.ctx /\ n.kv = b.kv /\ n.done = b.done /\ n.forced = b.forced
    BY <2>1, <2>2, <2>4, Zenon DEF IsBlock
  <2> QED BY <2>2, <2>3, <2>5, Zenon
<1>7. BlocksInv'
  BY <1>1, <1>4, <1>6, BlocksPrimed, Zenon DEF RunInv, BlocksInv
<1>8. CASE algorithm = "FastDiffuser"
  <2>1. ASSUME NEW r \in batch
        PROVE  /\ Replays(F(r)) /\ EosClosed(F(r)) /\ Masks(F(r)) = {}
               /\ F(r).forced \/ F(r).kv = F(r).ids
               /\ EvenSchedule => ~F(r).forced
    <3>1. LastPass = batch /\ x[r] \in [Block -> Token]
      BY <1>8, Zenon DEF LastPass
    <3>2. PICK w, y, f : w = Written(batch)[r] /\ y = x[r] /\ f = ForceCommit(w, y)
      BY Zenon
    <3>3. /\ IsBlock(w) /\ w.ids = blk[r].ids /\ w.commit = blk[r].commit
          /\ w.ctx = blk[r].ctx /\ w.kv = w.ids
      BY <1>1, <3>2, WrittenFacts DEF RunInv
    <3>4. /\ Replays(f) /\ EosClosed(f) /\ Masks(f) = {}
          /\ f.forced \/ f.kv = f.ids
          /\ EvenSchedule => ~f.forced
      BY <1>1, <1>8, <3>1, <3>2, <3>3, FastFinished, Zenon
    <3> QED BY <3>1, <3>2, <3>4, Zenon DEF F
  <2>2. ASSUME NEW r \in batch
        PROVE  /\ Replays(blk'[r]) /\ EosClosed(blk'[r]) /\ Masks(blk'[r]) = {}
               /\ EvenSchedule => ~blk'[r].forced
    BY <1>6, <2>1, SameTokens, Zenon
  <2>3. FastInv'
    BY <1>1, <1>8, <2>2, FastPrimed, Zenon
  <2>4. ResultsInv' /\ JointInv' /\ SpecInv'
    BY <1>1, <1>6, <1>8, <2>1, Zenon DEF ResultsInv, JointInv, SpecInv
  <2> QED BY <1>7, <2>3, <2>4, Zenon DEF RunInv
<1>9. CASE algorithm # "FastDiffuser"
  <2>1. ASSUME NEW r \in batch PROVE Written(LastPass)[r].kv = blk[r].ids
    <3>1. Written(LastPass)[r].kv = IF r \in LastPass THEN blk[r].ids ELSE blk[r].kv
      BY <1>1, WrittenFacts DEF RunInv
    <3>2. CASE LastPass = batch
      BY <3>1, <3>2, Zenon
    <3>3. CASE algorithm = "JointThreshold" /\ ~changed
      <4>1. step # 0
        <5>1. Active = {} => step # 0
          BY <1>1, <3>3, Zenon DEF RunInv, JointInv, Active
        <5>2. Passes > 0 /\ Passes \in Nat
          BY <3>3, Setting, LimitsAssumption DEF Passes
        <5> QED BY <1>1, <5>1, <5>2
      <4>2. blk[r].kv = blk[r].ids
        BY <1>1, <3>3, <4>1, Zenon DEF RunInv, JointInv
      <4> QED BY <3>1, <4>2, Zenon
    <3> QED BY <3>2, <3>3, Zenon DEF LastPass
  <2>2. ResultsInv'
    <3>1. ASSUME NEW r \in batch
          PROVE  /\ blk'[r].res = blk'[r].ids /\ blk'[r].kv = blk'[r].ids
                 /\ blk'[r].forced = FALSE
      <4>1. /\ F(r).kv = Written(LastPass)[r].kv /\ F(r).ids = blk[r].ids
            /\ F(r).forced = FALSE
        BY <1>5, <1>9, Zenon
      <4>2. /\ blk'[r].res = blk'[r].ids /\ blk'[r].ids = F(r).ids
            /\ blk'[r].kv = F(r).kv /\ blk'[r].forced = F(r).forced
        BY <1>6, Zenon
      <4>3. Written(LastPass)[r].kv = blk[r].ids
        BY <2>1, Zenon
      <4> QED BY <4>1, <4>2, <4>3, Zenon
    <3> QED BY <1>1, <3>1, Zenon DEF ResultsInv, Iterative
  <2> QED BY <1>1, <1>7, <1>9, <2>2, Zenon
             DEF RunInv, JointInv, FastInv, SpecInv, Iterative
<1> QED BY <1>8, <1>9, Zenon
=============================================================================
