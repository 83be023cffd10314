------------------------ MODULE DllmAlgorithmsProofs ------------------------
(***************************************************************************)
(* The theorems of the decoding algorithms, from the inductive invariant   *)
(* of DllmAlgorithmsInv: for any block size, any number of requests, any   *)
(* parameters and any predictions of the model.                            *)
(***************************************************************************)
EXTENDS DllmVerifyProofs, FiniteSetTheorems

(* The library's facts *)

LEMMA LeastElement == LeastElements
<1> SUFFICES ASSUME NEW S \in SUBSET Nat, S # {}
             PROVE  Min(S) \in S /\ \A y \in S : Min(S) <= y
  BY Zenon DEF LeastElements
<1> DEFINE Less == {ss \in Nat \X Nat : ss[1] < ss[2]}
<1>1. IsWellFoundedOn(Less, Nat)
  BY NatLessThanWellFounded, Zenon DEF OpToRel
<1>2. PICK x \in S : \A y \in S : <<y, x>> \notin Less
  <2> HIDE DEF Less
  <2> QED BY <1>1, WFMin, Zenon
<1>3. ASSUME NEW y \in S PROVE x <= y
  <2>1. x \in Nat /\ y \in Nat /\ ~(y < x)
    BY <1>2, <1>3, Zenon
  <2> QED BY <2>1
<1> QED BY <1>3, Zenon DEF Min

LEMMA FullSubset == FullSubsets
<1> SUFFICES ASSUME NEW n \in Nat, NEW U \in SUBSET (1..n)
             PROVE  /\ Cardinality(U) \in Nat
                    /\ \A S \in SUBSET U : Cardinality(S) = Cardinality(U) => S = U
  BY Zenon DEF FullSubsets
<1>1. IsFiniteSet(1..n)
  BY FS_Interval
<1>2. IsFiniteSet(U)
  BY <1>1, FS_Subset, Zenon
<1>3. Cardinality(U) \in Nat
  BY <1>2, FS_CardinalityType, Zenon
<1> QED BY <1>2, <1>3, FS_Subset, Zenon

-----------------------------------------------------------------------------
(* Start and end of a batch *)

\* What a request of LinearSpec that goes on keeps of its block.
LEMMA ReturnKept ==
  ASSUME ControlInv, BlocksInv, ResultsInv, SpecInv, algorithm = "LinearSpec",
         pc = "return", NEW r \in batch, ~Ends(r), NEW o,
         o = out[r] \o Kept(blk[r].res)
  PROVE  /\ o \in Seq(Token) /\ Len(o) <= MaxNewTokens
         /\ args.causal_context => Seeded(r, o, seed[r])
<1> DEFINE t == blk[r].res
<1>1. /\ r \in Req /\ r \in live /\ todo = {}
  BY Zenon DEF ControlInv
<1>2. /\ out[r] \in Seq(Token)
      /\ args.causal_context => Seeded(r, out[r] \o t, seed[r])
  BY <1>1, Zenon DEF SpecInv, SeedsInv
<1>3. t \in Seq(Token)
  <2>1. t \in Seq(Token \cup {MASK}) /\ \A i \in 1..Len(t) : t[i] \in Token
    BY <1>1, Zenon DEF BlocksInv, IsBlock, ResultsInv
  <2>2. /\ Len(t) \in Nat /\ t = [i \in 1..Len(t) |-> t[i]]
    BY <2>1
  <2>3. t \in [1..Len(t) -> Token]
    BY <2>1, <2>2, Zenon
  <2> QED BY <2>2, <2>3
<1>4. ~(Len(out[r]) + Len(t) >= MaxNewTokens)
  BY Zenon DEF Ends
<1>5. o = out[r] \o t
  BY Zenon DEF Kept
<1> HIDE DEF t
<1>6. o \in Seq(Token) /\ Len(o) = Len(out[r]) + Len(t)
  BY <1>2, <1>3, <1>5
<1>7. Len(o) <= MaxNewTokens
  BY <1>2, <1>3, <1>4, <1>6, LimitsAssumption
<1> QED BY <1>2, <1>5, <1>6, <1>7, Zenon

LEMMA ReturnRun ==
  ASSUME ControlInv, RunInv, Return PROVE RunInv'
<1> DEFINE E == {r \in batch : Ends(r)}
<1>1. /\ args' = args /\ pc = "return" /\ pc' = "idle" /\ batch' = {}
      /\ blk' = [r \in Req |-> NewBlock] /\ algorithm' = algorithm /\ seed' = seed
      /\ live' = live \ E /\ todo' = todo /\ todo = {} /\ batch \subseteq live
      /\ live \subseteq Req
      /\ out' = [r \in Req |-> IF r \in E THEN << >>
                               ELSE out[r] \o Kept(blk[r].res)]
  BY Zenon DEF Return, Leave, ControlInv, algorithm
<1>2. SpecInv'
  <2>1. CASE algorithm = "LinearSpec"
    <3>1. SpecInv /\ BlocksInv /\ ResultsInv
      BY Zenon DEF RunInv
    <3>2. ASSUME NEW r \in Req \ batch PROVE out'[r] = out[r]
      <4>1. blk[r].res = << >>
        BY <3>1, NewBlockFacts, Zenon DEF BlocksInv
      <4>2. out[r] \in Seq(Token)
        BY <2>1, <3>1, Zenon DEF SpecInv
      <4>3. Kept(blk[r].res) = << >>
        BY <2>1, <4>1, Zenon DEF Kept
      <4>4. out'[r] = out[r] \o << >>
        BY <1>1, <4>3, Zenon DEF E
      <4> QED BY <4>2, <4>4
    <3>3. ASSUME NEW r \in E PROVE out'[r] = << >> /\ r \notin live'
      BY <1>1, <3>3, Zenon
    <3>4. ASSUME NEW r \in batch \ E
          PROVE  /\ out'[r] \in Seq(Token) /\ Len(out'[r]) <= MaxNewTokens
                 /\ args.causal_context => Seeded(r, out'[r], seed[r])
      BY <1>1, <2>1, <3>1, ReturnKept, Zenon DEF E
    <3>5. out' \in [Req -> Seq(Token)]
      <4>1. ASSUME NEW r \in Req PROVE out'[r] \in Seq(Token)
        <5>1. CASE r \in E
          <6>1. << >> \in Seq(Token)
            OBVIOUS
          <6> QED BY <3>3, <5>1, <6>1, Zenon
        <5>2. CASE r \in batch \ E
          BY <3>4, <5>2, Zenon
        <5>3. CASE r \in Req \ batch
          BY <2>1, <3>1, <3>2, <5>3, Zenon DEF SpecInv
        <5> QED BY <5>1, <5>2, <5>3, Zenon DEF E
      <4> QED BY <1>1, <4>1, Zenon
    <3>6. \A r \in Req \ live' : out'[r] = << >>
      BY <1>1, <2>1, <3>1, <3>2, <3>3, Zenon DEF SpecInv
    <3>7. ASSUME NEW r \in live'
          PROVE  /\ Len(out'[r]) <= MaxNewTokens
                 /\ args.causal_context => Seeded(r, out'[r], seed'[r])
      <4>1. CASE r \in batch
        BY <1>1, <3>4, <4>1, Zenon
      <4>2. CASE r \notin batch
        BY <1>1, <2>1, <3>1, <3>2, <4>2, Zenon DEF SpecInv, SeedsInv
      <4> QED BY <4>1, <4>2, Zenon
    <3>8. seed' \in [Req -> Token \cup {None}]
      BY <1>1, <2>1, <3>1, Zenon DEF SpecInv
    <3> HIDE DEF E
    <3> QED BY <1>1, <3>5, <3>6, <3>7, <3>8, SpecPrimed, Zenon
  <2> QED BY <1>1, <2>1, Zenon DEF SpecInv
<1> QED BY <1>1, <1>2, IdleRun, Zenon

\* A block starts as masks, with the seed of LinearSpec as its first token.
LEMMA StartBlockRun ==
  ASSUME ParamsInv, ControlInv, RunInv, NEW R \in SUBSET live, StartBlock(R)
  PROVE  RunInv'
<1>1. /\ args' = args /\ params' = params /\ pc = "idle" /\ pc' = First
      /\ batch = {} /\ batch' = R /\ R \subseteq Req
      /\ todo' = IF algorithm = "LinearSpec" THEN R ELSE {}
      /\ algorithm' = algorithm /\ step' = 0 /\ UNCHANGED <<live, out, seed>>
      /\ blk' = [r \in Req |->
                   IF r \in R /\ seed[r] # None
                     THEN [NewBlock EXCEPT !.ids[1] = seed[r]] ELSE NewBlock]
  BY Zenon DEF StartBlock, output, ControlInv, algorithm
<1>2. /\ algorithm # "LinearSpec" => \A r \in Req : blk'[r] = NewBlock
      /\ \A r \in Req \ R : blk'[r] = NewBlock
  BY <1>1, Zenon DEF ControlInv
<1>3. CASE algorithm # "LinearSpec"
  <2>1. BlocksInv'
    BY <1>1, <1>2, <1>3, NewBlockFacts, BlocksPrimed, Zenon
  <2>2. ResultsInv' /\ JointInv' /\ SpecInv'
    <3>1. \A r \in batch' : /\ blk'[r].kv = << >> /\ blk'[r].res = << >>
                            /\ blk'[r].done = FALSE /\ blk'[r].forced = FALSE
      BY <1>1, <1>2, <1>3, NewBlockFacts, Zenon
    <3>2. Len(<< >>) <= BlockSize /\ BlockSize' = BlockSize /\ pc' # "return"
      BY <1>1, Setting DEF First, BlockSize
    <3>3. ResultsInv'
      BY <1>1, <1>3, <3>1, <3>2, Zenon DEF ResultsInv
    <3>4. JointInv' /\ SpecInv'
      BY <1>1, <1>3, <3>1, Zenon DEF JointInv, SpecInv
    <3> QED BY <3>3, <3>4, Zenon
  <2>3. CASE algorithm = "FastDiffuser"
    <3>1. /\ Replays(NewBlock) /\ EosClosed(NewBlock)
          /\ ~NewBlock.done /\ ~NewBlock.forced
          /\ \A i \in Block : NewBlock.commit[i] < 0
      <4>1. PICK n : n = NewBlock
        BY Zenon
      <4>2. \A i \in Block : n.ids[i] = MASK /\ n.commit[i] = -1
        BY <4>1, NewBlockFacts, Zenon
      <4>3. Replays(n)
        BY <4>2 DEF Replays
      <4>4. EosClosed(n)
        BY <4>2, TokenAssumption, Zenon DEF EosClosed
      <4>5. \A i \in Block : n.commit[i] < 0
        BY <4>2
      <4>6. n.done = FALSE /\ n.forced = FALSE
        BY <4>1, NewBlockFacts, Zenon
      <4> QED BY <4>1, <4>3, <4>4, <4>5, <4>6, Zenon
    <3>2. pc' = "loop" /\ todo' = {} /\ (EvenSchedule => params.max_steps # 0)
      BY <1>1, <2>3, Zenon DEF First, EvenSchedule
    <3>3. \A r \in batch' : blk'[r] = NewBlock
      BY <1>1, <1>2, <1>3, Zenon
    <3> QED BY <1>1, <2>1, <2>2, <2>3, <3>1, <3>2, <3>3, FastPrimed, Zenon
               DEF RunInv
  <2> QED BY <1>1, <2>1, <2>2, <2>3, Zenon DEF RunInv, FastInv
<1>4. CASE algorithm = "LinearSpec"
  <2>1. pc' = "spec" /\ todo' = R /\ SpecInv
    BY <1>1, <1>4, Zenon DEF First, RunInv
  <2>2. /\ out \in [Req -> Seq(Token)] /\ seed \in [Req -> Token \cup {None}]
        /\ \A r \in Req \ live : out[r] = << >>
        /\ \A r \in live : Len(out[r]) <= MaxNewTokens
        /\ args.causal_context => \A r \in live : Seeded(r, out[r], seed[r])
    BY <1>1, <1>4, <2>1, Zenon DEF SpecInv, SeedsInv
  <2>3. ASSUME NEW r \in R
        PROVE  /\ IsBlock(blk'[r]) /\ blk'[r].forced = FALSE
               /\ seed[r] # None => blk'[r].ids[1] = seed[r]
    <3>1. CASE seed[r] = None
      BY <1>1, <3>1, NewBlockFacts, Zenon
    <3>2. CASE seed[r] # None
      <4>1. seed[r] \in Token /\ 1 \in Block
        <5>1. 1 \in Block
          BY Setting DEF Block
        <5> QED BY <1>1, <2>2, <3>2, <5>1, Zenon
      <4>2. blk'[r] = [NewBlock EXCEPT !.ids[1] = seed[r]]
        BY <1>1, <3>2, Zenon
      <4>3. PICK b, n : b = NewBlock /\ n = blk'[r]
        BY Zenon
      <4>4. IsBlock(b) /\ b.forced = FALSE /\ n = [b EXCEPT !.ids[1] = seed[r]]
        BY <4>2, <4>3, NewBlockFacts, Zenon
      <4>5. IsBlock(n) /\ n.ids[1] = seed[r] /\ n.forced = b.forced
        BY <4>1, <4>4, Zenon DEF IsBlock
      <4> QED BY <4>3, <4>4, <4>5, Zenon
    <3> QED BY <3>1, <3>2, Zenon
  <2>4. BlocksInv'
    BY <1>1, <1>2, <2>1, <2>3, NewBlockFacts, BlocksPrimed, Zenon
  <2>5. SpecInv'
    BY <1>1, <2>1, <2>2, <2>3, SpecPrimed, Zenon
  <2>6. ResultsInv' /\ JointInv' /\ FastInv'
    BY <1>1, <1>4, <2>1, <2>3, Zenon DEF ResultsInv, JointInv, FastInv
  <2> QED BY <2>4, <2>5, <2>6, Zenon DEF RunInv
<1> QED BY <1>3, <1>4, Zenon

-----------------------------------------------------------------------------
(* The invariant *)

LEMMA StutterRun ==
  ASSUME RunInv, UNCHANGED vars PROVE RunInv'
<1>1. UNCHANGED <<args, params, live, out, pc, step, todo, batch, blk, changed, seed>>
  BY Zenon DEF vars, output, loop
<1>2. algorithm' = algorithm /\ BlockSize' = BlockSize
  BY <1>1, Zenon DEF algorithm, BlockSize
<1>3. BlocksInv'
  BY <1>1, BlocksPrimed, Zenon DEF RunInv, BlocksInv
<1>4. ResultsInv' /\ JointInv'
  BY <1>1, <1>2 DEF RunInv, ResultsInv, JointInv
<1>5. FastInv'
  <2>1. CASE algorithm = "FastDiffuser"
    BY <1>1, <2>1, FastPrimed, Zenon DEF RunInv, FastInv
  <2> QED BY <1>2, <2>1, Zenon DEF FastInv
<1>6. SpecInv'
  <2>1. CASE algorithm = "LinearSpec"
    BY <1>1, <2>1, SpecPrimed, Zenon DEF RunInv, SpecInv, SeedsInv
  <2> QED BY <1>2, <2>1, Zenon DEF SpecInv
<1> QED BY <1>3, <1>4, <1>5, <1>6, Zenon DEF RunInv

LEMMA NextRun ==
  ASSUME LeastElements, FullSubsets,
         ParamsInv, ControlInv, RunInv, [Next]_vars
  PROVE  RunInv'
<1>1. CASE \E r \in Req : Place(r) \/ LinearSpecAccept(r) \/ TidarAccept(r)
  BY <1>1, PlaceRun, LinearSpecAcceptRun, TidarAcceptRun, Zenon
<1>2. CASE \E r \in Req : Prefill(r) \/ Abort(r)
  BY <1>2, PrefillRun, AbortRun, Zenon
<1>3. CASE \E R \in SUBSET live : StartBlock(R)
  BY <1>3, StartBlockRun, Zenon
<1>4. CASE \E o \in Overrides : reconfigure_dllm(o)
  BY <1>4, ReconfigureRun, Zenon
<1> QED BY <1>1, <1>2, <1>3, <1>4, ForwardRun, FinishRun, TidarRun, ReturnRun,
           StutterRun, Zenon DEF Next, Run

LEMMA InitInv == ASSUME Init PROVE AlgorithmsInv
<1>1. ControlInv
  BY Zenon DEF Init, ControlInv
<1>2. ParamsInv /\ UndoInv
  BY <1>1, Setting, Zenon
     DEF Init, ParamsInv, UndoInv, DefaultParams, Policies, Thresholds
<1>3. /\ pc = "idle" /\ batch = {} /\ live = {} /\ out = [r \in Req |-> << >>]
      /\ blk = [r \in Req |-> NewBlock] /\ seed = [r \in Req |-> None]
  BY Zenon DEF Init
<1>4. BlocksInv
  BY <1>3, <1>1, NewBlockFacts, Zenon DEF BlocksInv
<1>5. ResultsInv /\ JointInv /\ FastInv
  BY <1>3, Zenon DEF ResultsInv, JointInv, FastInv
<1>6. SpecInv
  <2>1. out \in [Req -> Seq(Token)]
    BY <1>3
  <2> QED BY <1>3, <2>1, Zenon DEF SpecInv, SeedsInv
<1> QED BY <1>1, <1>2, <1>4, <1>5, <1>6, Zenon DEF AlgorithmsInv, RunInv

\* What is known of every block at every point of run(), of the parameters and of
\* the answer to reconfigure_dllm is an invariant of every algorithm.
THEOREM AlgorithmsInvariant == Spec => []AlgorithmsInv
<1>1. Init => AlgorithmsInv
  BY InitInv, Zenon
<1>2. AlgorithmsInv /\ [Next]_vars => AlgorithmsInv'
  BY NextParams, NextControl, NextRun, LeastElement, FullSubset, Zenon
     DEF AlgorithmsInv
<1> QED BY <1>1, <1>2, PTL DEF Spec

-----------------------------------------------------------------------------
(* The properties *)

\* run() returns at most a block, and neither FastDiffuser nor LinearSpec ever
\* returns a mask.
THEOREM ResolvedOutput == Spec => []OutputResolved
<1>1. ASSUME AlgorithmsInv PROVE OutputResolved
  <2> SUFFICES ASSUME pc = "return", NEW r \in batch
               PROVE  /\ Len(blk[r].res) <= BlockSize
                      /\ algorithm \in {"FastDiffuser", "LinearSpec"} =>
                           MASK \notin Range(blk[r].res)
    BY Zenon DEF OutputResolved
  <2> USE <1>1 DEF AlgorithmsInv
  <2>1. /\ algorithm \in Algorithms /\ r \in Req /\ todo = {}
    BY Setting, Zenon DEF ControlInv
  <2>2. blk[r].ids \in [Block -> Token \cup {MASK}]
    BY <2>1, Zenon DEF RunInv, BlocksInv, IsBlock
  <2>3. CASE algorithm \in Iterative
    <3>1. blk[r].res = blk[r].ids
      BY <2>3, Zenon DEF RunInv, ResultsInv
    <3>2. Len(blk[r].ids) = BlockSize /\ blk[r].ids \in Seq(Token \cup {MASK})
      BY <2>2, BlockSeq, Zenon
    <3>3. ASSUME algorithm = "FastDiffuser" PROVE MASK \notin Range(blk[r].ids)
      <4>1. Masks(blk[r]) = {}
        BY <3>3, Zenon DEF RunInv, FastInv
      <4> QED BY <2>2, <4>1, Zenon DEF Masks, Range
    <3>4. Len(blk[r].res) <= BlockSize
      BY <3>1, <3>2, Setting
    <3> QED BY <2>3, <3>1, <3>3, <3>4, Zenon DEF Iterative
  <2>4. CASE algorithm = "LinearSpec"
    <3>1. /\ Len(blk[r].res) \in 1..BlockSize
          /\ \A i \in 1..Len(blk[r].res) : blk[r].res[i] \in Token
          /\ blk[r].res \in Seq(Token \cup {MASK})
      BY <2>1, <2>4, Zenon DEF RunInv, ResultsInv, BlocksInv, IsBlock
    <3>2. MASK \notin Token /\ DOMAIN blk[r].res = 1..Len(blk[r].res)
      BY <3>1, TokenAssumption DEF Token
    <3>3. MASK \notin Range(blk[r].res)
      BY <3>1, <3>2, Zenon DEF Range
    <3>4. Len(blk[r].res) <= BlockSize
      BY <3>1, Setting
    <3> QED BY <3>3, <3>4, Zenon
  <2>5. CASE algorithm = "TiDAR"
    BY <2>5, Zenon DEF RunInv, ResultsInv
  <2> QED BY <2>1, <2>3, <2>4, <2>5, Zenon DEF Algorithms, Iterative
<1> QED BY <1>1, AlgorithmsInvariant, PTL

\* The KV that run() leaves behind a request is that of the tokens it returns,
\* except where FastDiffuser force-committed after its last pass.
THEOREM KvOfOutput == Spec => []KvMatchesUnlessForced
<1>1. ASSUME AlgorithmsInv PROVE KvMatchesUnlessForced
  <2> SUFFICES ASSUME pc = "return", NEW r \in batch, ~blk[r].forced
               PROVE  SubSeq(blk[r].kv, 1, Len(blk[r].res)) = blk[r].res
    BY Zenon DEF KvMatchesUnlessForced
  <2> USE <1>1 DEF AlgorithmsInv
  <2>1. /\ algorithm \in Algorithms /\ r \in Req /\ todo = {}
    BY Setting, Zenon DEF ControlInv
  <2>2. /\ blk[r].ids \in Seq(Token \cup {MASK}) /\ Len(blk[r].ids) = BlockSize
        /\ blk[r].res \in Seq(Token \cup {MASK})
    BY <2>1, BlockSeq, Zenon DEF RunInv, BlocksInv, IsBlock
  <2>3. CASE algorithm \in Iterative \/ algorithm = "TiDAR"
    <3>1. blk[r].kv = blk[r].res
      BY <2>3, Zenon DEF RunInv, ResultsInv
    <3> QED BY <2>2, <3>1, WholeSubSeq, Zenon
  <2>4. CASE algorithm = "LinearSpec"
    <3>1. /\ blk[r].kv = blk[r].ids /\ Len(blk[r].res) \in 1..BlockSize
          /\ \A i \in 1..Len(blk[r].res) : blk[r].res[i] = blk[r].ids[i]
      BY <2>1, <2>4, Zenon DEF RunInv, ResultsInv
    <3>2. PICK s, t : s = blk[r].ids /\ t = blk[r].res
      BY Zenon
    <3>3. /\ s \in Seq(Token \cup {MASK}) /\ t \in Seq(Token \cup {MASK})
          /\ Len(t) <= Len(s) /\ \A i \in 1..Len(t) : t[i] = s[i]
      BY <2>2, <3>1, <3>2, Setting
    <3>4. SubSeq(s, 1, Len(t)) = t
      BY <3>3
    <3> QED BY <3>1, <3>2, <3>4, Zenon
  <2> QED BY <2>1, <2>3, <2>4, Zenon DEF Algorithms, Iterative
<1> QED BY <1>1, AlgorithmsInvariant, PTL

\* The reveal steps of FastDiffuser replay its trajectory, with EOS propagation
\* and the commit after the last pass included.  Under causal_context that commit
\* did not see the tokens at its right.
THEOREM ReplayedTrajectory == Spec => []TrajectoryReplays
<1>1. ASSUME AlgorithmsInv PROVE TrajectoryReplays
  <2> SUFFICES ASSUME pc = "return", algorithm = "FastDiffuser", NEW r \in batch,
                      NEW i \in Block, NEW j \in Block
               PROVE  blk[r].ctx[i][j] =
                        IF args.causal_context /\ blk[r].commit[i] = params.max_steps
                             /\ i < j
                          THEN None
                          ELSE IF blk[r].commit[j] < blk[r].commit[i]
                                 THEN blk[r].ids[j] ELSE MASK
    BY Zenon DEF TrajectoryReplays
  <2>1. Replays(blk[r]) /\ Masks(blk[r]) = {}
    BY <1>1, Zenon DEF AlgorithmsInv, RunInv, FastInv
  <2>2. PICK b, c : b = blk[r] /\ c = blk[r].commit[i]
    BY Zenon
  <2>3. c # -1
    BY <2>1, <2>2, Zenon DEF Replays, Masks
  <2>4. b.ctx[i] = Attended(Before(b, c), c)[i]
    BY <2>1, <2>2, <2>3, Zenon DEF Replays
  <2>5. b.ctx[i][j] = IF args.causal_context /\ c = params.max_steps /\ j > i
                        THEN None ELSE Before(b, c)[j]
    BY <2>4, Zenon DEF Attended
  <2>6. Before(b, c)[j] = IF b.commit[j] < c THEN b.ids[j] ELSE MASK
    BY Zenon DEF Before
  <2>7. i < j <=> j > i
    BY DEF Block
  <2> QED BY <2>2, <2>5, <2>6, <2>7, Zenon
<1> QED BY <1>1, AlgorithmsInvariant, PTL

\* The even schedule places every token within max_steps, also when EOS
\* propagation takes positions out of turn.
THEOREM EvenScheduleSuffices == Spec => []ScheduleSuffices
<1>1. ASSUME AlgorithmsInv PROVE ScheduleSuffices
  <2> SUFFICES ASSUME pc = "return", NEW r \in batch, blk[r].forced
               PROVE  \/ params.threshold # None
                      \/ params.selection_policy = "leftmost"
                      \/ params.max_steps = 0
    BY Zenon DEF ScheduleSuffices
  <2>1. algorithm = "FastDiffuser"
    BY <1>1, Zenon DEF AlgorithmsInv, RunInv, ResultsInv
  <2>2. ~EvenSchedule
    BY <1>1, <2>1, Zenon DEF AlgorithmsInv, RunInv, FastInv
  <2> QED BY <2>2, Zenon DEF EvenSchedule
<1> QED BY <1>1, AlgorithmsInvariant, PTL

\* What is the model's up to and with the first EOS is so up to there.
LEMMA GreedyCut ==
  ASSUME NEW r, NEW u \in Seq(Token), GreedyToEos(r, u), NEW t, CutOf(Token, u, t)
  PROVE  Follows(r, 0, t)
<1>1. /\ t \in Seq(Token) /\ Len(t) <= Len(u) /\ \A i \in 1..Len(t) : t[i] = u[i]
      /\ \A i \in 1..(Len(t) - 1) : u[i] # EOS
  BY Zenon DEF CutOf
<1>2. ASSUME NEW i \in 1..Len(t) PROVE t[i] = Greedy[r][0 + i]
  <2>1. /\ i \in 1..Len(u) /\ 0 + i = i
        /\ \A j \in 1..(i - 1) : j \in 1..(Len(t) - 1)
    BY <1>1
  <2>2. u[i] = Greedy[r][i]
    BY <1>1, <2>1, Zenon DEF GreedyToEos
  <2> QED BY <1>1, <2>1, <2>2, Zenon
<1> QED BY <1>2, Zenon DEF Follows

\* Under causal_context LinearSpec generates what the causal model alone would, from
\* the first block of a request to its first EOS, whatever the draft pass proposes.
THEOREM GreedyOutput == Spec => []OutputIsGreedy
<1>1. ASSUME AlgorithmsInv PROVE OutputIsGreedy
  <2> SUFFICES ASSUME pc = "return", algorithm = "LinearSpec", args.causal_context,
                      NEW r \in batch
               PROVE  /\ blk[r].res # << >>
                      /\ IsPrefix(CutAtEos(out[r] \o blk[r].res), Greedy[r])
    BY Zenon DEF OutputIsGreedy
  <2> USE <1>1 DEF AlgorithmsInv
  <2>1. r \in Req /\ r \in live /\ todo = {}
    BY Zenon DEF ControlInv
  <2>2. PICK s, t : s = out[r] /\ t = blk[r].res
    BY Zenon
  <2>3. /\ s \in Seq(Token) /\ Len(s) <= MaxNewTokens /\ GreedyToEos(r, s \o t)
    BY <2>1, <2>2, Zenon DEF RunInv, SpecInv, SeedsInv, Seeded
  <2>4. /\ t \in Seq(Token \cup {MASK}) /\ Len(t) \in 1..BlockSize
        /\ \A i \in 1..Len(t) : t[i] \in Token
    BY <2>1, <2>2, Zenon DEF RunInv, ResultsInv, BlocksInv, IsBlock
  <2>5. t \in Seq(Token)
    <3>1. t \in [1..Len(t) -> Token] /\ Len(t) \in Nat
      BY <2>4
    <3> QED BY <3>1
  <2>6. s \o t \in Seq(Token) /\ Len(s \o t) = Len(s) + Len(t)
    BY <2>3, <2>5, ConcatSeq, Zenon
  <2>7. PICK u, v : u = s \o t /\ v = CutAtEos(s \o t)
    BY Zenon
  <2>8. CutOf(Token, u, v)
    BY <2>6, <2>7, CutFacts, LeastElement, Zenon
  <2>9. Follows(r, 0, v)
    BY <2>3, <2>6, <2>7, <2>8, GreedyCut, Zenon
  <2>10. Greedy[r] \in Seq(Token) /\ Len(Greedy[r]) > MaxNewTokens + BlockSize
    BY <2>1, GreedyAssumption, Zenon DEF Token, ControlInv, BlockSize
  <2>11. v \in Seq(Token) /\ Len(v) <= Len(s) + Len(t)
    BY <2>6, <2>7, <2>8, Zenon DEF CutOf
  <2>12. Len(v) <= Len(Greedy[r])
    BY <2>3, <2>4, <2>10, <2>11, Setting, LimitsAssumption
  <2>13. IsPrefix(v, Greedy[r])
    BY <2>9, <2>10, <2>11, <2>12, FollowsPrefix, Zenon
  <2>14. t # << >>
    BY <2>4
  <2> QED BY <2>2, <2>7, <2>13, <2>14, Zenon
<1> QED BY <1>1, AlgorithmsInvariant, PTL

\* The answer to a reconfiguration, sent back, is accepted and restores the
\* parameters, whatever the override named and whether or not it was refused.
THEOREM PreviousRestored == Spec => []PreviousRestores
<1>1. ASSUME AlgorithmsInv PROVE PreviousRestores
  <2>1. ParamsInv /\ UndoInv
    BY <1>1, Zenon DEF AlgorithmsInv
  <2>2. ASSUME undo # None
        PROVE  ~Refused(undo.previous) /\ Updated(undo.previous) = undo.before
    <3>1. PICK D \in SUBSET DOMAIN params :
            /\ undo = [previous |-> Restrict(undo.before, D), before |-> undo.before]
            /\ undo.before = [f \in DOMAIN params |-> undo.before[f]]
            /\ \A f \in DOMAIN params \ D : params[f] = undo.before[f]
            /\ undo.before.selection_policy \in Policies
            /\ undo.before.selection_policy \in {"leftmost", "random"} =>
                 undo.before.threshold = None
      BY <2>1, <2>2, Zenon DEF UndoInv
    <3>2. PICK p, b : p = undo.previous /\ b = undo.before
      BY Zenon
    <3>3. p = [f \in D |-> b[f]]
      BY <3>1, <3>2 DEF Restrict
    <3>4. Updated(p) = b /\ Reconfigurable(p)
      BY <3>1, <3>2, <3>3, Zenon DEF Updated, Reconfigurable
    <3>5. ~Refused(p)
      BY <3>1, <3>2, <3>4, Zenon DEF Refused
    <3> QED BY <3>2, <3>4, <3>5, Zenon
  <2> QED BY <2>1, <2>2, Zenon DEF PreviousRestores, ParamsInv
<1> QED BY <1>1, AlgorithmsInvariant, PTL
=============================================================================
