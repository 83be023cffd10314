-------------------------- MODULE DllmVerifyProofs --------------------------
(***************************************************************************)
(* The steps of TiDAR and LinearSpec, which verify drafts, keep the        *)
(* inductive invariant of DllmAlgorithmsInv, and so do the steps between   *)
(* two batches.                                                            *)
(***************************************************************************)
EXTENDS DllmIterativeProofs

(* Between two batches *)

\* The causal model's own continuation is long enough for every output.
LEMMA GreedyToken ==
  ASSUME ControlInv, NEW r \in Req, NEW k \in 1..(MaxNewTokens + BlockSize + 1)
  PROVE  k <= Len(Greedy[r]) /\ Greedy[r][k] \in Token
<1>1. /\ Greedy[r] \in Seq(Token) /\ BlockSize \in Nat /\ MaxNewTokens \in Nat
      /\ Len(Greedy[r]) > MaxNewTokens + BlockSize
  BY Setting, GreedyAssumption, LimitsAssumption, Zenon
     DEF Token, ControlInv, BlockSize
<1>2. k \in 1..Len(Greedy[r])
  BY <1>1
<1> QED BY <1>1, <1>2

\* The requests of LinearSpec in the next state.
LEMMA SpecPrimed ==
  ASSUME args' = args, out' \in [Req -> Seq(Token)],
         seed' \in [Req -> Token \cup {None}],
         \A r \in Req \ live' : out'[r] = << >>,
         \A r \in live' : Len(out'[r]) <= MaxNewTokens,
         pc' = "spec" =>
           \A r \in todo' : seed'[r] # None => blk'[r].ids[1] = seed'[r],
         args.causal_context =>
           /\ \A r \in live' \ (batch' \ todo') : Seeded(r, out'[r], seed'[r])
           /\ \A r \in batch' \ todo' : Seeded(r, out'[r] \o blk'[r].res, seed'[r])
  PROVE  SpecInv'
<1>1. args.causal_context => SeedsInv'
  BY Zenon DEF SeedsInv, Seeded, GreedyToEos, Range
<1> QED BY <1>1, Zenon DEF SpecInv, Token

\* No block is decoded: only what LinearSpec remembers matters.
LEMMA IdleRun ==
  ASSUME ControlInv, args' = args, pc' \in {"idle", "raised"}, batch' = {},
         DOMAIN blk' = Req, \A r \in Req : blk'[r] = NewBlock, SpecInv'
  PROVE  RunInv'
<1>1. BlocksInv'
  BY NewBlockFacts, BlocksPrimed, Zenon
<1>2. ResultsInv' /\ JointInv' /\ FastInv'
  BY Zenon DEF ResultsInv, JointInv, FastInv
<1> QED BY <1>1, <1>2, Zenon DEF RunInv

LEMMA ReconfigureRun ==
  ASSUME ControlInv, RunInv, NEW o, reconfigure_dllm(o) PROVE RunInv'
<1>1. /\ args' = args /\ pc = "idle" /\ pc' \in {"idle", "raised"} /\ batch = {}
      /\ batch' = {} /\ blk' = blk /\ algorithm' = algorithm
      /\ UNCHANGED <<live, out, todo, seed>>
  BY Zenon DEF reconfigure_dllm, output, ControlInv, algorithm
<1>2. SpecInv'
  <2>1. CASE algorithm = "LinearSpec"
    BY <1>1, <2>1, SpecPrimed, Zenon DEF RunInv, SpecInv, SeedsInv
  <2> QED BY <1>1, <2>1, Zenon DEF SpecInv
<1> QED BY <1>1, <1>2, IdleRun, Zenon DEF RunInv, BlocksInv

LEMMA PrefillRun ==
  ASSUME ControlInv, RunInv, NEW r \in Req, Prefill(r) PROVE RunInv'
<1>1. /\ args' = args /\ pc = "idle" /\ pc' = "idle" /\ batch = {} /\ batch' = {}
      /\ todo' = todo /\ blk' = blk /\ algorithm' = algorithm /\ r \notin live
      /\ live' = live \cup {r} /\ out' = out
  BY Zenon DEF Prefill, loop, ControlInv, algorithm
<1>2. SpecInv'
  <2>1. CASE algorithm = "LinearSpec"
    <3>1. PICK t \in Token : seed' = [seed EXCEPT ![r] = AR(r, << >>, t)]
      BY <2>1, Zenon DEF Prefill
    <3>2. /\ out \in [Req -> Seq(Token)] /\ seed \in [Req -> Token \cup {None}]
          /\ \A q \in Req \ live : out[q] = << >>
          /\ \A q \in live : Len(out[q]) <= MaxNewTokens
          /\ args.causal_context => SeedsInv
      BY <2>1, Zenon DEF RunInv, SpecInv
    <3>3. Greedy[r] \in Seq(Token) /\ Greedy[r][1] \in Token /\ Len(Greedy[r]) >= 1
      <4>1. 1 \in 1..(MaxNewTokens + BlockSize + 1)
        BY Setting, LimitsAssumption
      <4> QED BY <4>1, GreedyToken, GreedyAssumption, Zenon DEF Token
    <3>4. IsPrefix(<< >>, Greedy[r]) /\ Len(<< >>) < Len(Greedy[r]) /\ Len(<< >>) + 1 = 1
      BY <3>3 DEF IsPrefix
    <3>5. /\ AR(r, << >>, t) \in Token
          /\ args.causal_context => AR(r, << >>, t) = Greedy[r][1]
      BY <3>3, <3>4, Zenon DEF AR
    <3>6. /\ seed' \in [Req -> Token \cup {None}] /\ seed'[r] = AR(r, << >>, t)
          /\ \A q \in Req \ {r} : seed'[q] = seed[q]
      BY <3>1, <3>2, <3>5, Zenon
    <3>7. /\ out[r] = << >> /\ Len(out[r]) <= MaxNewTokens
          /\ args.causal_context => Seeded(r, out[r], seed'[r])
      <4>1. out[r] = << >>
        BY <1>1, <3>2, Zenon
      <4>2. GreedyToEos(r, << >>) /\ Len(<< >>) <= MaxNewTokens
        BY LimitsAssumption DEF GreedyToEos
      <4> QED BY <3>4, <3>5, <3>6, <4>1, <4>2, Zenon DEF Seeded
    <3>8. args.causal_context => \A q \in live' : Seeded(q, out[q], seed'[q])
      BY <1>1, <3>2, <3>6, <3>7, Zenon DEF SeedsInv, ControlInv
    <3> QED BY <1>1, <3>2, <3>6, <3>7, <3>8, SpecPrimed, Zenon
  <2> QED BY <1>1, <2>1, Zenon DEF SpecInv
<1> QED BY <1>1, <1>2, IdleRun, Zenon DEF RunInv, BlocksInv

LEMMA AbortRun ==
  ASSUME ControlInv, RunInv, NEW r \in Req, Abort(r) PROVE RunInv'
<1>1. /\ args' = args /\ pc = "idle" /\ pc' = "idle" /\ batch = {} /\ batch' = {}
      /\ todo' = todo /\ blk' = blk /\ algorithm' = algorithm /\ seed' = seed
      /\ live' = live \ {r} /\ out' = [out EXCEPT ![r] = << >>]
  BY Zenon DEF Abort, Leave, loop, ControlInv, algorithm
<1>2. SpecInv'
  <2>1. CASE algorithm = "LinearSpec"
    <3>1. /\ out \in [Req -> Seq(Token)] /\ seed \in [Req -> Token \cup {None}]
          /\ \A q \in Req \ live : out[q] = << >>
          /\ \A q \in live : Len(out[q]) <= MaxNewTokens
          /\ args.causal_context => SeedsInv
      BY <2>1, Zenon DEF RunInv, SpecInv
    <3>2. out' \in [Req -> Seq(Token)] /\ \A q \in Req \ live' : out'[q] = << >>
      BY <1>1, <3>1
    <3>3. \A q \in live' : out'[q] = out[q] /\ q \in live
      BY <1>1, <3>1, Zenon DEF ControlInv
    <3> QED BY <1>1, <3>1, <3>2, <3>3, SpecPrimed, Zenon DEF SeedsInv
  <2> QED BY <1>1, <2>1, Zenon DEF SpecInv
<1> QED BY <1>1, <1>2, IdleRun, Zenon DEF RunInv, BlocksInv

-----------------------------------------------------------------------------
(* TiDAR *)

\* What is left of the sequence s up to and with its first EOS.
CutOf(T, s, t) ==
    /\ t \in Seq(T) /\ Len(t) <= Len(s)
    /\ s # << >> => Len(t) > 0
    /\ \A i \in 1..Len(t) : t[i] = s[i]
    /\ t = s \/ t[Len(t)] = EOS
    /\ \A i \in 1..(Len(t) - 1) : s[i] # EOS

LEMMA CutFacts ==
  ASSUME LeastElements, NEW T, NEW s \in Seq(T), NEW t, t = CutAtEos(s)
  PROVE  CutOf(T, s, t)
<1> DEFINE S == {i \in DOMAIN s : s[i] = EOS} \cup {Len(s)}
           k == Min(S)
<1>1. /\ S \in SUBSET Nat /\ S # {}
  OBVIOUS
<1>2. k \in S /\ k <= Len(s) /\ \A i \in S : k <= i
  BY <1>1, Zenon DEF LeastElements
<1>3. k \in 0..Len(s) /\ (s # << >> => k > 0) /\ (k = Len(s) \/ s[k] = EOS)
  BY <1>2
<1>4. ASSUME NEW i \in 1..(k - 1), s[i] = EOS PROVE FALSE
  <2>1. i \in DOMAIN s /\ ~(k <= i)
    BY <1>3, <1>4
  <2> QED BY <1>2, <1>4, <2>1, Zenon
<1>5. t = SubSeq(s, 1, k)
  BY Zenon DEF CutAtEos
<1> HIDE DEF k, S
<1>6. t \in Seq(T) /\ Len(t) = k /\ \A i \in 1..k : t[i] = s[i]
  BY <1>3, <1>5
<1>7. k = Len(s) => t = s
  BY <1>5
<1>8. s[k] = EOS /\ k # 0 => t[Len(t)] = EOS
  BY <1>3, <1>6
<1> QED BY <1>3, <1>4, <1>6, <1>7, <1>8 DEF CutOf

\* A step of TiDAR that leaves every block what it was for the requests.
LEMMA TidarKept ==
  ASSUME ControlInv, RunInv, algorithm = "TiDAR", args' = args, batch' = batch,
         DOMAIN blk' = Req, pc \in {"draft", "quad"},
         pc' \in {"quad", "verify", "return"},
         \A r \in Req : /\ IsBlock(blk'[r]) /\ blk'[r].kv = blk[r].kv
                        /\ blk'[r].res = blk[r].res
                        /\ blk'[r].forced = blk[r].forced
                        /\ r \notin batch => blk'[r] = blk[r]
  PROVE  RunInv'
<1>1. BlocksInv'
  BY BlocksPrimed, Zenon DEF RunInv, BlocksInv
<1>2. batch \subseteq Req /\ algorithm' = algorithm /\ BlockSize' = BlockSize
  BY Zenon DEF ControlInv, algorithm, BlockSize
<1>3. ResultsInv'
  BY <1>2, Zenon DEF RunInv, ResultsInv, Iterative
<1>4. JointInv' /\ FastInv' /\ SpecInv'
  BY <1>2, Zenon DEF JointInv, FastInv, SpecInv
<1> QED BY <1>1, <1>3, <1>4, Zenon DEF RunInv

LEMMA TidarRun ==
  ASSUME ControlInv, RunInv, TidarDraft \/ TidarPass \/ TidarDone PROVE RunInv'
<1>1. /\ args' = args /\ batch' = batch /\ pc \in {"draft", "quad"}
      /\ pc' \in {"quad", "verify", "return"}
      /\ algorithm = "TiDAR" /\ DOMAIN blk = Req
      /\ \A r \in Req : IsBlock(blk[r])
  BY Zenon DEF TidarDraft, TidarPass, TidarDone, ControlInv, RunInv, BlocksInv
<1>2. CASE blk' = blk
  BY <1>1, <1>2, TidarKept, Zenon
<1>3. CASE blk' # blk
  <2> DEFINE part(r) == SubSeq(Alloc(B * Cardinality(batch)),
                               B * (Places(batch)[r] - 1) + 1, B * Places(batch)[r])
  <2>1. blk' = [r \in Req |-> IF r \in batch THEN [blk[r] EXCEPT !.loc = part(r)]
                              ELSE blk[r]]
    BY <1>3, Zenon DEF TidarDraft, TidarPass, TidarDone
  <2> HIDE DEF part
  <2>2. ASSUME NEW r \in Req
        PROVE  /\ IsBlock(blk'[r]) /\ blk'[r].kv = blk[r].kv
               /\ blk'[r].res = blk[r].res /\ blk'[r].forced = blk[r].forced
               /\ (r \notin batch => blk'[r] = blk[r])
    <3>1. PICK b, n : b = blk[r] /\ n = blk'[r]
      BY Zenon
    <3>2. IsBlock(b) /\ (n = b \/ n = [b EXCEPT !.loc = part(r)])
      BY <1>1, <2>1, <3>1, Zenon
    <3>3. IsBlock(n) /\ n.kv = b.kv /\ n.res = b.res /\ n.forced = b.forced
      BY <3>2, Zenon DEF IsBlock
    <3> QED BY <2>1, <3>1, <3>3, Zenon
  <2>3. DOMAIN blk' = Req
    BY <2>1, Zenon
  <2> QED BY <1>1, <2>2, <2>3, TidarKept, Zenon
<1> QED BY <1>2, <1>3, Zenon

\* A pass never accepts more than the block has room for.
LEMMA AcceptedFacts ==
  ASSUME LeastElements,
         ControlInv, BlocksInv, ResultsInv, algorithm = "TiDAR", NEW r \in batch,
         NEW tokens \in Accepted(r)
  PROVE  /\ tokens \in Seq(Token \cup {MASK})
         /\ Len(blk[r].res) + Len(tokens) <= BlockSize
<1> DEFINE left == BlockSize - Len(blk[r].res)
<1>1. /\ blk[r].res \in Seq(Token \cup {MASK}) /\ Len(blk[r].res) <= BlockSize
      /\ BlockSize \in Nat
  BY Setting, Zenon DEF ControlInv, BlocksInv, IsBlock, ResultsInv
<1>2. CASE tokens = << >>
  BY <1>1, <1>2
<1>3. CASE tokens # << >>
  <2>1. PICK d \in [Block -> Token \cup {MASK}], n \in 1..left :
          tokens = CutAtEos(SubSeq(d, 1, n))
    BY <1>3 DEF Accepted
  <2>2. d \in Seq(Token \cup {MASK}) /\ Len(d) = BlockSize
    BY BlockSeq, Zenon
  <2>3. n \in Nat /\ n <= BlockSize /\ n + Len(blk[r].res) <= BlockSize
    BY <1>1
  <2>4. /\ SubSeq(d, 1, n) \in Seq(Token \cup {MASK}) /\ Len(SubSeq(d, 1, n)) = n
    BY <2>2, <2>3
  <2>5. tokens \in Seq(Token \cup {MASK}) /\ Len(tokens) <= n
    <3>1. PICK s : s = SubSeq(d, 1, n)
      BY Zenon
    <3>2. s \in Seq(Token \cup {MASK}) /\ Len(s) = n /\ tokens = CutAtEos(s)
      BY <2>1, <2>4, <3>1, Zenon
    <3>3. CutOf(Token \cup {MASK}, s, tokens)
      BY <3>2, CutFacts, Zenon
    <3> QED BY <3>2, <3>3, Zenon DEF CutOf
  <2> QED BY <1>1, <2>3, <2>5
<1> QED BY <1>2, <1>3, Zenon

LEMMA TidarAcceptRun ==
  ASSUME LeastElements,
         ControlInv, RunInv, NEW r \in Req, TidarAccept(r)
  PROVE  RunInv'
<1>1. /\ args' = args /\ batch' = batch /\ pc = "verify"
      /\ pc' \in {"quad", "verify"} /\ algorithm = "TiDAR" /\ r \in batch
      /\ batch \subseteq Req
  <2>1. /\ args' = args /\ batch' = batch /\ pc = "verify"
        /\ pc' \in {"quad", "verify"} /\ r = (CHOOSE q \in todo : TRUE)
    BY Zenon DEF TidarAccept
  <2>2. /\ algorithm = "TiDAR" /\ todo \subseteq batch /\ batch \subseteq Req
        /\ todo # {}
    BY <2>1, Zenon DEF ControlInv
  <2> QED BY <2>1, <2>2, Zenon
<1>2. PICK tokens \in Accepted(r) :
        blk' = [blk EXCEPT ![r].res = @ \o tokens, ![r].kv = @ \o tokens,
                           ![r].loc = << >>]
  BY Zenon DEF TidarAccept
<1>3. BlocksInv /\ ResultsInv
  BY Zenon DEF RunInv
<1>4. /\ tokens \in Seq(Token \cup {MASK})
      /\ Len(blk[r].res) + Len(tokens) <= BlockSize
  BY <1>1, <1>3, AcceptedFacts, Zenon
<1>5. /\ DOMAIN blk' = Req /\ \A q \in Req \ {r} : blk'[q] = blk[q]
  BY <1>2, <1>3, Zenon DEF BlocksInv
<1>6. /\ IsBlock(blk'[r]) /\ blk'[r].kv = blk'[r].res
      /\ Len(blk'[r].res) <= BlockSize /\ blk'[r].forced = blk[r].forced
  <2>1. PICK b, n : b = blk[r] /\ n = blk'[r]
    BY Zenon
  <2>2. /\ IsBlock(b) /\ b.kv = b.res
        /\ n = [b EXCEPT !.res = @ \o tokens, !.kv = @ \o tokens, !.loc = << >>]
    BY <1>1, <1>2, <1>3, <2>1, Zenon DEF BlocksInv, ResultsInv
  <2>3. b.res \in Seq(Token \cup {MASK})
    BY <2>2, Zenon DEF IsBlock
  <2>4. PICK t : t = b.res \o tokens
    BY Zenon
  <2>5. t \in Seq(Token \cup {MASK}) /\ Len(t) = Len(b.res) + Len(tokens)
    BY <1>4, <2>3, <2>4
  <2>6. n = [b EXCEPT !.res = t, !.kv = t, !.loc = << >>]
    BY <2>2, <2>4, Zenon DEF IsBlock
  <2>7. IsBlock(n) /\ n.kv = t /\ n.res = t /\ n.forced = b.forced
    BY <2>2, <2>5, <2>6, Zenon DEF IsBlock
  <2> QED BY <1>4, <2>1, <2>5, <2>7, Zenon
<1>7. BlocksInv'
  BY <1>1, <1>3, <1>5, <1>6, BlocksPrimed, Zenon DEF BlocksInv
<1>8. ResultsInv'
  <2>1. BlockSize' = BlockSize /\ algorithm' = algorithm
    BY <1>1, Zenon DEF BlockSize, algorithm
  <2> QED BY <1>1, <1>3, <1>5, <1>6, <2>1, Zenon DEF ResultsInv, Iterative
<1>9. JointInv' /\ FastInv' /\ SpecInv'
  BY <1>1, Zenon DEF JointInv, FastInv, SpecInv, algorithm
<1> QED BY <1>7, <1>8, <1>9, Zenon DEF RunInv

-----------------------------------------------------------------------------
(* LinearSpec *)

\* The tokens s are what the model generates behind its first n.
Follows(r, n, s) == \A i \in 1..Len(s) : s[i] = Greedy[r][n + i]

LEMMA FollowsConcat ==
  ASSUME NEW r, NEW s \in Seq(Token), NEW t \in Seq(Token), Follows(r, 0, s),
         Follows(r, Len(s), t)
  PROVE  Follows(r, 0, s \o t)
<1> SUFFICES ASSUME NEW i \in 1..Len(s \o t)
             PROVE  (s \o t)[i] = Greedy[r][0 + i]
  BY Zenon DEF Follows
<1>1. CASE i <= Len(s)
  BY <1>1 DEF Follows
<1>2. CASE i > Len(s)
  <2>1. i - Len(s) \in 1..Len(t) /\ (s \o t)[i] = t[i - Len(s)]
    BY <1>2
  <2>2. t[i - Len(s)] = Greedy[r][Len(s) + (i - Len(s))]
    BY <2>1, Zenon DEF Follows
  <2>3. Len(s) + (i - Len(s)) = 0 + i
    BY <1>2
  <2> QED BY <2>1, <2>2, <2>3, Zenon
<1> QED BY <1>1, <1>2

LEMMA FollowsPrefix ==
  ASSUME NEW r, NEW t \in Seq(Token), Follows(r, 0, t), Greedy[r] \in Seq(Token),
         Len(t) <= Len(Greedy[r])
  PROVE  IsPrefix(t, Greedy[r])
<1> DEFINE G == Greedy[r]
<1>1. \A i \in 1..Len(t) : t[i] = G[i]
  BY DEF Follows
<1>2. /\ SubSeq(t, 1, Len(t)) = [i \in 1..Len(t) |-> t[i]]
      /\ SubSeq(G, 1, Len(t)) = [i \in 1..Len(t) |-> G[i]]
  OBVIOUS
<1>3. SubSeq(t, 1, Len(t)) = SubSeq(G, 1, Len(t))
  BY <1>1, <1>2, Zenon
<1> QED BY <1>3 DEF IsPrefix

\* Until there is an EOS, the model's up to and with the first EOS is the model's.
LEMMA NoEosYet ==
  ASSUME NEW r, NEW s \in Seq(Token), EOS \notin Range(s)
  PROVE  GreedyToEos(r, s) <=> Follows(r, 0, s)
<1>1. \A i \in 1..Len(s) : s[i] # EOS
  BY DEF Range
<1>2. \A i \in 1..Len(s) : \A j \in 1..(i - 1) : s[j] # EOS
  BY <1>1
<1>3. \A i \in 1..Len(s) : Greedy[r][0 + i] = Greedy[r][i]
  OBVIOUS
<1> QED BY <1>2, <1>3, Zenon DEF GreedyToEos, Follows

\* What follows the model's tokens is the model's up to and with the first EOS.
LEMMA FollowsToEos ==
  ASSUME NEW r, NEW s \in Seq(Token), Follows(r, 0, s) PROVE GreedyToEos(r, s)
BY DEF Follows, GreedyToEos

\* Behind an EOS anything may come.
LEMMA BehindEos ==
  ASSUME NEW r, NEW s \in Seq(Token), NEW t \in Seq(Token), EOS \in Range(s),
         GreedyToEos(r, s)
  PROVE  GreedyToEos(r, s \o t) /\ EOS \in Range(s \o t)
<1>1. PICK e \in 1..Len(s) : s[e] = EOS
  BY DEF Range
<1>2. PICK u : u = s \o t
  BY Zenon
<1>3. /\ u \in Seq(Token) /\ Len(u) = Len(s) + Len(t)
      /\ \A i \in 1..Len(s) : i \in 1..Len(u) /\ u[i] = s[i]
  BY <1>2
<1>4. ASSUME NEW i \in 1..Len(u), \A j \in 1..(i - 1) : u[j] # EOS
      PROVE  u[i] = Greedy[r][i]
  <2>1. ~(e \in 1..(i - 1))
    BY <1>1, <1>3, <1>4, Zenon
  <2>2. i \in 1..Len(s)
    BY <1>1, <1>3, <1>4, <2>1
  <2>3. \A j \in 1..(i - 1) : j \in 1..Len(s)
    BY <2>2
  <2>4. \A j \in 1..(i - 1) : s[j] # EOS
    BY <1>3, <1>4, <2>3, Zenon
  <2> QED BY <1>3, <2>2, <2>4, Zenon DEF GreedyToEos
<1>5. GreedyToEos(r, u)
  BY <1>4, Zenon DEF GreedyToEos
<1>6. DOMAIN u = 1..Len(u)
  BY <1>3
<1>7. EOS \in Range(u)
  BY <1>1, <1>3, <1>6, Zenon DEF Range
<1> QED BY <1>2, <1>5, <1>7, Zenon

\* The first k tokens of ids are what the model generates behind n tokens.
Own(r, n, ids, k) == \A j \in 1..k : ids[j] = Greedy[r][n + j]

\* So are they behind the output s, which is the model's own.
OwnDraft(r, s, ids, k) ==
    /\ s \in Seq(Token) /\ Len(s) <= MaxNewTokens /\ Follows(r, 0, s)
    /\ ids \in [Block -> Token] /\ k \in Block /\ Own(r, Len(s), ids, k)

\* The token x is what the model generates behind n tokens.
OwnNext(r, n, x) == x = Greedy[r][n + 1]

\* The model's token behind a draft that is its own so far.
LEMMA ARFacts ==
  ASSUME ControlInv, args.causal_context, NEW r \in Req, NEW s, NEW ids, NEW k,
         OwnDraft(r, s, ids, k), NEW other
  PROVE  OwnNext(r, Len(s) + k, AR(r, s \o SubSeq(ids, 1, k), other))
<1>1. /\ s \in Seq(Token) /\ Len(s) <= MaxNewTokens /\ Follows(r, 0, s)
      /\ ids \in [Block -> Token] /\ k \in Block /\ Own(r, Len(s), ids, k)
  BY Zenon DEF OwnDraft
<1>2. /\ Greedy[r] \in Seq(Token) /\ BlockSize \in Nat /\ MaxNewTokens \in Nat
      /\ Len(Greedy[r]) > MaxNewTokens + BlockSize
  BY Setting, GreedyAssumption, LimitsAssumption, Zenon
     DEF Token, ControlInv, BlockSize
<1>3. k \in 1..BlockSize /\ k \in Nat
  BY <1>2, <1>1 DEF Block
<1>4. ids \in Seq(Token) /\ Len(ids) = BlockSize
  BY <1>1, BlockSeq, Zenon
<1>5. PICK f : f = SubSeq(ids, 1, k)
  BY Zenon
<1>6. f \in Seq(Token) /\ Len(f) = k /\ \A j \in 1..k : f[j] = ids[j]
  BY <1>3, <1>4, <1>5
<1>7. Follows(r, Len(s), f)
  BY <1>6, <1>1, Zenon DEF Follows, Own
<1>8. PICK t : t = s \o f
  BY Zenon
<1>9. t \in Seq(Token) /\ Len(t) = Len(s) + k
  BY <1>6, <1>8, <1>1, ConcatSeq, Zenon
<1>10. Follows(r, 0, t)
  BY <1>6, <1>7, <1>8, <1>1, FollowsConcat, Zenon
<1>11. Len(t) < Len(Greedy[r])
  BY <1>2, <1>3, <1>9, <1>1
<1>12. IsPrefix(t, Greedy[r])
  BY <1>2, <1>9, <1>10, <1>11, FollowsPrefix
<1>13. AR(r, t, other) = Greedy[r][Len(t) + 1]
  BY <1>11, <1>12, Zenon DEF AR
<1> QED BY <1>5, <1>8, <1>9, <1>13, Zenon DEF OwnNext

-----------------------------------------------------------------------------
(* What LinearSpec accepts *)

\* The draft ids, the predictions ar behind its positions, and how many of its
\* tokens behind the first agree with them.
Checked(ids, ar, c) ==
    /\ ids \in [Block -> Token] /\ ar \in [Block -> Token]
    /\ c \in 0..(BlockSize - 1) /\ \A i \in 1..c : ids[i + 1] = ar[i]

\* The predictions are tokens.
LEMMA PredictionTokens ==
  ASSUME ControlInv, NEW r \in Req, out[r] \in Seq(Token), NEW ids \in [Block -> Token],
         NEW ar \in Predictions(r, ids)
  PROVE  ar \in [Block -> Token]
<1>1. Greedy[r] \in Seq(Token)
  BY GreedyAssumption, Zenon DEF Token
<1>2. ASSUME NEW q \in Seq(Token), NEW t \in Token PROVE AR(r, q, t) \in Token
  <2>1. CASE IsPrefix(q, Greedy[r]) /\ Len(q) < Len(Greedy[r])
    <3>1. Len(q) + 1 \in 1..Len(Greedy[r])
      BY <1>1, <2>1
    <3> QED BY <1>1, <2>1, <3>1 DEF AR
  <2>2. CASE ~(IsPrefix(q, Greedy[r]) /\ Len(q) < Len(Greedy[r]))
    BY <2>2, Zenon DEF AR
  <2> QED BY <2>1, <2>2, Zenon
<1>3. ASSUME NEW i \in Block PROVE out[r] \o SubSeq(ids, 1, i) \in Seq(Token)
  <2>1. ids \in Seq(Token) /\ Len(ids) = BlockSize /\ BlockSize \in Nat
    BY BlockSeq, Setting, Zenon
  <2>2. SubSeq(ids, 1, i) \in Seq(Token)
    BY <2>1 DEF Block
  <2> QED BY <2>2
<1>4. PICK other \in [Block -> Token] :
        ar = [i \in Block |-> AR(r, out[r] \o SubSeq(ids, 1, i), other[i])]
  BY Zenon DEF Predictions
<1>5. ASSUME NEW i \in Block
      PROVE  AR(r, out[r] \o SubSeq(ids, 1, i), other[i]) \in Token
  BY <1>2, <1>3, Zenon
<1> QED BY <1>4, <1>5, Zenon

LEMMA MatchesFacts ==
  ASSUME LeastElements, ControlInv, NEW ids \in [Block -> Token],
         NEW ar \in [Block -> Token], NEW c, c = Matches(ids, ar)
  PROVE  Checked(ids, ar, c)
<1> DEFINE S == {n \in 0..(BlockSize - 1) : \A i \in 1..n : ids[i + 1] = ar[i]}
<1>1. S \in SUBSET (0..(BlockSize - 1)) /\ 0 \in S /\ BlockSize - 1 \in Nat
  BY Setting
<1>2. c = Max(S)
  BY Zenon DEF Matches
<1> HIDE DEF S
<1>3. c \in S
  BY <1>1, <1>2, MaxNat, Zenon
<1> QED BY <1>3, Zenon DEF S, Checked

LEMMA Successors ==
  ASSUME NEW m \in Nat, NEW c \in Nat PROVE m + (c + 1) + 1 = m + c + 2
OBVIOUS

\* ar is predicted behind the context s and the positions of ids.
Predicts(r, s, ids, ar) ==
    \E other \in [Block -> Token] :
      ar = [i \in Block |-> AR(r, s \o SubSeq(ids, 1, i), other[i])]

\* The first c + 1 tokens of a block, and the prediction behind them, are what the
\* model generates behind n tokens.
Agrees(r, n, ids, ar, c) ==
    /\ Own(r, n, ids, c + 1)
    /\ ar[c + 1] = Greedy[r][n + c + 2]

\* Behind the seed, the tokens that agree with the model's are the ones that it
\* would have generated, and so is the next seed.
LEMMA SpecTokens ==
  ASSUME LeastElements, ControlInv, args.causal_context, NEW r \in Req,
         NEW s \in Seq(Token), Len(s) <= MaxNewTokens, Follows(r, 0, s),
         NEW ids, NEW ar, Predicts(r, s, ids, ar), NEW c, Checked(ids, ar, c),
         ids[1] = Greedy[r][Len(s) + 1]
  PROVE  Agrees(r, Len(s), ids, ar, c)
<1>1. BlockSize \in Nat /\ BlockSize > 0
  BY Setting
<1>2. /\ c \in 0..(BlockSize - 1) /\ \A i \in 1..c : ids[i + 1] = ar[i]
      /\ ids \in [Block -> Token]
  BY Zenon DEF Checked
<1>3. ASSUME NEW k \in 1..(c + 1),
             Own(r, Len(s), ids, k)
      PROVE  ar[k] = Greedy[r][Len(s) + k + 1]
  <2>1. k \in Block
    BY <1>1, <1>2 DEF Block
  <2>2. PICK other \in [Block -> Token] :
          ar = [i \in Block |-> AR(r, s \o SubSeq(ids, 1, i), other[i])]
    BY Zenon DEF Predicts
  <2>3. PICK y : y = other[k]
    BY Zenon
  <2>4. ar[k] = AR(r, s \o SubSeq(ids, 1, k), y)
    BY <2>1, <2>2, <2>3, Zenon
  <2>5. OwnNext(r, Len(s) + k, AR(r, s \o SubSeq(ids, 1, k), y))
    <3>1. OwnDraft(r, s, ids, k)
      BY <1>2, <1>3, <2>1, Zenon DEF OwnDraft
    <3> QED BY <3>1, ARFacts, Zenon
  <2> QED BY <2>4, <2>5, Zenon DEF OwnNext
<1>4. ASSUME NEW k \in 1..(c + 1), ids[k] # Greedy[r][Len(s) + k] PROVE FALSE
  <2> DEFINE S == {j \in 1..(c + 1) : ids[j] # Greedy[r][Len(s) + j]}
             m == Min(S)
  <2>1. S \in SUBSET Nat /\ S # {}
    <3>1. 1..(c + 1) \subseteq Nat
      BY <1>2
    <3> QED BY <1>4, <3>1, Zenon
  <2>2. m \in S /\ \A j \in S : m <= j
    BY <2>1, Zenon DEF LeastElements
  <2> HIDE DEF m
  <2>3. m \in 1..(c + 1) /\ m # 1 /\ ids[m] # Greedy[r][Len(s) + m]
    BY <2>2, Zenon
  <2>4. m - 1 \in 1..c /\ m - 1 \in 1..(c + 1) /\ (m - 1) + 1 = m
    BY <1>2, <2>3
  <2>5. Own(r, Len(s), ids, m - 1)
    <3>1. ASSUME NEW j \in 1..(m - 1) PROVE j \notin S /\ j \in 1..(c + 1)
      BY <1>2, <2>2, <2>3
    <3> QED BY <3>1, Zenon DEF Own
  <2>6. ar[m - 1] = Greedy[r][Len(s) + (m - 1) + 1]
    BY <1>3, <2>4, <2>5, Zenon
  <2>7. Len(s) + (m - 1) + 1 = Len(s) + m
    BY <2>3, <1>2
  <2>8. ids[m] = ar[m - 1]
    BY <1>2, <2>4, Zenon
  <2> QED BY <2>3, <2>6, <2>7, <2>8, Zenon
<1>5. ar[c + 1] = Greedy[r][Len(s) + (c + 1) + 1]
  <2>1. c + 1 \in 1..(c + 1)
    BY <1>2
  <2>2. Own(r, Len(s), ids, c + 1)
    BY <1>4, Zenon DEF Own
  <2> QED BY <1>3, <2>1, <2>2, Zenon
<1>6. Len(s) \in Nat /\ c \in Nat
  BY <1>1, <1>2
<1>7. Len(s) + (c + 1) + 1 = Len(s) + c + 2
  BY <1>6, Successors, Zenon
<1> QED BY <1>4, <1>5, <1>7, Zenon DEF Agrees, Own

\* The tokens of the block that LinearSpec accepts.
Agreed(ids, ar, c) == <<ids[1]>> \o SubSeq(ar, 1, c)

\* They are tokens of the draft, from its first on, and all that agree without EOS.
Accepts(ids, ar, c, t) ==
    /\ t \in Seq(Token) /\ Len(t) \in 1..BlockSize /\ Len(t) \in 1..(c + 1)
    /\ \A i \in 1..Len(t) : t[i] = ids[i]
    /\ NextSeed(ar, c) \in Token
    /\ EOS \notin Range(t) => t[Len(t)] # EOS /\ Len(t) = c + 1

LEMMA AcceptedTokens ==
  ASSUME LeastElements, ControlInv, NEW ids, NEW ar, NEW c, Checked(ids, ar, c),
         NEW t, t = CutAtEos(Agreed(ids, ar, c))
  PROVE  Accepts(ids, ar, c, t)
<1>1. /\ BlockSize \in Nat /\ BlockSize > 0 /\ c \in 0..(BlockSize - 1)
      /\ ids \in [Block -> Token] /\ ar \in [Block -> Token]
      /\ \A i \in 1..c : ids[i + 1] = ar[i]
  BY Setting DEF Checked
<1>2. ids[1] \in Token /\ c + 1 \in Block
  BY <1>1 DEF Block
<1>3. PICK a, u : a = SubSeq(ar, 1, c) /\ u = Agreed(ids, ar, c)
  BY Zenon
<1>4. a \in Seq(Token) /\ Len(a) = c /\ \A i \in 1..c : a[i] = ar[i]
  <2>1. ar \in Seq(Token) /\ Len(ar) = BlockSize
    BY <1>1, BlockSeq, Zenon
  <2> QED BY <1>1, <1>3, <2>1
<1>5. /\ u \in Seq(Token) /\ Len(u) = c + 1 /\ u[1] = ids[1] /\ u # << >>
      /\ \A i \in 1..c : u[i + 1] = a[i]
  BY <1>1, <1>2, <1>3, <1>4 DEF Agreed
<1>6. ASSUME NEW k \in 1..(c + 1) PROVE u[k] = ids[k]
  <2>1. k = 1 \/ (k - 1 \in 1..c /\ (k - 1) + 1 = k)
    BY <1>1
  <2>2. CASE k - 1 \in 1..c /\ (k - 1) + 1 = k
    <3>1. ids[(k - 1) + 1] = ar[k - 1] /\ u[(k - 1) + 1] = a[k - 1]
      BY <1>1, <1>5, <2>2, Zenon
    <3>2. a[k - 1] = ar[k - 1]
      BY <1>4, <2>2, Zenon
    <3> QED BY <2>2, <3>1, <3>2, Zenon
  <2> QED BY <1>5, <2>1, <2>2, Zenon
<1>7. /\ t \in Seq(Token) /\ Len(t) <= Len(u) /\ Len(t) > 0
      /\ \A i \in 1..Len(t) : t[i] = u[i]
      /\ t = u \/ t[Len(t)] = EOS
  <2>1. t = CutAtEos(u)
    BY <1>3, Zenon
  <2>2. CutOf(Token, u, t)
    BY <1>5, <2>1, CutFacts, Zenon
  <2> QED BY <1>5, <2>2, Zenon DEF CutOf
<1>8. /\ Len(t) \in 1..BlockSize /\ Len(t) \in 1..(c + 1)
      /\ \A i \in 1..Len(t) : i \in 1..(c + 1)
  <2>1. Len(t) \in Nat /\ Len(t) > 0 /\ Len(t) <= c + 1
    BY <1>5, <1>7
  <2> QED BY <1>1, <2>1
<1>9. \A i \in 1..Len(t) : t[i] = ids[i]
  BY <1>6, <1>7, <1>8, Zenon
<1>10. NextSeed(ar, c) \in Token
  BY <1>1, <1>2, Zenon DEF NextSeed
<1>11. t[Len(t)] \in Range(t)
  <2>1. DOMAIN t = 1..Len(t) /\ Len(t) \in 1..Len(t)
    BY <1>7
  <2> QED BY <2>1, Zenon DEF Range
<1> QED BY <1>5, <1>7, <1>8, <1>9, <1>10, <1>11, Zenon DEF Accepts

\* Behind the output s and the seed y, the tokens t of the draft ids are accepted and
\* n is the seed of the next block.
Verified(r, s, y, ids, ar, c, t, n) ==
    /\ s \in Seq(Token) /\ Len(s) <= MaxNewTokens /\ Seeded(r, s, y)
    /\ y # None => ids[1] = y
    /\ Predicts(r, s, ids, ar) /\ Checked(ids, ar, c) /\ Accepts(ids, ar, c, t)
    /\ n = IF t[Len(t)] = EOS THEN None ELSE NextSeed(ar, c)

\* The output with what is accepted behind it is the model's, and so is the seed.
LEMMA SpecSeeded ==
  ASSUME LeastElements, ControlInv, args.causal_context, NEW r \in Req, NEW s,
         NEW y, NEW ids, NEW ar, NEW c, NEW t, NEW n,
         Verified(r, s, y, ids, ar, c, t, n)
  PROVE  Seeded(r, s \o t, n)
<1> SUFFICES ASSUME s \in Seq(Token), Len(s) <= MaxNewTokens, Seeded(r, s, y),
                    y # None => ids[1] = y,
                    Predicts(r, s, ids, ar), Checked(ids, ar, c),
                    Accepts(ids, ar, c, t),
                    n = IF t[Len(t)] = EOS THEN None ELSE NextSeed(ar, c)
             PROVE  Seeded(r, s \o t, n)
  BY Zenon DEF Verified
<1>1. /\ t \in Seq(Token) /\ Len(t) \in 1..(c + 1)
      /\ \A i \in 1..Len(t) : t[i] = ids[i]
      /\ EOS \notin Range(t) => t[Len(t)] # EOS /\ Len(t) = c + 1
  BY Zenon DEF Accepts
<1>2. CASE EOS \in Range(s)
  BY <1>1, <1>2, BehindEos, Zenon DEF Seeded
<1>3. CASE EOS \notin Range(s)
  <2>1. Follows(r, 0, s) /\ y = Greedy[r][Len(s) + 1]
    BY <1>3, NoEosYet, Zenon DEF Seeded
  <2>2. ids[1] = Greedy[r][Len(s) + 1]
    <3>1. Len(s) + 1 \in 1..(MaxNewTokens + BlockSize + 1)
      BY Setting, LimitsAssumption
    <3>2. Greedy[r][Len(s) + 1] \in Token
      BY <3>1, GreedyToken, Zenon
    <3> QED BY <2>1, <3>2, TokenAssumption, Zenon DEF Token
  <2>3. /\ \A k \in 1..(c + 1) : ids[k] = Greedy[r][Len(s) + k]
        /\ ar[c + 1] = Greedy[r][Len(s) + c + 2]
    <3>1. Agrees(r, Len(s), ids, ar, c)
      BY <2>1, <2>2, SpecTokens, Zenon
    <3> QED BY <3>1, Zenon DEF Agrees, Own
  <2>4. c \in Nat
    BY Setting DEF Checked
  <2>5. \A i \in 1..Len(t) : i \in 1..(c + 1)
    BY <1>1, <2>4
  <2>6. Follows(r, Len(s), t)
    BY <1>1, <2>3, <2>5, Zenon DEF Follows
  <2>7. PICK u : u = s \o t
    BY Zenon
  <2>8. u \in Seq(Token) /\ Len(u) = Len(s) + Len(t)
    BY <1>1, <2>7, ConcatSeq, Zenon
  <2>9. GreedyToEos(r, u)
    BY <1>1, <2>1, <2>6, <2>7, <2>8, FollowsConcat, FollowsToEos, Zenon
  <2>10. ASSUME EOS \notin Range(u) PROVE n = Greedy[r][Len(u) + 1]
    <3>1. \A i \in 1..Len(u) : u[i] # EOS
      BY <2>8, <2>10 DEF Range
    <3>2. \A i \in 1..Len(t) : t[i] # EOS
      <4>1. ASSUME NEW i \in 1..Len(t)
            PROVE  Len(s) + i \in 1..Len(u) /\ u[Len(s) + i] = t[i]
        BY <1>1, <2>7, <2>8
      <4> QED BY <3>1, <4>1, Zenon
    <3>3. EOS \notin Range(t)
      BY <1>1, <3>2 DEF Range
    <3>4. n = ar[c + 1] /\ Len(t) = c + 1
      BY <1>1, <3>3, Zenon DEF NextSeed
    <3>5. Len(u) + 1 = Len(s) + c + 2
      <4>1. Len(s) \in Nat
        OBVIOUS
      <4>2. Len(u) = Len(s) + (c + 1)
        BY <2>8, <3>4, Zenon
      <4>3. Len(s) + (c + 1) + 1 = Len(s) + c + 2
        BY <2>4, <4>1, Successors, Zenon
      <4> QED BY <4>2, <4>3, Zenon
    <3> QED BY <2>3, <3>4, <3>5, Zenon
  <2> QED BY <2>7, <2>9, <2>10, Zenon DEF Seeded
<1> QED BY <1>2, <1>3, Zenon

LEMMA LinearSpecAcceptRun ==
  ASSUME LeastElements,
         ControlInv, RunInv, NEW r \in Req, LinearSpecAccept(r)
  PROVE  RunInv'
<1>1. /\ args' = args /\ batch' = batch /\ pc = "spec"
      /\ pc' \in {"return", "spec"} /\ algorithm = "LinearSpec" /\ r \in todo
      /\ todo' = todo \ {r} /\ todo \subseteq batch /\ batch \subseteq live
      /\ live \subseteq Req /\ live' = live /\ out' = out /\ algorithm' = algorithm
      /\ BlockSize' = BlockSize
  <2>1. /\ args' = args /\ batch' = batch /\ pc = "spec"
        /\ pc' \in {"return", "spec"} /\ r = (CHOOSE q \in todo : TRUE)
        /\ todo' = todo \ {r} /\ live' = live /\ out' = out
    BY Zenon DEF LinearSpecAccept, output
  <2>2. /\ algorithm = "LinearSpec" /\ todo \subseteq batch /\ batch \subseteq live
        /\ live \subseteq Req /\ todo # {}
    BY <2>1, Zenon DEF ControlInv
  <2> QED BY <2>1, <2>2, Zenon DEF algorithm, BlockSize
<1>2. BlocksInv /\ ResultsInv /\ SpecInv
  BY Zenon DEF RunInv
<1>3. PICK ids \in Drafts(blk[r]) : \E ar \in Predictions(r, ids) :
        LET c == Matches(ids, ar)
            tokens == CutAtEos(<<ids[1]>> \o SubSeq(ar, 1, c))
        IN /\ blk' = [blk EXCEPT ![r].ids = ids, ![r].kv = ids, ![r].res = tokens]
           /\ seed' = [seed EXCEPT ![r] = IF tokens[Len(tokens)] = EOS THEN None
                                         ELSE NextSeed(ar, c)]
  BY Zenon DEF LinearSpecAccept
<1>4. PICK ar \in Predictions(r, ids) :
        LET c == Matches(ids, ar)
            tokens == CutAtEos(<<ids[1]>> \o SubSeq(ar, 1, c))
        IN /\ blk' = [blk EXCEPT ![r].ids = ids, ![r].kv = ids, ![r].res = tokens]
           /\ seed' = [seed EXCEPT ![r] = IF tokens[Len(tokens)] = EOS THEN None
                                         ELSE NextSeed(ar, c)]
  BY <1>3, Zenon
<1>5. PICK c, t, n :
        /\ c = Matches(ids, ar) /\ t = CutAtEos(Agreed(ids, ar, c))
        /\ n = IF t[Len(t)] = EOS THEN None ELSE NextSeed(ar, c)
        /\ blk' = [blk EXCEPT ![r].ids = ids, ![r].kv = ids, ![r].res = t]
        /\ seed' = [seed EXCEPT ![r] = n]
  <2> DEFINE c == Matches(ids, ar)
             t == CutAtEos(Agreed(ids, ar, c))
             n == IF t[Len(t)] = EOS THEN None ELSE NextSeed(ar, c)
  <2>1. /\ blk' = [blk EXCEPT ![r].ids = ids, ![r].kv = ids, ![r].res = t]
        /\ seed' = [seed EXCEPT ![r] = n]
    BY <1>4, Zenon DEF Agreed
  <2>2. /\ c = Matches(ids, ar) /\ t = CutAtEos(Agreed(ids, ar, c))
        /\ n = IF t[Len(t)] = EOS THEN None ELSE NextSeed(ar, c)
    BY Zenon
  <2> HIDE DEF c, t, n
  <2> QED BY <2>1, <2>2, Zenon
<1>6. /\ out \in [Req -> Seq(Token)] /\ seed \in [Req -> Token \cup {None}]
      /\ \A q \in Req \ live : out[q] = << >>
      /\ \A q \in live : Len(out[q]) <= MaxNewTokens
      /\ \A q \in todo : seed[q] # None => blk[q].ids[1] = seed[q]
      /\ args.causal_context => SeedsInv
  BY <1>1, <1>2, Zenon DEF SpecInv
<1>7. ids \in [Block -> Token] /\ (seed[r] # None => ids[1] = seed[r])
  <2>1. PICK d \in [Block -> Token] : ids = Put(blk[r].ids, Masks(blk[r]), d)
    BY Zenon DEF Drafts
  <2>2. blk[r].ids \in [Block -> Token \cup {MASK}] /\ 1 \in Block
    <3>1. 1 \in Block
      BY Setting DEF Block
    <3> QED BY <1>2, <3>1, Zenon DEF BlocksInv, IsBlock
  <2>3. seed[r] # None => seed[r] # MASK
    BY <1>6, TokenAssumption, Zenon DEF Token
  <2> QED BY <1>1, <1>6, <2>1, <2>2, <2>3, Zenon DEF Put, Masks
<1>8. Checked(ids, ar, c)
  BY <1>5, <1>6, <1>7, PredictionTokens, MatchesFacts, Zenon
<1>9. Accepts(ids, ar, c, t)
  BY <1>5, <1>8, AcceptedTokens, Zenon
<1>10. /\ t \in Seq(Token) /\ Len(t) \in 1..BlockSize
       /\ \A i \in 1..Len(t) : t[i] = ids[i] /\ t[i] \in Token
       /\ n \in Token \cup {None}
  BY <1>5, <1>9, SeqElements, Zenon DEF Accepts
<1>11. ASSUME args.causal_context PROVE Seeded(r, out[r] \o t, n)
  <2>1. Seeded(r, out[r], seed[r])
    BY <1>1, <1>6, <1>11, Zenon DEF SeedsInv
  <2>2. Predicts(r, out[r], ids, ar)
    BY Zenon DEF Predictions, Predicts
  <2>3. out[r] \in Seq(Token) /\ Len(out[r]) <= MaxNewTokens
    BY <1>1, <1>6, Zenon
  <2>4. n = IF t[Len(t)] = EOS THEN None ELSE NextSeed(ar, c)
    BY <1>5, Zenon
  <2>5. Verified(r, out[r], seed[r], ids, ar, c, t, n)
    BY <1>7, <1>8, <1>9, <2>1, <2>2, <2>3, <2>4, Zenon DEF Verified
  <2> QED BY <1>11, <2>5, SpecSeeded, Zenon
<1>12. /\ DOMAIN blk' = Req /\ \A q \in Req \ {r} : blk'[q] = blk[q]
       /\ IsBlock(blk'[r]) /\ blk'[r].ids = ids /\ blk'[r].kv = ids
       /\ blk'[r].res = t /\ blk'[r].forced = blk[r].forced
  <2>1. PICK b, m : b = blk[r] /\ m = blk'[r]
    BY Zenon
  <2>2. DOMAIN blk = Req /\ IsBlock(b)
    BY <1>2, <2>1, Zenon DEF BlocksInv
  <2>3. /\ DOMAIN blk' = Req /\ \A q \in Req \ {r} : blk'[q] = blk[q]
        /\ m = [b EXCEPT !.ids = ids, !.kv = ids, !.res = t]
    BY <1>5, <2>1, <2>2, Zenon
  <2>4. t \in Seq(Token \cup {MASK}) /\ ids \in [Block -> Token \cup {MASK}]
    BY <1>7, <1>10
  <2>5. IsBlock(m) /\ m.ids = ids /\ m.kv = ids /\ m.res = t /\ m.forced = b.forced
    BY <2>2, <2>3, <2>4, Zenon DEF IsBlock
  <2> QED BY <2>1, <2>3, <2>5, Zenon
<1>13. /\ seed' \in [Req -> Token \cup {None}] /\ seed'[r] = n
       /\ \A q \in Req \ {r} : seed'[q] = seed[q]
  <2>1. seed' = [seed EXCEPT ![r] = n]
    BY <1>5, Zenon
  <2>2. seed \in [Req -> Token \cup {None}] /\ n \in Token \cup {None}
    <3>1. seed \in [Req -> Token \cup {None}]
      BY <1>6, Zenon
    <3>2. n \in Token \cup {None}
      BY <1>10, Zenon
    <3> QED BY <3>1, <3>2, Zenon
  <2>3. seed' \in [Req -> Token \cup {None}] /\ seed'[r] = n
    BY <2>1, <2>2, Zenon
  <2>4. \A q \in Req \ {r} : seed'[q] = seed[q]
    BY <2>1, <2>2, Zenon
  <2> QED BY <2>3, <2>4, Zenon
<1>14. BlocksInv'
  BY <1>1, <1>2, <1>12, BlocksPrimed, Zenon DEF BlocksInv
<1>15. \A q \in batch' \ todo' : q = r \/ (q \in batch \ todo /\ q \in Req \ {r})
  BY <1>1, Zenon
<1>16. ResultsInv'
  <2>1. ASSUME NEW q \in batch' \ todo'
        PROVE  /\ blk'[q].kv = blk'[q].ids /\ Len(blk'[q].res) \in 1..BlockSize
               /\ \A i \in 1..Len(blk'[q].res) : /\ blk'[q].res[i] = blk'[q].ids[i]
                                                 /\ blk'[q].res[i] \in Token
    <3>1. CASE q = r
      BY <1>10, <1>12, <3>1, Zenon
    <3>2. CASE q \in batch \ todo /\ q \in Req \ {r}
      <4>1. /\ blk[q].kv = blk[q].ids /\ Len(blk[q].res) \in 1..BlockSize
            /\ \A i \in 1..Len(blk[q].res) : /\ blk[q].res[i] = blk[q].ids[i]
                                             /\ blk[q].res[i] \in Token
        BY <1>1, <1>2, <3>2, Zenon DEF ResultsInv
      <4>2. blk'[q] = blk[q]
        BY <1>12, <3>2, Zenon
      <4> QED BY <4>1, <4>2, Zenon
    <3> QED BY <1>15, <3>1, <3>2, Zenon
  <2>2. "LinearSpec" \notin Iterative /\ "LinearSpec" # "TiDAR"
    BY Zenon DEF Iterative
  <2>3. \A q \in batch : blk'[q].forced => algorithm' = "FastDiffuser"
    BY <1>1, <1>2, <1>12, Zenon DEF ResultsInv
  <2> QED BY <1>1, <2>1, <2>2, <2>3, Zenon DEF ResultsInv, Token
<1>17. SpecInv'
  <2>1. ASSUME args.causal_context, NEW q \in batch' \ todo'
        PROVE  Seeded(q, out'[q] \o blk'[q].res, seed'[q])
    <3>1. CASE q = r
      BY <1>1, <1>11, <1>12, <1>13, <2>1, <3>1, Zenon
    <3>2. CASE q \in batch \ todo /\ q \in Req \ {r}
      BY <1>1, <1>6, <1>12, <1>13, <2>1, <3>2, Zenon DEF SeedsInv
    <3> QED BY <1>15, <2>1, <3>1, <3>2, Zenon
  <2>2. ASSUME args.causal_context, NEW q \in live' \ (batch' \ todo')
        PROVE  Seeded(q, out'[q], seed'[q])
    BY <1>1, <1>6, <1>13, <2>2, Zenon DEF SeedsInv
  <2>3. \A q \in todo' : seed'[q] # None => blk'[q].ids[1] = seed'[q]
    BY <1>1, <1>6, <1>12, <1>13, Zenon
  <2> QED BY <1>1, <1>6, <1>13, <2>1, <2>2, <2>3, SpecPrimed, Zenon
<1>18. JointInv' /\ FastInv'
  BY <1>1, Zenon DEF JointInv, FastInv
<1> QED BY <1>14, <1>16, <1>17, <1>18, Zenon DEF RunInv
=============================================================================
