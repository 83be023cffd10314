------------------------- MODULE DllmAlgorithmsInv --------------------------
(***************************************************************************)
(* The inductive invariant of the decoding algorithms: what is known of    *)
(* the block of every request at every point of run().                     *)
(***************************************************************************)
EXTENDS DllmAlgorithms

Iterative == {"LowConfidence", "JointThreshold", "FastDiffuser"}

ParamsInv ==
    /\ params = [f \in {"selection_policy", "threshold", "max_steps",
                       "tokens_per_step"} |-> params[f]]
    /\ params.selection_policy \in Policies /\ params.threshold \in Thresholds
    /\ params.max_steps \in Nat /\ params.tokens_per_step \in {None, 2}
    /\ params.selection_policy \in {"leftmost", "random"} => params.threshold = None

\* The answer holds the old value of every attribute that the last override set.
UndoInv ==
    undo # None => \E D \in SUBSET DOMAIN params :
      /\ undo = [previous |-> Restrict(undo.before, D), before |-> undo.before]
      /\ undo.before = [f \in DOMAIN params |-> undo.before[f]]
      /\ \A f \in DOMAIN params \ D : params[f] = undo.before[f]
      /\ undo.before.selection_policy \in Policies
      /\ undo.before.selection_policy \in {"leftmost", "random"} =>
           undo.before.threshold = None

\* Which algorithm is where, and how far.
ControlInv ==
    /\ args \in Settings
    /\ pc \in {"idle", "raised", "loop", "place", "spec", "draft", "quad", "verify",
              "return"}
    /\ pc \in {"loop", "place"} => algorithm \in Iterative /\ step <= Passes
    /\ pc = "place" => step > 0
    /\ pc \in {"place", "spec", "verify"} => todo # {}
    /\ pc = "spec" => algorithm = "LinearSpec"
    /\ pc \in {"draft", "quad", "verify"} => algorithm = "TiDAR"
    /\ pc \in {"idle", "raised", "loop", "draft", "quad", "return"} => todo = {}
    /\ step \in Nat /\ changed \in BOOLEAN
    /\ pc \in {"idle", "spec", "draft"} => step = 0
    /\ todo \subseteq batch /\ batch \subseteq live /\ live \subseteq Req
    /\ batch = {} <=> pc \in {"idle", "raised"}
    /\ algorithm # "LinearSpec" => \A r \in Req : seed[r] = None

\* A block is a record of these fields.
IsBlock(b) ==
    /\ DOMAIN b = {"ids", "kv", "res", "loc", "commit", "ctx", "done", "edits",
                   "forced"}
    /\ b.ids \in [Block -> Token \cup {MASK}]
    /\ b.commit \in [Block -> Int]
    /\ b.ctx = [i \in Block |-> b.ctx[i]]
    /\ b.done \in BOOLEAN /\ b.forced \in BOOLEAN
    /\ b.res \in Seq(Token \cup {MASK})

BlocksInv ==
    /\ DOMAIN blk = Req
    /\ \A r \in Req : IsBlock(blk[r])
    /\ \A r \in Req \ batch : blk[r] = NewBlock
    /\ pc \notin {"return", "spec", "quad", "verify"} =>
         \A r \in Req : blk[r].res = << >>

\* What the requests of a batch are returned: the whole block, or as much of it
\* as is accepted.
ResultsInv ==
    /\ pc = "return" /\ algorithm \in Iterative =>
         \A r \in batch : /\ blk[r].res = blk[r].ids
                          /\ blk[r].forced \/ blk[r].kv = blk[r].ids
    /\ algorithm \in {"LinearSpec", "TiDAR"} \/ pc = "return" =>
         \A r \in batch : blk[r].forced => algorithm = "FastDiffuser"
    /\ algorithm = "LinearSpec" =>
         \A r \in batch \ todo :
           /\ blk[r].kv = blk[r].ids
           /\ Len(blk[r].res) \in 1..BlockSize
           /\ \A i \in 1..Len(blk[r].res) : /\ blk[r].res[i] = blk[r].ids[i]
                                            /\ blk[r].res[i] \in Token
    /\ algorithm = "TiDAR" =>
         \A r \in batch : /\ blk[r].kv = blk[r].res
                          /\ Len(blk[r].res) <= BlockSize

\* JointThreshold skips the last pass only if the one before it changed nothing.
JointInv ==
    algorithm = "JointThreshold" /\ pc \in {"loop", "place"} =>
      \A r \in batch : /\ ~changed => blk[r].kv = blk[r].ids \/ step = 0
                       /\ step = 0 => ~blk[r].done

\* The block that a token of step s was predicted from holds the tokens of smaller
\* steps.
Before(b, s) == [j \in Block |-> IF b.commit[j] < s THEN b.ids[j] ELSE MASK]

\* A token that the block b holds was predicted from what its pass attended to of
\* the tokens of smaller steps.
Replays(b) ==
    \A i \in Block :
      /\ b.commit[i] >= -1 /\ (b.ids[i] = MASK <=> b.commit[i] = -1)
      /\ b.commit[i] # -1 =>
           b.ctx[i] = Attended(Before(b, b.commit[i]), b.commit[i])[i]

\* No mask is left behind an EOS.
EosClosed(b) ==
    \A i, j \in Block : i < j /\ b.ids[i] = EOS => b.ids[j] # MASK

\* FastDiffuser: the block of a request that the pass has yet to be applied to
\* has no token of this pass, and the last pass of the even schedule leaves no
\* mask.
EvenSchedule ==
    /\ params.threshold = None /\ params.selection_policy # "leftmost"
    /\ params.max_steps # 0

FastInv ==
    algorithm = "FastDiffuser" => \A r \in batch :
      /\ Replays(blk[r]) /\ EosClosed(blk[r])
      /\ blk[r].done => Masks(blk[r]) = {}
      /\ pc = "return" => Masks(blk[r]) = {}
      /\ pc \in {"loop", "place"} =>
           /\ \A i \in Block :
                blk[r].commit[i] < IF r \in todo THEN step - 1 ELSE step
           /\ EvenSchedule /\ step = params.max_steps /\ r \notin todo =>
                Masks(blk[r]) = {}
           /\ ~blk[r].forced
      /\ pc = "return" /\ EvenSchedule => ~blk[r].forced

\* LinearSpec: the tokens s are the model's up to and with the first EOS, and until
\* there is one the seed t is the model's next token.
GreedyToEos(r, s) ==
    \A i \in 1..Len(s) : (\A j \in 1..(i - 1) : s[j] # EOS) => s[i] = Greedy[r][i]
Seeded(r, s, t) ==
    GreedyToEos(r, s) /\ (EOS \notin Range(s) => t = Greedy[r][Len(s) + 1])

SeedsInv ==
    /\ \A r \in live \ (batch \ todo) : Seeded(r, out[r], seed[r])
    /\ \A r \in batch \ todo : Seeded(r, out[r] \o blk[r].res, seed[r])

SpecInv ==
    algorithm = "LinearSpec" =>
      /\ out \in [Req -> Seq(Token)] /\ seed \in [Req -> Token \cup {None}]
      /\ \A r \in Req \ live : out[r] = << >>
      /\ \A r \in live : Len(out[r]) <= MaxNewTokens
      /\ pc = "spec" =>
           \A r \in todo : seed[r] # None => blk[r].ids[1] = seed[r]
      /\ args.causal_context => SeedsInv

RunInv == BlocksInv /\ ResultsInv /\ JointInv /\ FastInv /\ SpecInv

AlgorithmsInv == ParamsInv /\ UndoInv /\ ControlInv /\ RunInv
=============================================================================
