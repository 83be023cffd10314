--------------------------- MODULE DllmAlgorithms ---------------------------
(***************************************************************************)
(* The decoding algorithms of dllm/algorithm: how run() turns the block of *)
(* mask tokens of every request of a batch into output tokens, and what it *)
(* leaves in the KV cache; with reconfigure_dllm, which changes the        *)
(* parameters of FastDiffuser between two batches.                         *)
(*                                                                         *)
(* A forward pass writes, for every position it covers, the KV of the      *)
(* token that is there: blk[r].kv is the block the KV was computed from.   *)
(* What the model predicts, and how confident it is, is arbitrary, except  *)
(* that its causal prediction is a function of the context: Greedy is what *)
(* it generates token by token.  MASK is a token that the model may        *)
(* predict; the algorithms that exclude it say so.                         *)
(*                                                                         *)
(* The scheduler is reduced to what the algorithms meet: any set of live   *)
(* requests in a batch, requests that end, are aborted and come back under *)
(* the same rid.  A block is all masks when it starts (the prompt has its  *)
(* own batch).  The slots of the pool are followed for TiDAR, which        *)
(* allocates and frees them itself; DllmScheduler has those of the others. *)
(***************************************************************************)
EXTENDS Integers, Sequences, FiniteSets, FiniteSetsExt

CONSTANTS
    Req,                   \* the rids
    Words, EOS, MASK,      \* the tokens: ordinary ones, eos_id, mask_id
    None,
    MaxNewTokens,          \* sampling_params.max_new_tokens
    MaxPostEditSteps,      \* max_post_edit_steps of JointThreshold
    MaxQuadIters,          \* max_quad_iters of TiDAR
    Greedy,                \* [Req -> the causal model's own continuation]
    PromptLen,             \* the tokens of a prompt
    PoolSize,              \* the slots of the KV pool
    MaxSteps,              \* bound: the values given for max_steps
    Settings               \* the servers: [algorithm, block_size, causal_context,
                           \* rids, ignore_eos: the rids that go on behind EOS]

Algorithms ==
    {"LowConfidence", "JointThreshold", "FastDiffuser", "LinearSpec", "TiDAR"}

ASSUME SettingAssumption ==
    \A s \in Settings : /\ s.algorithm \in Algorithms
                        /\ s.block_size \in Nat \ {0} /\ s.rids \subseteq Req
                        /\ s.causal_context \in BOOLEAN
ASSUME LimitsAssumption ==
    MaxSteps \subseteq Nat /\ MaxNewTokens \in Nat /\ MaxPostEditSteps \in Nat
ASSUME TokenAssumption ==
    EOS \notin Words /\ MASK \notin Words \cup {EOS} /\ None \notin Words \cup {EOS}
\* The model does not stop: what it generates is longer than any output.
ASSUME GreedyAssumption ==
    /\ Greedy \in [Req -> Seq(Words \cup {EOS})]
    /\ \A r \in Req, s \in Settings :
         Len(Greedy[r]) > MaxNewTokens + s.block_size

VARIABLES
    args,                  \* what the server was started with
    params,                \* the soft parameters of FastDiffuser
    undo,                  \* the answer to the last reconfigure_dllm
    live,                  \* the requests the scheduler decodes
    out,                   \* output_ids of the live requests
    pc,                    \* where run() is
    step,                  \* forward passes of the loop so far
    todo,                  \* requests the present pass has yet to be applied to
    batch,                 \* the requests of the batch
    blk,                   \* the block of each of them
    changed,               \* any_changed_in_last_step of JointThreshold
    seed,                  \* _seed_tokens of LinearSpec
    free,                  \* free slots
    row                    \* the slots of a request's tokens

output == <<live, out>>
loop == <<pc, step, todo, batch, blk, changed>>
slots == <<free, row>>
vars == <<args, params, undo, output, loop, seed, slots>>

algorithm == args.algorithm
BlockSize == args.block_size

Token == Words \cup {EOS}
Block == 1..BlockSize
Masks(b) == {i \in Block : b.ids[i] = MASK}

\* ids: the block; kv: see above; commit: commit_step_grid; ctx (history): the
\* block each token was predicted from, None where its pass did not attend; loc:
\* the slots of a TiDAR pass; res: what run() returns.
NewBlock == [ids |-> [i \in Block |-> MASK], kv |-> << >>, res |-> << >>, loc |-> << >>,
             commit |-> [i \in Block |-> -1],
             ctx |-> [i \in Block |-> [j \in Block |-> None]],
             done |-> FALSE, edits |-> 0, forced |-> FALSE]

DefaultParams == [selection_policy |-> "confidence", threshold |-> None,
                  max_steps |-> BlockSize, tokens_per_step |-> None]

Init ==
    /\ args \in Settings
    /\ params = DefaultParams /\ undo = None
    /\ live = {} /\ out = [r \in Req |-> << >>]
    /\ pc = "idle" /\ step = 0 /\ todo = {} /\ batch = {} /\ changed = FALSE
    /\ blk = [r \in Req |-> NewBlock]
    /\ seed = [r \in Req |-> None]
    /\ free = 1..PoolSize /\ row = [r \in Req |-> << >>]

-----------------------------------------------------------------------------
(* reconfigure_dllm *)

Policies == {"confidence", "leftmost", "random"}
Thresholds == {None, "set"}
Overrides ==
    [selection_policy : Policies \cup {"other"}] \cup [threshold : Thresholds]
    \cup [selection_policy : Policies, threshold : Thresholds]
    \cup [max_steps : MaxSteps] \cup [tokens_per_step : {None, 2}]
    \cup [threshold : Thresholds, block_size : {1}]

\* The parameters with the attributes of o set.
Updated(o) ==
    [f \in DOMAIN params |-> IF f \in DOMAIN o THEN o[f] ELSE params[f]]

Reconfigurable(o) == DOMAIN o \subseteq DOMAIN params

\* The validation of the keys and of the combined state, before anything is set.
Refused(o) ==
    LET new == Updated(o)
    IN \/ ~Reconfigurable(o)
       \/ new.selection_policy \notin Policies
       \/ new.selection_policy \in {"leftmost", "random"} /\ new.threshold # None

\* Mutant: the attributes are set before they are validated.
AppliedBeforeRefused(o) == Updated(o)

Applied(o) == IF Refused(o) THEN params ELSE Updated(o)

Previous(o) == Restrict(params, IF Refused(o) THEN {} ELSE DOMAIN o)

\* undo holds the answer, and (history) the parameters it should lead back to.
\* Only FastDiffuser has the attributes that the validation reads: under any other
\* algorithm it raises, and the scheduler process ends.
reconfigure_dllm(o) ==
    /\ pc = "idle"
    /\ IF algorithm # "FastDiffuser" /\ Reconfigurable(o)
         THEN pc' = "raised" /\ UNCHANGED <<params, undo>>
         ELSE /\ params' = Applied(o)
              /\ undo' = [previous |-> Previous(o), before |-> params]
              /\ UNCHANGED pc
    /\ UNCHANGED <<args, output, step, todo, batch, blk, changed, seed, slots>>

-----------------------------------------------------------------------------
(* Requests and batches. *)

\* The n slots that alloc hands out, in order.
Alloc(n) ==
    SubSeq(SelectSeq([i \in 1..PoolSize |-> i], LAMBDA s : s \in free), 1, n)

\* The places of the requests in the batch.
Places(R) == CHOOSE f \in Bijection(R, 1..Cardinality(R)) : TRUE

IsPrefix(s, t) == Len(s) <= Len(t) /\ s = SubSeq(t, 1, Len(s))

\* The token that the prompt pass or the verify pass of LinearSpec predicts behind
\* the context s of request r.  Both are causal under causal_context alone; other
\* is what is predicted without it, or behind anything that the causal model would
\* not have generated itself.
AR(r, s, other) ==
    IF args.causal_context /\ IsPrefix(s, Greedy[r]) /\ Len(s) < Len(Greedy[r])
      THEN Greedy[r][Len(s) + 1] ELSE other

\* The prompt batch: run() takes the path without masks.  LinearSpec keeps the
\* model's first token as the seed of the first block.
Prefill(r) ==
    /\ pc = "idle" /\ r \in args.rids \ live
    /\ live' = live \cup {r}
    /\ IF algorithm = "LinearSpec"
         THEN \E t \in Token : seed' = [seed EXCEPT ![r] = AR(r, << >>, t)]
         ELSE UNCHANGED seed
    /\ IF algorithm = "TiDAR"
         THEN /\ Cardinality(free) >= PromptLen
              /\ row' = [row EXCEPT ![r] = Alloc(PromptLen)]
              /\ free' = free \ Range(Alloc(PromptLen))
         ELSE UNCHANGED slots
    /\ UNCHANGED <<args, params, undo, out, loop>>

\* The requests of E leave: nothing of them is left but their seeds.
Leave(E) ==
    /\ live' = live \ E
    /\ free' = free \cup UNION {Range(row[r]) : r \in E}
    /\ row' = [r \in Req |-> IF r \in E THEN << >> ELSE row[r]]

Abort(r) ==
    /\ pc = "idle" /\ r \in live
    /\ Leave({r}) /\ out' = [out EXCEPT ![r] = << >>]
    /\ UNCHANGED <<args, params, undo, loop, seed>>

First == CASE algorithm = "LinearSpec" -> "spec" [] algorithm = "TiDAR" -> "draft"
           [] OTHER -> "loop"

\* A block batch of the requests of R.  LinearSpec puts the seed of a request,
\* if it has one, at its first mask.
StartBlock(R) ==
    LET taken == Alloc(BlockSize * Cardinality(R))
        part(r) == SubSeq(taken, BlockSize * (Places(R)[r] - 1) + 1,
                          BlockSize * Places(R)[r])
    IN /\ pc = "idle" /\ R # {}
       /\ pc' = First /\ batch' = R
       /\ todo' = IF algorithm = "LinearSpec" THEN R ELSE {}
       /\ undo' = None
       /\ blk' = [r \in Req |->
                    IF r \in R /\ seed[r] # None
                      THEN [NewBlock EXCEPT !.ids[1] = seed[r]] ELSE NewBlock]
       /\ IF algorithm = "TiDAR"
            THEN /\ Cardinality(free) >= BlockSize * Cardinality(R)
                 /\ free' = free \ Range(taken)
                 /\ row' = [r \in Req |-> IF r \in R THEN row[r] \o part(r)
                                          ELSE row[r]]
            ELSE UNCHANGED slots
       /\ UNCHANGED <<args, params, output, step, changed, seed>>

\* What the scheduler does with the result: a request ends at its length limit, or
\* at EOS unless it asks to ignore it.
Ends(r) ==
    \/ r \notin args.ignore_eos /\ EOS \in Range(blk[r].res)
    \/ Len(out[r]) + Len(blk[r].res) >= MaxNewTokens

\* What the model has to know of output tokens: only the causal predictions of
\* LinearSpec depend on which they are.
Kept(s) == IF algorithm = "LinearSpec" THEN s ELSE [i \in DOMAIN s |-> None]

Return ==
    LET E == {r \in batch : Ends(r)}
    IN /\ pc = "return"
       /\ Leave(E)
       /\ out' = [r \in Req |-> IF r \in E THEN << >>
                              ELSE out[r] \o Kept(blk[r].res)]
       /\ pc' = "idle" /\ step' = 0 /\ batch' = {} /\ changed' = FALSE
       /\ blk' = [r \in Req |-> NewBlock]
       /\ UNCHANGED <<args, params, undo, todo, seed>>

-----------------------------------------------------------------------------
(* The iterative algorithms: LowConfidence, JointThreshold, FastDiffuser.    *)

\* The block f with the values of g at the positions of S.
Put(f, S, g) == [i \in Block |-> IF i \in S THEN g[i] ELSE f[i]]
Every(v) == [i \in Block |-> v]

\* LowConfidence: the masks above the threshold, or else the best one; any
\* token may be the model's best, MASK too.
LowConfidencePlace(b) ==
    {[b EXCEPT !.ids = Put(@, S, x)] :
       S \in (SUBSET Masks(b)) \ {{}}, x \in [Block -> Token \cup {MASK}]}

\* JointThreshold: masks as above, and tokens that the model would now replace;
\* a block without masks gets max_post_edit_steps more passes.
Edits(b) == IF Masks(b) = {} THEN b.edits + 1 ELSE b.edits

Edited(b, M, D, x) ==
    [b EXCEPT !.ids = Put(@, M \cup D, x), !.edits = Edits(b),
              !.done = (M = {} /\ \A i \in D : x[i] = b.ids[i])]

JointThresholdPlace(b) ==
    LET placed == IF Masks(b) = {} THEN {{}} ELSE (SUBSET Masks(b)) \ {{}}
    IN IF Edits(b) > MaxPostEditSteps
         THEN {[b EXCEPT !.done = TRUE, !.edits = Edits(b)]}
       ELSE {Edited(b, M, D, x) : M \in placed, D \in SUBSET (Block \ Masks(b)),
                                  x \in [Block -> Token \cup {MASK}]}

\* What each position attends to in pass s over the block ids.  The passes of the
\* loop are bidirectional; the one behind it, which counts as pass max_steps, is
\* causal under causal_context.
Attended(ids, s) ==
    [i \in Block |->
       [j \in Block |-> IF args.causal_context /\ s = params.max_steps /\ j > i
                          THEN None ELSE ids[j]]]

\* FastDiffuser: S is revealed in pass s over the block ids.
Reveal(b, S, x, s, ids) ==
    [b EXCEPT !.ids = Put(@, S, x), !.commit = Put(@, S, Every(s)),
              !.ctx = Put(@, S, Attended(ids, s))]

\* The positions from the first EOS on are frozen.
Unfrozen(b) ==
    {i \in Masks(b) : \A j \in 1..i : b.ids[j] # EOS}

\* Mutant: the present step is not counted among those that are left.
EvenShareLate(n, steps) ==
    (n \div (steps + 1)) + (IF n % (steps + 1) > 0 THEN 1 ELSE 0)

\* The first entry of _get_num_transfer_tokens.
EvenShare(n, steps) ==
    (n \div steps) + (IF n % steps > 0 THEN 1 ELSE 0)

\* The sets of positions that may be revealed in a pass.
Selections(b) ==
    LET active == Unfrozen(b)
        n == Cardinality(active)
        of(k) == Min({k, n})
    IN IF params.selection_policy = "leftmost"
         THEN LET k == IF params.tokens_per_step = None THEN 1
                       ELSE params.tokens_per_step
              IN {{i \in active : Cardinality({j \in active : j < i}) < k}}
       ELSE IF params.threshold # None THEN (SUBSET active) \ {{}}
       ELSE kSubset(of(EvenShare(n, params.max_steps - step + 1)), active)

\* Mutant: the steps of the propagated tokens are not recorded.
PropagateUnrecorded(b, S, ids) ==
    LET eos == {i \in Block : b.ids[i] = EOS}
    IN IF \A i \in S : b.ids[i] # EOS THEN b
       ELSE [b EXCEPT !.ids = Put(@, {i \in Masks(b) : \E e \in eos : e < i}, Every(EOS))]

\* EOS propagation: once EOS is placed, the masks behind the first one are EOS.
Propagate(b, S, ids) ==
    LET eos == {i \in Block : b.ids[i] = EOS}
    IN IF \A i \in S : b.ids[i] # EOS THEN b
       ELSE Reveal(b, {i \in Masks(b) : \E e \in eos : e < i}, Every(EOS), step - 1, ids)

FastDiffuserPlace(b) ==
    IF Unfrozen(b) = {} THEN {[b EXCEPT !.done = TRUE]}
    ELSE LET next == {Propagate(Reveal(b, S, x, step - 1, b.ids), S, b.ids) :
                        S \in Selections(b), x \in [Block -> Token]}
         IN {[n EXCEPT !.done = (Masks(n) = {})] : n \in next}

Placements(b) ==
    CASE algorithm = "LowConfidence" -> LowConfidencePlace(b)
      [] algorithm = "JointThreshold" -> JointThresholdPlace(b)
      [] algorithm = "FastDiffuser" -> FastDiffuserPlace(b)

\* The passes a block gets at most.
Passes ==
    CASE algorithm = "LowConfidence" -> BlockSize
      [] algorithm = "JointThreshold" -> BlockSize + MaxPostEditSteps
      [] algorithm = "FastDiffuser" -> params.max_steps

Active ==
    IF algorithm = "LowConfidence" THEN {r \in batch : Masks(blk[r]) # {}}
    ELSE {r \in batch : ~blk[r].done}

\* A forward pass over the requests of R.
Written(R) ==
    [r \in Req |-> IF r \in R THEN [blk[r] EXCEPT !.kv = blk[r].ids] ELSE blk[r]]

\* Mutant: the passes are not counted.
ForwardUncounted ==
    /\ pc = "loop" /\ step < Passes /\ Active # {}
    /\ blk' = Written(IF algorithm = "FastDiffuser" THEN Active ELSE batch)
    /\ pc' = "place" /\ todo' = Active /\ changed' = FALSE
    /\ UNCHANGED <<args, params, undo, output, step, batch, seed, slots>>

\* One pass of the loop; FastDiffuser compacts finished requests out of it.
Forward ==
    /\ pc = "loop" /\ step < Passes /\ Active # {}
    /\ blk' = Written(IF algorithm = "FastDiffuser" THEN Active ELSE batch)
    /\ pc' = "place" /\ todo' = Active /\ step' = step + 1 /\ changed' = FALSE
    /\ UNCHANGED <<args, params, undo, output, batch, seed, slots>>

\* The result of the pass for one request.
Place(r) ==
    /\ pc = "place" /\ r = (CHOOSE q \in todo : TRUE)
    /\ \E b \in Placements(blk[r]) :
         /\ blk' = [blk EXCEPT ![r] = b]
         /\ changed' = (algorithm = "JointThreshold" /\ (changed \/ ~b.done))
    /\ todo' = todo \ {r}
    /\ pc' = IF todo' = {} THEN "loop" ELSE "place"
    /\ UNCHANGED <<args, params, undo, output, step, batch, seed, slots>>

\* Mutant: JointThreshold never needs the last pass.
LastPassSkipped == IF algorithm = "JointThreshold" THEN {} ELSE batch

\* Who gets the pass after the loop that updates the KV.
LastPass == IF algorithm = "JointThreshold" /\ ~changed THEN {} ELSE batch

\* Mutant: a position that is still masked is returned as it is.
ForceNothing(b, x) == b

\* FastDiffuser commits what is still masked from the logits of the last pass.
ForceCommit(b, x) ==
    LET left == IF algorithm = "FastDiffuser" THEN Unfrozen(b) ELSE {}
    IN [Reveal(b, left, x, params.max_steps, b.ids) EXCEPT !.forced = (left # {})]

Finish ==
    /\ pc = "loop" /\ (step >= Passes \/ Active = {})
    /\ \E x \in [batch -> [Block -> Token]] :
         blk' = [r \in Req |->
                   IF r \notin batch THEN blk[r]
                   ELSE LET b == ForceCommit(Written(LastPass)[r], x[r])
                        IN [b EXCEPT !.res = b.ids]]
    /\ pc' = "return"
    /\ UNCHANGED <<args, params, undo, output, step, todo, batch, changed,
                   seed, slots>>

-----------------------------------------------------------------------------
(* LinearSpec *)

\* tokens up to and including the first EOS.
CutAtEos(s) ==
    SubSeq(s, 1, Min({i \in DOMAIN s : s[i] = EOS} \cup {Len(s)}))

\* The tokens of the draft that agree with the model's, from the second on.
Matches(ids, ar) ==
    Max({c \in 0..(BlockSize - 1) : \A i \in 1..c : ids[i + 1] = ar[i]})

\* Mutant: the token behind the draft's last match is skipped.
NextSeedLate(ar, c) == ar[Min({c + 2, BlockSize})]

\* ar[c], which predicts the position behind the accepted tokens.
NextSeed(ar, c) == ar[c + 1]

\* The blocks that the draft pass, and the predictions that the verify pass, may
\* come to.  Both exclude MASK.
Drafts(b) == {Put(b.ids, Masks(b), d) : d \in [Block -> Token]}
Predictions(r, ids) ==
    {[i \in Block |-> AR(r, out[r] \o SubSeq(ids, 1, i), other[i])] :
       other \in [Block -> Token]}

\* The two passes, and what is accepted of each block, one request after the other.
LinearSpecAccept(r) ==
    /\ pc = "spec" /\ r = (CHOOSE q \in todo : TRUE)
    /\ \E ids \in Drafts(blk[r]) : \E ar \in Predictions(r, ids) :
         LET c == Matches(ids, ar)
             tokens == CutAtEos(<<ids[1]>> \o SubSeq(ar, 1, c))
         IN /\ blk' = [blk EXCEPT ![r].ids = ids, ![r].kv = ids, ![r].res = tokens]
            /\ seed' = [seed EXCEPT ![r] = IF tokens[Len(tokens)] = EOS THEN None
                                          ELSE NextSeed(ar, c)]
    /\ todo' = todo \ {r}
    /\ pc' = IF todo' = {} THEN "return" ELSE "spec"
    /\ UNCHANGED <<args, params, undo, output, step, batch, changed, slots>>

-----------------------------------------------------------------------------
(* TiDAR *)

\* The tokens of one quadratic pass: the draft, and a decoding block behind each
\* of its positions.
B == BlockSize * (BlockSize + 1)

\* The first draft; the slots the scheduler allocated for the block are freed.
TidarDraft ==
    LET prefix(r) == Len(row[r]) - BlockSize
    IN /\ pc = "draft" /\ pc' = "quad"
       /\ free' = free \cup UNION {Range(SubSeq(row[r], prefix(r) + 1, Len(row[r]))) :
                                     r \in batch}
       /\ row' = [r \in Req |-> IF r \in batch THEN SubSeq(row[r], 1, prefix(r))
                                ELSE row[r]]
       /\ UNCHANGED <<args, params, undo, output, step, todo, batch, blk,
                      changed, seed>>

\* What may be accepted of a draft: its first token, and further ones as far as
\* the causal logits agree.  Only the first draft excludes MASK.
Accepted(r) ==
    LET left == BlockSize - Len(blk[r].res)
        drafts == [Block -> IF step = 1 THEN Token ELSE Token \cup {MASK}]
    IN IF left = 0 \/ EOS \in Range(blk[r].res) THEN {<< >>}
       ELSE {CutAtEos(SubSeq(d, 1, n)) : d \in drafts, n \in 1..left}

\* Mutant: the slot of the last accepted token goes with the rejected ones.
RejectedOffByOne(loc, n) == SubSeq(loc, IF n = 0 THEN 1 ELSE n, Len(loc))

\* The slots of a request that are freed after a pass that accepts n tokens.
Rejected(loc, n) == SubSeq(loc, n + 1, Len(loc))

\* One quadratic pass: B slots for every request, also for those that are done.
\* Out of memory ends the block with what it has.
TidarPass ==
    LET loc == Alloc(B * Cardinality(batch))
        part(r) == SubSeq(loc, B * (Places(batch)[r] - 1) + 1, B * Places(batch)[r])
    IN /\ pc = "quad" /\ step < MaxQuadIters
       /\ \E r \in batch : Len(blk[r].res) < BlockSize
       /\ IF Cardinality(free) < B * Cardinality(batch)
            THEN pc' = "return" /\ UNCHANGED <<step, todo, blk, free>>
            ELSE /\ pc' = "verify" /\ step' = step + 1 /\ todo' = batch
                 /\ blk' = [r \in Req |-> IF r \in batch
                                           THEN [blk[r] EXCEPT !.loc = part(r)]
                                           ELSE blk[r]]
                 /\ free' = free \ Range(loc)
       /\ UNCHANGED <<args, params, undo, output, batch, changed, seed, row>>

\* The result of the pass for one request.
TidarAccept(r) ==
    /\ pc = "verify" /\ r = (CHOOSE q \in todo : TRUE)
    /\ \E tokens \in Accepted(r) :
         /\ blk' = [blk EXCEPT ![r].res = @ \o tokens, ![r].kv = @ \o tokens,
                               ![r].loc = << >>]
         /\ row' = [row EXCEPT ![r] = @ \o SubSeq(blk[r].loc, 1, Len(tokens))]
         /\ free' = free \cup Range(Rejected(blk[r].loc, Len(tokens)))
    /\ todo' = todo \ {r}
    /\ pc' = IF todo' = {} THEN "quad" ELSE "verify"
    /\ UNCHANGED <<args, params, undo, output, step, batch, changed, seed>>

TidarDone ==
    /\ pc = "quad"
    /\ step >= MaxQuadIters \/ \A r \in batch : Len(blk[r].res) >= BlockSize
    /\ pc' = "return"
    /\ UNCHANGED <<args, params, undo, output, step, todo, batch, blk,
                   changed, seed, slots>>

-----------------------------------------------------------------------------
Run ==
    \/ Forward \/ Finish \/ TidarDraft \/ TidarPass \/ TidarDone \/ Return
    \/ \E r \in Req : Place(r) \/ LinearSpecAccept(r) \/ TidarAccept(r)

Next ==
    \/ Run
    \/ \E r \in Req : Prefill(r) \/ Abort(r)
    \/ \E R \in SUBSET live : StartBlock(R)
    \/ \E o \in Overrides : reconfigure_dllm(o)

Spec == Init /\ [][Next]_vars

\* The process does not stop inside run().
FairSpec == Spec /\ WF_vars(Run)

-----------------------------------------------------------------------------
(* Properties *)

\* No algorithm returns more than a block, and FastDiffuser and LinearSpec never
\* return a mask as an output token, whatever becomes of EOS, the number of steps
\* and the policy.
OutputResolved ==
    pc = "return" => \A r \in batch :
      /\ Len(blk[r].res) <= BlockSize
      /\ algorithm \in {"FastDiffuser", "LinearSpec"} => MASK \notin Range(blk[r].res)

\* The KV that run() leaves is that of the output tokens, so the next block attends
\* to what the user has been sent; only the blocks in which FastDiffuser has
\* force-committed after its last pass are different.
KvMatchesUnlessForced ==
    pc = "return" => \A r \in batch :
      \/ blk[r].forced
      \/ SubSeq(blk[r].kv, 1, Len(blk[r].res)) = blk[r].res

\* The reveal steps that FastDiffuser returns replay its trajectory: the block a
\* token was predicted from holds exactly the tokens with smaller steps.  Of a
\* token that was force-committed under causal_context this is so at its left
\* alone: the tokens of the loop at its right were not attended to.
TrajectoryReplays ==
    pc = "return" /\ algorithm = "FastDiffuser" =>
      \A r \in batch : \A i, j \in Block :
        LET b == blk[r]
            forced == b.commit[i] = params.max_steps
        IN b.ctx[i][j] = IF args.causal_context /\ forced /\ i < j THEN None
                         ELSE IF b.commit[j] < b.commit[i] THEN b.ids[j] ELSE MASK

\* The even schedule places every token within max_steps: only a threshold or
\* the leftmost policy leaves masks to be force-committed.
ScheduleSuffices ==
    pc = "return" /\ (\E r \in batch : blk[r].forced) =>
      \/ params.threshold # None \/ params.selection_policy = "leftmost"
      \/ params.max_steps = 0

\* Under causal_context LinearSpec generates what the causal model alone would, up
\* to and with the first EOS: the drafts, the seeds carried from block to block, and
\* a rid that is used again, change nothing.  Behind EOS a request that ignores it
\* has no seed, and starts its next block from an unverified draft.
OutputIsGreedy ==
    pc = "return" /\ algorithm = "LinearSpec" /\ args.causal_context =>
      \A r \in batch : /\ blk[r].res # << >>
                       /\ IsPrefix(CutAtEos(out[r] \o blk[r].res), Greedy[r])

\* No sequence of overrides leads to a policy and a threshold that the constructor
\* of FastDiffuser would have refused, a refused override sets nothing, and the
\* answer to a reconfiguration is complete: sent back, it is accepted and restores
\* the parameters.
PreviousRestores ==
    /\ params.selection_policy \in {"leftmost", "random"} => params.threshold = None
    /\ undo # None => /\ ~Refused(undo.previous)
                      /\ Updated(undo.previous) = undo.before

\* Between batches every slot is free or holds one token of a live request,
\* although TiDAR frees the scheduler's slots and allocates its own.
SlotsOwnedOnce ==
    pc = "idle" /\ algorithm = "TiDAR" =>
      /\ \A r \in Req : IsInjective(row[r]) /\ free \cap Range(row[r]) = {}
      /\ \A r, q \in Req : r # q => Range(row[r]) \cap Range(row[q]) = {}
      /\ free \cup UNION {Range(row[r]) : r \in Req} = 1..PoolSize
      /\ \A r \in live : Len(row[r]) = PromptLen + Len(out[r])

\* run() always returns: no prediction of the model keeps it in its loop, and no
\* state of it has nothing to do next.
BlockReturns == batch # {} ~> pc = "idle"
=============================================================================
