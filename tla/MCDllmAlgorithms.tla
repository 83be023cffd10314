-------------------------- MODULE MCDllmAlgorithms --------------------------
(* Small instances of DllmAlgorithms for TLC. *)
EXTENDS DllmAlgorithmsInv

CONSTANTS r1, r2, a

\* One request generates EOS inside a block, the other runs into its limit.
Continuations == [r \in Req |-> IF r = r1 THEN <<a, a, a, EOS, a, a, a, a, a>>
                                ELSE <<a, a, a, a, a, a, EOS, a, a>>]

Server(al, n, causal, R, ignore) ==
    [algorithm |-> al, block_size |-> n, causal_context |-> causal, rids |-> R,
     ignore_eos |-> ignore]

\* One request where the order of the reveals matters, two where they interact.
Servers ==
    {Server(al, 2, FALSE, Req, {}) : al \in {"LowConfidence", "JointThreshold", "TiDAR"}}
    \cup {Server("FastDiffuser", 2, TRUE, Req, {r2}),
          Server("LinearSpec", 3, TRUE, Req, {r1}),
          Server("LinearSpec", 2, FALSE, Req, {})}
    \cup {Server("FastDiffuser", 3, causal, {r1}, {}) : causal \in BOOLEAN}
=============================================================================
