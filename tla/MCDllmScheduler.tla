-------------------------- MODULE MCDllmScheduler --------------------------
(* Small instances of DllmScheduler for TLC. *)
EXTENDS DllmSchedulerInv, TLC

CONSTANTS r1, r2

Prompts == [r \in Req |-> IF r = r1 THEN 2 ELSE 4]
MaxNew == [r \in Req |-> IF r = r1 THEN 4 ELSE 1]

\* A request that may run to the end of its context of 14 tokens: max_req_len is
\* context_len - 1, and max_new_tokens is capped at max_req_len - prompt - 1.
LongPrompt == [r \in Req |-> 3]
LongMaxNew == [r \in Req |-> 9]
=============================================================================
