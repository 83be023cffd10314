----------------------------- MODULE MCOrdinary -----------------------------
(* Instances of OrdinaryScheduler for TLC. *)
EXTENDS OrdinaryScheduler

CONSTANTS r1, r2, r3

\* Prompts with a common prefix; the second is longer than a chunk, and the two
\* together outgrow the pool.  A third one competes with the second for memory.
SharedPrompts == (r1 :> <<1, 1, 1>>) @@ (r2 :> <<1, 1, 1, 1, 1>>) @@ (r3 :> <<2, 2, 2>>)
ManyTokens == (r1 :> 7) @@ (r2 :> 6) @@ (r3 :> 6)
UrgentLast == (r1 :> 0) @@ (r2 :> 1) @@ (r3 :> 1)
=============================================================================
