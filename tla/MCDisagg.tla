------------------------------ MODULE MCDisagg ------------------------------
(* Instances of Disagg for TLC. *)
EXTENDS Disagg

CONSTANTS r1, r2, r3

Prompts == r1 :> 1 @@ r2 :> 2
ShortPrompts == [r \in Req |-> 1]

\* Few tokens, every fault.
Faulty == [max_new |-> r1 :> 3 @@ r2 :> 1, max_running |-> 1, pmeta |-> 2, dmeta |-> 1,
           faults |-> FaultKinds, early |-> << >>]
\* Outputs that do not fit the decode server together.
Tight == [max_new |-> r1 :> 4 @@ r2 :> 2, max_running |-> 2, pmeta |-> 1, dmeta |-> 2,
          faults |-> {"d_abort"}, early |-> << >>]
\* Two rooms on the decode server, one metadata buffer on the prefill server.
Shared == [max_new |-> r1 :> 1 @@ r2 :> 1, max_running |-> 2, pmeta |-> 1, dmeta |-> 2,
           faults |-> {"p_abort"}, early |-> <<r1, r2>>]

\* Three requests, no fault: the first two do not fit the decode server together.
Three == [max_new |-> r1 :> 5 @@ r2 :> 5 @@ r3 :> 1, max_running |-> 3,
          pmeta |-> 3, dmeta |-> 3, faults |-> {}, early |-> <<r1, r2, r3>>]

Servers == {Faulty, Tight, Shared}
ThreeServers == {Three}
=============================================================================
