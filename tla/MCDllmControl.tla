--------------------------- MODULE MCDllmControl ---------------------------
(* Small instances of DllmControl and DllmRetract for TLC. *)
EXTENDS DllmRetract, DllmSchedulerInv

CONSTANTS r1, r2

Prompts == [r \in Req |-> IF r = r1 THEN 2 ELSE 1]
MaxNew == [r \in Req |-> IF r = r2 THEN 2 ELSE 3]
=============================================================================
