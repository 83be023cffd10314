------------------------------ MODULE KvStore ------------------------------
(***************************************************************************)
(* What the two memory pools promise to the requests.  Every request has a *)
(* table, the slots of its positions in order.  A table only ever grows by *)
(* slots that were free, and shrinks from its end, giving back exactly the *)
(* slots it drops; a request that ends shrinks to nothing.                 *)
(***************************************************************************)
EXTENDS Naturals, Sequences

CONSTANTS Req, Slots

VARIABLES table, free

vars == <<table, free>>

Init == table = [r \in Req |-> <<>>] /\ free = Slots

OthersKept(r) == \A q \in Req \ {r} : table'[q] = table[q]

Extend(r) ==
    LET old == table[r]
        new == table'[r]
        added == (Len(old) + 1)..Len(new)
    IN /\ Len(old) <= Len(new)
       /\ \A i \in 1..Len(old) : new[i] = old[i]
       /\ \A i \in added : new[i] \in free
       /\ \A i, j \in added : new[i] = new[j] => i = j
       /\ free' = free \ {new[i] : i \in added}
       /\ OthersKept(r)

Shrink(r) ==
    LET old == table[r]
        new == table'[r]
    IN /\ Len(new) <= Len(old)
       /\ \A i \in 1..Len(new) : new[i] = old[i]
       /\ free' = free \cup {old[i] : i \in (Len(new) + 1)..Len(old)}
       /\ OthersKept(r)

Next == \E r \in Req : Extend(r) \/ Shrink(r)

Spec == Init /\ [][Next]_vars
=============================================================================
