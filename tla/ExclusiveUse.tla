---------------------------- MODULE ExclusiveUse -----------------------------
(***************************************************************************)
(* What locking is for: a user takes a set of resources in one step, no    *)
(* resource is in two hands at once, and everything taken is given back in *)
(* one step.                                                               *)
(***************************************************************************)
CONSTANTS Users, Resources

VARIABLE using   \* using[u]: the resources user u works on

Init == using = [u \in Users |-> {}]

Take(u, R) ==
    /\ using[u] = {}
    /\ \A v \in Users : using[v] \cap R = {}
    /\ using' = [using EXCEPT ![u] = R]

GiveBack(u) == using' = [using EXCEPT ![u] = {}]

Next == \E u \in Users : GiveBack(u) \/ \E R \in SUBSET Resources : Take(u, R)

Spec == Init /\ [][Next]_using
=============================================================================
