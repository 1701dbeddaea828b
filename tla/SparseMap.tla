----------------------------- MODULE SparseMap -----------------------------
(* What a HSArray promises: a map from indices to values that can be emptied *)
(* at no cost.  Module SArray implements it.                                 *)
CONSTANTS Indices, Values

VARIABLE map

Init == map = [n \in {} |-> n]

Set(n, v) == map' = [m \in DOMAIN map \cup {n} |-> IF m = n THEN v ELSE map[m]]

Clear == map' = [n \in {} |-> n]

Next == Clear \/ \E n \in Indices, v \in Values : Set(n, v)

Spec == Init /\ [][Next]_map
=============================================================================
