---------------------------- MODULE MCHashTable ----------------------------
(* Small instances of module HashTable. *)
EXTENDS HashTable

\* The first two keys have equal hash values, and the third shares their bucket
\* until the capacity is eight.
MCHash == [k \in Keys |-> IF k = "k3" THEN 5 ELSE 1]

MCMaxUsed == [t \in Tables |-> IF t = "a" THEN 4 ELSE 2]

\* The value in dst wins, if there is one.
MCCombine(v1, v2) == IF v1 = NULL THEN v2 ELSE v1
=============================================================================
