-------------------------------- MODULE Map --------------------------------
(* What a HHashTable promises: a finite map from keys to values.  Module     *)
(* HashTable implements it.                                                  *)
EXTENDS Functions

CONSTANTS Tables, Keys, Values, Combine(_, _)

VARIABLE map     \* map[t]: the map that table t holds

\* The value of k, or NULL if it has none; NULL may be a value, too.
Lookup(m, k) == IF k \in DOMAIN m THEN m[k] ELSE "NULL"

\* One map laid over another.
Over(m, n) == [k \in DOMAIN m \cup DOMAIN n |-> IF k \in DOMAIN n THEN n[k] ELSE m[k]]

Init == map = [t \in Tables |-> <<>>]

Put(t, k, v) == map' = [map EXCEPT ![t] = Over(@, [x \in {k} |-> v])]

Del(t, k) == map' = [map EXCEPT ![t] = Restrict(@, DOMAIN @ \ {k})]

Update(t, u) == map' = [map EXCEPT ![t] = Over(@, map[u])]

Merge(t, u) ==
  map' = [map EXCEPT ![t] =
            Over(@, [k \in DOMAIN map[u] |-> Combine(Lookup(@, k), map[u][k])])]

Next ==
  \E t \in Tables :
    \/ \E k \in Keys, v \in Values : Put(t, k, v)
    \/ \E k \in Keys : Del(t, k)
    \/ \E u \in Tables \ {t} : Update(t, u) \/ Merge(t, u)

Spec == Init /\ [][Next]_map
=============================================================================
