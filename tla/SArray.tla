------------------------------- MODULE SArray -------------------------------
(* The sparse array of internal.h.  Nodes are never initialised and never    *)
(* cleared: whatever they hold, an element counts only if its node points to *)
(* a place below used and the node at that place points back.                *)
EXTENDS Integers

CONSTANTS
  Size,      \* the size given to h_sarray_new
  Words,     \* what the memory of an index may hold: values of a size_t
  Values

ASSUME SArrayAssumption == Size \in Nat /\ 0..Size \subseteq Words /\ Words \subseteq Nat

VARIABLES nodes, used    \* arr->nodes and arr->used

vars == <<nodes, used>>

Indices == 0..Size - 1
Node == [elem : Words, index : Words, content : Values]

\* h_sarray_new: the nodes are what malloc returns.
Init == nodes \in [Indices -> Node] /\ used = 0

h_sarray_isset_Forward(n) == nodes[n].index < used
h_sarray_isset(n) == nodes[n].index < used /\ nodes[nodes[n].index].elem = n

\* The node at an index that is not set yet is listed at place used.
Listed(n) == [m \in Indices |->
                [elem |-> IF m = used THEN n ELSE nodes[m].elem,
                 index |-> IF m = n THEN used ELSE nodes[m].index,
                 content |-> nodes[m].content]]
Stored(ns, n, v) == [m \in Indices |->
                       [elem |-> ns[m].elem, index |-> ns[m].index,
                        content |-> IF m = n THEN v ELSE ns[m].content]]

h_sarray_set_Always(n, v) ==
  /\ nodes' = Stored(Listed(n), n, v)
  /\ used' = used + 1
h_sarray_set(n, v) ==
  IF h_sarray_isset(n) THEN nodes' = Stored(nodes, n, v) /\ used' = used
  ELSE nodes' = Stored(Listed(n), n, v) /\ used' = used + 1

h_sarray_clear == used' = 0 /\ UNCHANGED nodes

Next == h_sarray_clear \/ \E n \in Indices, v \in Values : h_sarray_set(n, v)

Spec == Init /\ [][Next]_vars

-----------------------------------------------------------------------------
(* Properties. *)

\* What h_sarray_isset and h_sarray_get show.
Shown == [n \in {m \in Indices : h_sarray_isset(m)} |-> nodes[n].content]

\* Whatever was in the memory, the array is a map that is empty at first and
\* after h_sarray_clear, and changes at n alone in h_sarray_set.
Map == INSTANCE SparseMap WITH map <- Shown
IsSparseMap == Map!Spec

\* The array is never written beyond its end.
InBounds == used <= Size
=============================================================================
