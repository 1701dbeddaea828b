---------------------------- MODULE SArrayProofs ----------------------------
(* The sparse array implements a map, whatever its memory held at first.     *)
EXTENDS SArray, FiniteSetTheorems, TLAPS

\* The places below u and the elements listed there point to each other.
OK(ns, u) == /\ ns \in [Indices -> Node]
             /\ u \in 0..Size
             /\ \A i \in 0..u - 1 : ns[i].elem \in Indices /\ ns[ns[i].elem].index = i
IInv == OK(nodes, used)

Elems(ns, u) == {ns[i].elem : i \in 0..u - 1}

\* An element counts exactly if it is listed.
LEMMA SetIffListed ==
  ASSUME NEW ns, NEW u, OK(ns, u)
  PROVE  {m \in Indices : ns[m].index < u /\ ns[ns[m].index].elem = m} = Elems(ns, u)
<1>1. u \in Nat /\ \A m \in Indices : ns[m].index \in Nat
  BY SArrayAssumption DEF OK, Node
<1>2. ASSUME NEW m \in Indices, ns[m].index < u, ns[ns[m].index].elem = m
      PROVE  m \in Elems(ns, u)
  BY <1>1, <1>2 DEF Elems
<1>3. ASSUME NEW i \in 0..u - 1
      PROVE  /\ ns[i].elem \in Indices
             /\ ns[ns[i].elem].index < u /\ ns[ns[ns[i].elem].index].elem = ns[i].elem
  BY <1>1, <1>3 DEF OK
<1>4. QED
  BY <1>2, <1>3 DEF Elems

\* So the map that is shown has the listed elements.
LEMMA ShowsListed ==
  ASSUME IInv
  PROVE  Shown = [n \in Elems(nodes, used) |-> nodes[n].content]
BY SetIffListed DEF IInv, Shown, h_sarray_isset

\* The same of the next state.
LEMMA ShowsListedNext ==
  ASSUME IInv'
  PROVE  Shown' = [n \in Elems(nodes', used') |-> nodes'[n].content]
BY SetIffListed DEF IInv, Shown, h_sarray_isset

\* If an element is not set there is room: the elements listed are different
\* ones, and none of them is n.
LEMMA Room ==
  ASSUME IInv, NEW n \in Indices, ~h_sarray_isset(n)
  PROVE  used < Size
<1> DEFINE P == 0..used - 1
           E == Indices \ {n}
           f == [i \in P |-> nodes[i].elem]
<1>1. used \in Nat /\ Size \in Nat /\ n \in 0..Size - 1
  BY SArrayAssumption DEF IInv, OK, Indices
<1>2. \A i \in P : i \in Indices /\ i \in Nat /\ i < used
  BY <1>1 DEF IInv, OK, Indices
<1>3. \A i \in P : nodes[i].elem \in Indices /\ nodes[nodes[i].elem].index = i
  BY DEF IInv, OK
<1>4. \A i \in P : nodes[i].elem # n
  <2>1. SUFFICES ASSUME NEW i \in P, nodes[i].elem = n PROVE FALSE
    OBVIOUS
  <2>2. nodes[n].index = i /\ i < used
    BY <1>2, <1>3, <2>1
  <2>3. QED
    BY <2>1, <2>2 DEF h_sarray_isset
<1>5. f \in Injection(P, E)
  <2>1. f \in [P -> E]
    BY <1>3, <1>4
  <2>2. \A i, j \in P : f[i] = f[j] => i = j
    BY <1>3
  <2>3. QED
    BY <2>1, <2>2, Zenon DEF Injection, IsInjective
<1>6. IsFiniteSet(Indices) /\ Cardinality(Indices) = Size
  <2>1. IsFiniteSet(0..Size - 1) /\ Cardinality(0..Size - 1) = IF 0 > Size - 1 THEN 0 ELSE (Size - 1) - 0 + 1
    BY <1>1, FS_Interval
  <2>2. QED
    BY <1>1, <2>1 DEF Indices
<1>7. IsFiniteSet(E) /\ Cardinality(E) = Size - 1
  BY <1>6, FS_RemoveElement
<1>8. IsFiniteSet(P) /\ Cardinality(P) = used
  <2>1. IsFiniteSet(0..used - 1) /\ Cardinality(0..used - 1) = IF 0 > used - 1 THEN 0 ELSE (used - 1) - 0 + 1
    BY <1>1, FS_Interval
  <2>2. QED
    BY <1>1, <2>1
<1>9. Cardinality(P) <= Cardinality(E)
  BY <1>5, <1>7, FS_Injection
<1>10. QED
  BY <1>1, <1>7, <1>8, <1>9

\* Fresh memory has nothing set, whatever it holds.
LEMMA InitOK ==
  ASSUME Init
  PROVE  IInv /\ Map!Init
<1>1. IInv
  BY SArrayAssumption DEF Init, IInv, OK
<1>2. Elems(nodes, used) = {}
  BY DEF Init, Elems
<1>3. QED
  BY <1>1, <1>2, ShowsListed DEF Map!Init

\* h_sarray_clear.
LEMMA ClearOK ==
  ASSUME IInv, h_sarray_clear
  PROVE  IInv' /\ Map!Clear
<1>1. IInv'
  BY SArrayAssumption DEF h_sarray_clear, IInv, OK
<1>2. Elems(nodes', used') = {}
  BY DEF h_sarray_clear, Elems
<1>3. QED
  BY <1>1, <1>2, ShowsListedNext DEF Map!Clear

\* h_sarray_set at an index that is set.
LEMMA SetOldOK ==
  ASSUME IInv, NEW n \in Indices, NEW v \in Values, h_sarray_isset(n), h_sarray_set(n, v)
  PROVE  IInv' /\ Map!Set(n, v)
<1>1. nodes' = Stored(nodes, n, v) /\ used' = used
  BY DEF h_sarray_set
<1>2. nodes' \in [Indices -> Node]
  BY <1>1 DEF Stored, IInv, OK, Node
<1>3. \A m \in Indices : /\ nodes'[m].elem = nodes[m].elem /\ nodes'[m].index = nodes[m].index
                         /\ nodes'[m].content = IF m = n THEN v ELSE nodes[m].content
  BY <1>1 DEF Stored
<1>4. \A i \in 0..used - 1 : i \in Indices
  BY SArrayAssumption DEF IInv, OK, Indices
<1>5. IInv'
  BY <1>1, <1>2, <1>3, <1>4 DEF IInv, OK
<1>6. Elems(nodes', used') = Elems(nodes, used)
  BY <1>1, <1>3, <1>4 DEF Elems
<1>7. n \in Elems(nodes, used) /\ Elems(nodes, used) \subseteq Indices
  BY SetIffListed DEF IInv, h_sarray_isset
<1>8. Shown' = [m \in Elems(nodes, used) |-> IF m = n THEN v ELSE nodes[m].content]
  BY <1>3, <1>5, <1>6, <1>7, ShowsListedNext
<1>9. QED
  BY <1>5, <1>7, <1>8, ShowsListed DEF Map!Set

\* h_sarray_set at an index that is not set.
LEMMA SetNewOK ==
  ASSUME IInv, NEW n \in Indices, NEW v \in Values, ~h_sarray_isset(n), h_sarray_set(n, v)
  PROVE  IInv' /\ Map!Set(n, v)
<1>1. nodes' = Stored(Listed(n), n, v) /\ used' = used + 1
  BY DEF h_sarray_set
<1>2. used < Size /\ used \in Nat /\ Size \in Nat /\ used \in Indices
  BY Room, SArrayAssumption DEF IInv, OK, Indices
<1>3. \A m \in Indices : /\ nodes'[m].elem = IF m = used THEN n ELSE nodes[m].elem
                         /\ nodes'[m].index = IF m = n THEN used ELSE nodes[m].index
                         /\ nodes'[m].content = IF m = n THEN v ELSE nodes[m].content
  BY <1>1 DEF Stored, Listed
<1>4. nodes' \in [Indices -> Node]
  <2>1. n \in Words /\ used \in Words
    BY <1>2, SArrayAssumption DEF Indices
  <2>2. QED
    BY <1>1, <2>1 DEF Stored, Listed, IInv, OK, Node
<1>5. \A i \in 0..used - 1 : i \in Indices /\ i # used /\ nodes[i].elem # n
  <2>1. \A i \in 0..used - 1 : i \in Indices /\ i # used
    BY <1>2 DEF Indices
  <2>2. n \notin Elems(nodes, used)
    BY SetIffListed DEF IInv, h_sarray_isset
  <2>3. QED
    BY <2>1, <2>2 DEF Elems
<1>6. \A i \in 0..used' - 1 : nodes'[i].elem \in Indices /\ nodes'[nodes'[i].elem].index = i
  <2>1. ASSUME NEW i \in 0..used - 1
        PROVE  nodes'[i].elem \in Indices /\ nodes'[nodes'[i].elem].index = i
    BY <1>3, <1>5 DEF IInv, OK
  <2>2. nodes'[used].elem = n /\ nodes'[n].index = used
    BY <1>2, <1>3
  <2>3. \A i \in 0..used' - 1 : i = used \/ i \in 0..used - 1
    BY <1>1, <1>2
  <2>4. QED
    BY <2>1, <2>2, <2>3
<1>7. IInv'
  BY <1>1, <1>2, <1>4, <1>6 DEF IInv, OK
<1>8. Elems(nodes', used') = Elems(nodes, used) \cup {n}
  <2>1. \A i \in 0..used' - 1 : nodes'[i].elem \in Elems(nodes, used) \cup {n}
    BY <1>1, <1>2, <1>3, <1>5 DEF Elems
  <2>2. \A i \in 0..used - 1 : nodes[i].elem \in Elems(nodes', used')
    <3>1. SUFFICES ASSUME NEW i \in 0..used - 1 PROVE nodes[i].elem \in Elems(nodes', used')
      OBVIOUS
    <3>2. i \in 0..used' - 1 /\ nodes'[i].elem = nodes[i].elem
      BY <1>1, <1>2, <1>3, <1>5
    <3>3. QED
      BY <3>2 DEF Elems
  <2>3. n \in Elems(nodes', used')
    <3>1. used \in 0..used' - 1 /\ nodes'[used].elem = n
      BY <1>1, <1>2, <1>3
    <3>2. QED
      BY <3>1 DEF Elems
  <2>4. QED
    BY <2>1, <2>2, <2>3 DEF Elems
<1>9. Elems(nodes, used) \subseteq Indices
  BY SetIffListed DEF IInv
<1>10. Shown' = [m \in Elems(nodes, used) \cup {n} |-> IF m = n THEN v ELSE nodes[m].content]
  BY <1>3, <1>7, <1>8, <1>9, ShowsListedNext
<1>11. QED
  BY <1>7, <1>10, ShowsListed DEF Map!Set

\* The invariant is inductive, and every step is one of the map.
LEMMA StepOK ==
  ASSUME IInv, [Next]_vars
  PROVE  IInv' /\ [Map!Next]_Shown
<1>1. CASE h_sarray_clear
  BY <1>1, ClearOK DEF Map!Next
<1>2. ASSUME NEW n \in Indices, NEW v \in Values, h_sarray_set(n, v)
      PROVE  IInv' /\ Map!Next
  BY <1>2, SetOldOK, SetNewOK DEF Map!Next
<1>3. CASE UNCHANGED vars
  BY <1>3 DEF vars, IInv, Shown, h_sarray_isset
<1>4. QED
  BY <1>1, <1>2, <1>3 DEF Next

\* The sparse array implements a map, for every size and whatever the memory
\* held that h_sarray_new did not initialise.
THEOREM SArrayIsMap == Spec => IsSparseMap
<1>1. Init => IInv /\ Map!Init
  BY InitOK
<1>2. IInv /\ [Next]_vars => IInv' /\ [Map!Next]_Shown
  BY StepOK
<1>3. QED
  BY <1>1, <1>2, PTL DEF Spec, IsSparseMap, Map!Spec

\* No node is written beyond the end of the array, although h_sarray_set does
\* not look at its capacity.
THEOREM SArrayInBounds == Spec => []InBounds
<1>1. Init => IInv
  BY InitOK
<1>2. IInv /\ [Next]_vars => IInv'
  BY StepOK
<1>3. IInv => InBounds
  BY SArrayAssumption DEF IInv, OK, InBounds
<1>4. QED
  BY <1>1, <1>2, <1>3, PTL DEF Spec
=============================================================================
