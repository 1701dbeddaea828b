----------------------------- MODULE HashTable -----------------------------
(* HHashTable of datastructures.c: an array of buckets, each an entry with a *)
(* chain of further entries behind it.  A deleted entry is overwritten by    *)
(* its successor, or, at the end of the chain, emptied and left in place.    *)
(*                                                                           *)
(* Tables are used by put, update and merge, and deletions are last in,      *)
(* first out, which is how grow in packrat.c, the only caller of             *)
(* h_hashtable_del, uses the recursion heads: a position is entered when its *)
(* recursion starts to grow, and removed before an outer one ends.           *)
EXTENDS Integers, SequencesExt, FiniteSetsExt

CONSTANTS
  Tables,            \* names of the tables
  Keys, Values,
  Hash,              \* hashFunc
  Combine(_, _),     \* the combine argument of h_hashtable_merge
  InitialCapacity,   \* 64 in h_hashtable_new
  MaxUsed            \* bound on ht->used of each table: it is never decremented

ASSUME HashTableAssumption ==
  /\ "NULL" \notin Keys
  /\ Hash \in [Keys -> Nat]
  /\ InitialCapacity \in Nat \ {0} /\ MaxUsed \in [Tables -> Nat]

VARIABLES
  tables,   \* tables[t]: the HHashTable
  pc,       \* "idle", or where in the running operation
  call,     \* the locals of h_hashtable_put and what it calls, or Nothing
  loop,     \* the locals of h_hashtable_update or h_hashtable_merge, or Nothing
  was,      \* what the tables held when the operation began, see Maps (history)
  entered   \* entered[t]: the keys of t in the order they were entered (history)

vars == <<tables, pc, call, loop, was, entered>>

NULL == "NULL"
Empty == [key |-> NULL, value |-> NULL, hashval |-> 0]

\* A bucket is the sequence of its entries; the first one is part of the array.
NewTable(capacity) ==
  [capacity |-> capacity, used |-> 0, contents |-> [b \in 0..capacity - 1 |-> <<Empty>>]]

Entry(k, v) == [key |-> k, value |-> v, hashval |-> Hash[k]]

\* contents[hashval & (capacity - 1)]; capacities are powers of two.
Bucket(ht, hashval) == ht.contents[hashval % ht.capacity]

\* The entries of a bucket that the key is found at, and the first of them.
Matches(hashval, k, chain) ==
  {i \in DOMAIN chain : chain[i].hashval = hashval /\ chain[i].key = k}
Link(hashval, k, chain) == Min(Matches(hashval, k, chain))

h_hashtable_get(ht, k) ==
  LET chain == Bucket(ht, Hash[k])
  IN IF Matches(Hash[k], k, chain) = {} THEN NULL
     ELSE chain[Link(Hash[k], k, chain)].value

h_hashtable_present(ht, k) == Matches(Hash[k], k, Bucket(ht, Hash[k])) # {}

-----------------------------------------------------------------------------
(* Putting. *)

\* An entry goes to the head of an empty bucket, over the entry with its key,
\* or into a new link.
PutInChain(chain, e) ==
  IF Head(chain).key = NULL THEN [chain EXCEPT ![1] = e]
  ELSE IF Matches(e.hashval, e.key, chain) # {}
       THEN [chain EXCEPT ![Link(e.hashval, e.key, chain)] = e]
       ELSE Append(chain, e)

\* ht->used counts entries taken, whether deleted since or not.
Takes(chain, e) ==
  Head(chain).key = NULL \/ Matches(e.hashval, e.key, chain) = {}

h_hashtable_put_raw(ht, e) ==
  [capacity |-> ht.capacity,
   used |-> ht.used + IF Takes(Bucket(ht, e.hashval), e) THEN 1 ELSE 0,
   contents |-> [ht.contents EXCEPT ![e.hashval % ht.capacity] = PutInChain(@, e)]]

-----------------------------------------------------------------------------
(* Deleting. *)

\* The entry is overwritten by the next one, whose own place is given up; the
\* last entry of a chain is emptied.
DelInChain(chain, i) ==
  IF i < Len(chain) THEN RemoveAt(chain, i) ELSE [chain EXCEPT ![i] = Empty]

h_hashtable_del(ht, k) ==
  IF Matches(Hash[k], k, Bucket(ht, Hash[k])) = {} THEN ht
  ELSE [capacity |-> ht.capacity, used |-> ht.used,
        contents |-> [ht.contents EXCEPT ![Hash[k] % ht.capacity] =
                        DelInChain(@, Link(Hash[k], k, @))]]

-----------------------------------------------------------------------------
(* Equality of sets. *)

Live(chain) == {i \in DOMAIN chain : chain[i].key # NULL}

\* Both chains are advanced past their first entry, used or not, and over
\* empty links from there on.
hte_same_length_Links(xs, ys) == Len(xs) = Len(ys)
hte_same_length(xs, ys) ==
  Cardinality(Live(xs) \ {1}) = Cardinality(Live(ys) \ {1})

hte_subset(xs, ys) ==
  \A i \in Live(xs) : \E j \in DOMAIN ys : ys[j].key = xs[i].key

h_hashset_equal(a, b) ==
  \A n \in 0..a.capacity - 1 :
    /\ hte_same_length(a.contents[n], b.contents[n])
    /\ hte_subset(a.contents[n], b.contents[n])

-----------------------------------------------------------------------------
(* The operations.  One round of a loop over an array is a step. *)

Present(ht) == {k \in Keys : h_hashtable_present(ht, k)}

\* The map a table stands for, as h_hashtable_present and h_hashtable_get
\* show it.
MapOf(ht) == [k \in Present(ht) |-> h_hashtable_get(ht, k)]
Maps == [t \in Tables |-> MapOf(tables[t])]

Nothing == [how |-> "none"]

Init ==
  /\ tables = [t \in Tables |-> NewTable(InitialCapacity)]
  /\ pc = "idle" /\ call = Nothing /\ loop = Nothing /\ was = <<>>
  /\ entered = [t \in Tables |-> <<>>]

\* The loops over buckets and chains: where they start, the entry they visit,
\* and the next place.
Start == [bucket |-> 0, link |-> 1]
Visited(at, ht) == ht.contents[at.bucket][at.link]

Advanced_Heads(at, ht) ==      \* mutant: the links behind the head are left out
  [bucket |-> at.bucket + 1, link |-> 1]

Advanced(at, ht) ==
  IF at.link < Len(ht.contents[at.bucket]) THEN [bucket |-> at.bucket, link |-> at.link + 1]
  ELSE [bucket |-> at.bucket + 1, link |-> 1]

\* h_hashtable_put is called.
Call(t, e) ==
  /\ pc' = "grow"
  /\ call' = [table |-> t, entry |-> e, old |-> tables[t], at |-> Start]

Put(t, k, v) ==
  /\ pc = "idle" /\ tables[t].used < MaxUsed[t]
  /\ Call(t, Entry(k, v)) /\ was' = Maps
  /\ UNCHANGED <<tables, loop, entered>>

HT == tables[call.table]
SetHT(ht) == tables' = [tables EXCEPT ![call.table] = ht]

\* h_hashtable_ensure_capacity(ht, ht->used + 1): n * 1.3 exceeds the capacity.
Tight == 13 * (HT.used + 1) > 10 * HT.capacity

Grow ==
  /\ pc = "grow" /\ Tight
  /\ SetHT([capacity |-> 2 * HT.capacity, used |-> HT.used, contents |-> HT.contents])
  /\ UNCHANGED <<pc, call, loop, was, entered>>

NoResize ==
  /\ pc = "grow" /\ ~Tight /\ HT.capacity = call.old.capacity
  /\ pc' = "put_raw"
  /\ UNCHANGED <<tables, call, loop, was, entered>>

Resize ==
  /\ pc = "grow" /\ ~Tight /\ HT.capacity # call.old.capacity
  /\ SetHT(NewTable(HT.capacity))
  /\ pc' = "rehash"
  /\ UNCHANGED <<call, loop, was, entered>>

Rehash ==
  /\ pc = "rehash" /\ call.at.bucket < call.old.capacity
  /\ LET e == Visited(call.at, call.old)
     IN IF e.key = NULL THEN UNCHANGED tables ELSE SetHT(h_hashtable_put_raw(HT, e))
  /\ call' = [call EXCEPT !.at = Advanced(@, call.old)]
  /\ UNCHANGED <<pc, loop, was, entered>>

Rehashed ==
  /\ pc = "rehash" /\ call.at.bucket = call.old.capacity
  /\ pc' = "put_raw"
  /\ UNCHANGED <<tables, call, loop, was, entered>>

\* The entry is put, and h_hashtable_put returns.
PutRaw ==
  /\ pc = "put_raw"
  /\ SetHT(h_hashtable_put_raw(HT, call.entry))
  /\ entered' = [entered EXCEPT ![call.table] =
                   IF call.entry.key \in Range(@) THEN @ ELSE Append(@, call.entry.key)]
  /\ call' = Nothing
  /\ IF loop = Nothing THEN pc' = "idle" /\ was' = <<>> ELSE pc' = "loop" /\ UNCHANGED was
  /\ UNCHANGED loop

\* h_hashtable_update and h_hashtable_merge: how tells which.
Loop(how, t, u) ==
  /\ pc = "idle" /\ tables[t].used + Len(entered[u]) <= MaxUsed[t]
  /\ pc' = "loop" /\ was' = Maps
  /\ loop' = [how |-> how, dst |-> t, src |-> u, at |-> Start]
  /\ UNCHANGED <<tables, call, entered>>

Update(t, u) == Loop("update", t, u)
Merge(t, u) == Loop("merge", t, u)

\* Every entry of src is put, or its combination with the value in dst.
PutNext ==
  /\ pc = "loop" /\ loop.at.bucket < tables[loop.src].capacity
  /\ LET e == Visited(loop.at, tables[loop.src])
         value == IF loop.how = "update" THEN e.value
                  ELSE Combine(h_hashtable_get(tables[loop.dst], e.key), e.value)
     IN IF e.key = NULL THEN UNCHANGED <<pc, call>> ELSE Call(loop.dst, Entry(e.key, value))
  /\ loop' = [loop EXCEPT !.at = Advanced(@, tables[loop.src])]
  /\ UNCHANGED <<tables, was, entered>>

LoopEnd ==
  /\ pc = "loop" /\ loop.at.bucket = tables[loop.src].capacity
  /\ pc' = "idle" /\ loop' = Nothing /\ was' = <<>>
  /\ UNCHANGED <<tables, call, entered>>

Del(t) ==
  /\ pc = "idle" /\ entered[t] # <<>>
  /\ tables' = [tables EXCEPT ![t] = h_hashtable_del(@, Last(entered[t]))]
  /\ entered' = [entered EXCEPT ![t] = Front(@)]
  /\ UNCHANGED <<pc, call, loop, was>>

Next ==
  \/ \E t \in Tables :
       \/ \E k \in Keys, v \in Values : Put(t, k, v)
       \/ Del(t)
       \/ \E u \in Tables \ {t} : Update(t, u) \/ Merge(t, u)
  \/ Grow \/ NoResize \/ Resize \/ Rehash \/ Rehashed \/ PutRaw \/ PutNext \/ LoopEnd

Spec == Init /\ [][Next]_vars

-----------------------------------------------------------------------------
(* Properties. *)

\* Callers see a table before and after an operation.
Shown == IF pc = "idle" THEN Maps ELSE was
M == INSTANCE Map WITH map <- Shown

\* Through h_hashtable_present and h_hashtable_get a table is a map: chains,
\* emptied links and rehashing into a larger array do not show.
IsMap == M!Spec

\* Two tables of equal capacity with the same keys are equal hash sets,
\* whatever order they were entered in and whatever was deleted from them.
\* (The converse fails: an empty bucket is as long as one with one entry.)
EqualSetsAgree ==
  pc = "idle" =>
    \A t, u \in Tables :
      tables[t].capacity = tables[u].capacity /\ Present(tables[t]) = Present(tables[u]) =>
        h_hashset_equal(tables[t], tables[u])
=============================================================================
