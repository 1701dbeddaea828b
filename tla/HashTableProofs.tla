-------------------------- MODULE HashTableProofs --------------------------
(* A hash table is a map, for every hash function and capacity.              *)
EXTENDS HashTable, FiniteSetTheorems, SequenceTheorems, TLAPS

IsSeq(s) == s \in Seq(Range(s))

\* The keys in the order they were entered: each of them once.
IsOrder(s) == s \in Seq(Keys) /\ \A i, j \in DOMAIN s : s[i] = s[j] => i = j
Precedes(s, k, l) == \E i, j \in DOMAIN s : i < j /\ s[i] = k /\ s[j] = l

Used(c) == c.key # NULL

\* An entry in bucket b of an array of this capacity.
EntryOK(e, b, capacity, s) ==
  Used(e) => /\ e.key \in Keys /\ e.key \in Range(s)
             /\ e.hashval = Hash[e.key] /\ Hash[e.key] % capacity = b

\* The entries of a chain that are used are in the order they were entered, and
\* only a chain without them has an empty head.
ChainOK(chain, b, capacity, s) ==
  /\ IsSeq(chain) /\ chain # <<>>
  /\ \A i \in DOMAIN chain : EntryOK(chain[i], b, capacity, s)
  /\ \A i, j \in DOMAIN chain :
       i < j /\ Used(chain[i]) /\ Used(chain[j]) => Precedes(s, chain[i].key, chain[j].key)
  /\ ~Used(chain[1]) => \A i \in DOMAIN chain : ~Used(chain[i])

IsTable(ht) ==
  /\ ht = [capacity |-> ht.capacity, used |-> ht.used, contents |-> ht.contents]
  /\ ht.capacity \in Nat \ {0} /\ ht.used \in Nat

TableOK(ht, s) ==
  /\ IsTable(ht)
  /\ ht.contents = [b \in 0..ht.capacity - 1 |-> ht.contents[b]]
  /\ \A b \in 0..ht.capacity - 1 : ChainOK(ht.contents[b], b, ht.capacity, s)

\* Nothing that was entered is missing.
Holding(ht, s) == TableOK(ht, s) /\ Range(s) \subseteq Present(ht)

\* A place of a loop over a table, and the keys it has passed.
PlaceOK(at, ht) ==
  /\ at.bucket \in 0..ht.capacity
  /\ at.bucket < ht.capacity => at.link \in DOMAIN ht.contents[at.bucket]
  /\ at.bucket = ht.capacity => at.link = 1
Before(b, l, at) == b < at.bucket \/ (b = at.bucket /\ l < at.link)
Passed(at, ht) == {k \in Keys : \E b \in 0..ht.capacity - 1 : \E l \in DOMAIN ht.contents[b] :
                                  ht.contents[b][l].key = k /\ Before(b, l, at)}

\* What the passed entries are as a map.
Part(at, ht) == [k \in Passed(at, ht) |-> h_hashtable_get(ht, k)]

Multiple(c, d) == \E m \in 1..c : c = d * m

\* The locals of h_hashtable_put, for a table whose keys were entered in order s.
CallOK(c, s) ==
  /\ c = [table |-> c.table, entry |-> c.entry, old |-> c.old, at |-> c.at]
  /\ c.table \in Tables /\ c.entry.key \in Keys /\ c.entry.hashval = Hash[c.entry.key]
  /\ Holding(c.old, s)

\* While ht is grown, filled from the old array, and when that is done.
Growing(c, ht) ==
  /\ IsTable(ht) /\ ht.contents = c.old.contents /\ ht.used = c.old.used
  /\ Multiple(ht.capacity, c.old.capacity) /\ c.at = Start
Copying(c, ht, s) ==
  /\ TableOK(ht, s) /\ Multiple(ht.capacity, c.old.capacity)
  /\ PlaceOK(c.at, c.old) /\ MapOf(ht) = Part(c.at, c.old)
Copied(c, ht) == MapOf(ht) = MapOf(c.old)

\* The locals of h_hashtable_update and h_hashtable_merge.
LoopOK(lp, src) ==
  /\ lp = [how |-> lp.how, dst |-> lp.dst, src |-> lp.src, at |-> lp.at]
  /\ lp.how \in {"update", "merge"}
  /\ lp.dst \in Tables /\ lp.src \in Tables /\ lp.dst # lp.src
  /\ PlaceOK(lp.at, src)

\* What the loop has to give to a key of src, and what dst holds by then.
Given(w, lp, k) ==
  IF lp.how = "update" THEN w[lp.src][k] ELSE Combine(M!Lookup(w[lp.dst], k), w[lp.src][k])
Goal(w, lp, src) == M!Over(w[lp.dst], [k \in Passed(lp.at, src) |-> Given(w, lp, k)])

\* A map with one more entry.
With(map, e) == M!Over(map, [k \in {e.key} |-> e.value])

Putting == pc \in {"grow", "rehash", "put_raw"}

\* The table that is changed.
Target == IF Putting THEN call.table ELSE loop.dst

TypeInv ==
  /\ pc \in {"idle", "grow", "rehash", "put_raw", "loop"}
  /\ tables = [t \in Tables |-> tables[t]]
  /\ entered = [t \in Tables |-> entered[t]] /\ \A t \in Tables : IsOrder(entered[t])

TablesInv ==
  \A t \in Tables : ~(pc \in {"grow", "rehash"} /\ t = call.table) => Holding(tables[t], entered[t])

CallInv ==
  /\ Putting => CallOK(call, entered[call.table])
  /\ pc = "grow" => Growing(call, HT)
  /\ pc = "rehash" => Copying(call, HT, entered[call.table])
  /\ pc = "put_raw" => Copied(call, HT)

WasInv ==
  pc # "idle" => /\ was = [t \in Tables |-> was[t]]
                 /\ \A t \in Tables : t # Target => was[t] = MapOf(tables[t])

LoopInv ==
  /\ pc = "idle" => loop = Nothing
  /\ pc = "loop" =>
       LoopOK(loop, tables[loop.src]) /\ MapOf(tables[loop.dst]) = Goal(was, loop, tables[loop.src])
  /\ Putting =>
       \/ /\ loop = Nothing /\ call.entry.value \in Values
          /\ was[call.table] = MapOf(call.old)
       \/ /\ LoopOK(loop, tables[loop.src]) /\ call.table = loop.dst
          /\ With(MapOf(call.old), call.entry) = Goal(was, loop, tables[loop.src])

IInv == TypeInv /\ TablesInv /\ CallInv /\ WasInv /\ LoopInv

-----------------------------------------------------------------------------
(* Numbers and sequences. *)

LEMMA Quotient ==
  ASSUME NEW x \in Nat, NEW n \in Nat \ {0}
  PROVE  \A q, r : q = x \div n /\ r = x % n => q \in Int /\ r \in 0..n - 1 /\ x = q * n + r
  <1> TAKE q, r
  <1> HAVE q = x \div n /\ r = x % n
  <1>1. q \in Int
    OBVIOUS
  <1>2. r \in 0..n - 1
    OBVIOUS
  <1>3. x = q * n + r
    <2>1. x \in Int /\ n \in Int /\ n > 0
      OBVIOUS
    <2> QED BY <2>1
  <1> QED BY <1>1, <1>2, <1>3

LEMMA Remainder ==
  ASSUME NEW n \in Nat \ {0}, NEW q \in Int, NEW r \in 0..n - 1
  PROVE  (n * q + r) % n = r
  OBVIOUS

\* All entries of a bucket come from one bucket when the capacity was multiplied.
LEMMA ModMod ==
  ASSUME NEW x \in Nat, NEW c \in Nat \ {0}, NEW m \in Nat \ {0}
  PROVE  (x % (c * m)) % c = x % c
  <1>1. PICK d : d = c * m
    OBVIOUS
  <1>2. d \in Nat \ {0}
    BY <1>1
  <1>3. PICK r, q : r = x % d /\ q = x \div d
    OBVIOUS
  <1>4. r \in 0..d - 1 /\ q \in Int /\ x = q * d + r
    BY <1>2, <1>3, Quotient
  <1>5. r \in Nat
    BY <1>2, <1>4
  <1>6. PICK h, p : h = r % c /\ p = r \div c
    OBVIOUS
  <1>7. h \in 0..c - 1 /\ p \in Int /\ r = p * c + h
    BY <1>5, <1>6, Quotient
  <1>8. x = c * (m * q + p) + h
    <2>1. h \in Int
      BY <1>7
    <2>2. x = q * (c * m) + (p * c + h)
      BY <1>1, <1>4, <1>7
    <2>3. q * (c * m) = c * (m * q) /\ m * q \in Int
      BY <1>4
    <2>4. c * (m * q) + p * c = c * (m * q + p)
      BY <2>3, <1>7
    <2> QED BY <2>1, <2>2, <2>3, <2>4, <1>7
  <1>9. m * q + p \in Int
    BY <1>4, <1>7
  <1>10. (c * (m * q + p) + h) % c = h
    BY <1>7, <1>9, Remainder
  <1> QED BY <1>1, <1>3, <1>6, <1>8, <1>10

LEMMA MultipleSelf ==
  ASSUME NEW c \in Nat \ {0}
  PROVE  Multiple(c, c)
  <1>1. 1 \in 1..c /\ c = c * 1
    OBVIOUS
  <1> QED BY <1>1 DEF Multiple

LEMMA SeqFacts ==
  ASSUME NEW s, IsSeq(s)
  PROVE  Len(s) \in Nat /\ DOMAIN s = 1..Len(s) /\ (s # <<>> => 1 \in DOMAIN s)
  <1>1. s \in Seq(Range(s))
    BY DEF IsSeq
  <1> QED BY <1>1

LEMMA SeqIs ==
  ASSUME NEW S, NEW s \in Seq(S)
  PROVE  IsSeq(s)
  <1>1. Len(s) \in Nat /\ s \in [1..Len(s) -> S]
    OBVIOUS
  <1>2. s \in [1..Len(s) -> Range(s)]
    BY <1>1 DEF Range
  <1> QED BY <1>1, <1>2 DEF IsSeq

LEMMA SeqExcept ==
  ASSUME NEW s, IsSeq(s), NEW i \in DOMAIN s, NEW x
  PROVE  LET t == ReplaceAt(s, i, x)
         IN /\ IsSeq(t) /\ DOMAIN t = DOMAIN s /\ t[i] = x /\ \A j \in DOMAIN s : j # i => t[j] = s[j]
  <1> USE DEF ReplaceAt
  <1> DEFINE t == ReplaceAt(s, i, x)
             S == Range(s) \cup {x}
  <1>1. s \in Seq(S) /\ Len(s) \in Nat /\ DOMAIN s = 1..Len(s)
    BY DEF IsSeq
  <1>2. t \in Seq(S)
    BY <1>1
  <1>3. IsSeq(t)
    BY <1>2, SeqIs
  <1> QED BY <1>1, <1>3

LEMMA SeqAppend ==
  ASSUME NEW s, IsSeq(s), NEW x
  PROVE  LET t == Append(s, x)
         IN /\ IsSeq(t) /\ DOMAIN t = 1..Len(s) + 1 /\ t[Len(s) + 1] = x
            /\ \A j \in DOMAIN s : t[j] = s[j]
  <1> DEFINE t == Append(s, x)
             S == Range(s) \cup {x}
  <1>1. s \in Seq(S) /\ Len(s) \in Nat /\ DOMAIN s = 1..Len(s)
    BY DEF IsSeq
  <1>2. t \in Seq(S) /\ DOMAIN t = 1..Len(s) + 1 /\ t[Len(s) + 1] = x
        /\ \A j \in DOMAIN s : t[j] = s[j]
    BY <1>1
  <1>3. IsSeq(t)
    BY <1>2, SeqIs
  <1> QED BY <1>2, <1>3

-----------------------------------------------------------------------------
(* The order of the keys. *)

LEMMA PrecedesOnce ==
  ASSUME NEW s, IsOrder(s), NEW k, NEW l, Precedes(s, k, l)
  PROVE  k # l /\ ~Precedes(s, l, k)
  <1>1. Len(s) \in Nat /\ DOMAIN s = 1..Len(s)
    BY DEF IsOrder
  <1>2. PICK i \in DOMAIN s, j \in DOMAIN s : i < j /\ s[i] = k /\ s[j] = l
    BY DEF Precedes
  <1>3. i \in Nat /\ j \in Nat
    BY <1>1
  <1>4. k # l
    BY <1>2, <1>3 DEF IsOrder
  <1>5. ASSUME Precedes(s, l, k) PROVE FALSE
    <2>1. PICK a \in DOMAIN s, b \in DOMAIN s : a < b /\ s[a] = l /\ s[b] = k
      BY <1>5 DEF Precedes
    <2>2. a = j /\ b = i
      BY <1>2, <2>1 DEF IsOrder
    <2> QED BY <1>2, <1>3, <2>1, <2>2
  <1> QED BY <1>4, <1>5

\* A key is at one link of a chain at most.
LEMMA OneLink ==
  ASSUME NEW s, IsOrder(s), NEW chain, NEW b, NEW capacity, ChainOK(chain, b, capacity, s),
         NEW i \in DOMAIN chain, NEW j \in DOMAIN chain,
         Used(chain[i]), chain[i].key = chain[j].key
  PROVE  i = j
  <1>1. i \in Nat /\ j \in Nat
    BY SeqFacts DEF ChainOK
  <1>2. Used(chain[j])
    BY DEF Used
  <1>3. i < j => Precedes(s, chain[i].key, chain[j].key)
    BY <1>2 DEF ChainOK
  <1>4. j < i => Precedes(s, chain[j].key, chain[i].key)
    BY <1>2 DEF ChainOK
  <1>5. ~(i < j) /\ ~(j < i)
    BY <1>3, <1>4, PrecedesOnce
  <1> QED BY <1>1, <1>5

-----------------------------------------------------------------------------
(* Looking up. *)

\* The bucket of a key.
LEMMA InRange ==
  ASSUME NEW k \in Keys, NEW c \in Nat \ {0}
  PROVE  Hash[k] \in Nat /\ Hash[k] % c \in 0..c - 1
  <1>1. Hash[k] \in Nat
    BY HashTableAssumption
  <1> QED BY <1>1

\* An entry that holds a key is where it is looked for.
LEMMA Found ==
  ASSUME NEW s, IsOrder(s), NEW ht, TableOK(ht, s), NEW k \in Keys,
         NEW b \in 0..ht.capacity - 1, NEW l \in DOMAIN ht.contents[b], ht.contents[b][l].key = k
  PROVE  /\ b = Hash[k] % ht.capacity
         /\ Matches(Hash[k], k, Bucket(ht, Hash[k])) = {l}
         /\ k \in Present(ht) /\ h_hashtable_get(ht, k) = ht.contents[b][l].value
  <1> DEFINE chain == ht.contents[b]
  <1>1. ChainOK(chain, b, ht.capacity, s)
    BY DEF TableOK
  <1>2. Used(chain[l])
    BY HashTableAssumption DEF Used, NULL
  <1>3. chain[l].hashval = Hash[k] /\ b = Hash[k] % ht.capacity
    BY <1>1, <1>2 DEF ChainOK, EntryOK
  <1>4. Bucket(ht, Hash[k]) = chain
    BY <1>3 DEF Bucket
  <1> HIDE DEF chain
  <1>5. \A i \in DOMAIN chain : chain[i].key = k => i = l
    BY <1>1, <1>2, OneLink DEF chain
  <1>6. Matches(Hash[k], k, chain) = {l}
    BY <1>3, <1>5 DEF Matches, chain
  <1>7. Link(Hash[k], k, chain) = l
    <2>1. l \in Nat
      BY <1>1, SeqFacts DEF ChainOK, chain
    <2>2. Min({l}) = l
      BY <2>1 DEF Min
    <2> QED BY <1>6, <2>2 DEF Link
  <1>8. h_hashtable_get(ht, k) = chain[l].value
    BY <1>4, <1>6, <1>7 DEF h_hashtable_get
  <1>9. k \in Present(ht)
    BY <1>4, <1>6 DEF Present, h_hashtable_present
  <1> QED BY <1>3, <1>4, <1>6, <1>8, <1>9 DEF chain

\* A key that is found is held by an entry.
LEMMA FoundAt ==
  ASSUME NEW s, NEW ht, TableOK(ht, s), NEW k \in Keys,
         Matches(Hash[k], k, Bucket(ht, Hash[k])) # {}
  PROVE  \E l \in DOMAIN ht.contents[Hash[k] % ht.capacity] :
           ht.contents[Hash[k] % ht.capacity][l].key = k
  BY DEF Matches, Bucket

LEMMA PresentAt ==
  ASSUME NEW s, NEW ht, TableOK(ht, s), NEW k \in Present(ht)
  PROVE  /\ k \in Keys /\ Hash[k] % ht.capacity \in 0..ht.capacity - 1
         /\ \E l \in DOMAIN ht.contents[Hash[k] % ht.capacity] :
              ht.contents[Hash[k] % ht.capacity][l].key = k
  <1>1. k \in Keys /\ Matches(Hash[k], k, Bucket(ht, Hash[k])) # {}
    BY DEF Present, h_hashtable_present
  <1>2. ht.capacity \in Nat \ {0}
    BY DEF TableOK, IsTable
  <1> QED BY <1>1, <1>2, FoundAt, InRange

-----------------------------------------------------------------------------
(* Putting. *)

\* An entry that is to go into bucket b of an array.
Fitting(e, b, capacity, s) ==
  /\ e.key \in Keys /\ e.key \in Range(s)
  /\ e.hashval = Hash[e.key] /\ Hash[e.key] % capacity = b

\* The link m of a chain becomes e, the others stay what they are.
Becomes(new, chain, m, e) ==
  /\ IsSeq(new) /\ m \in DOMAIN new /\ new[m] = e
  /\ \A i \in DOMAIN new : i # m => i \in DOMAIN chain /\ new[i] = chain[i]
  /\ \A i \in DOMAIN chain : i # m => i \in DOMAIN new
  /\ m \in DOMAIN chain => ~Used(chain[m]) \/ chain[m].key = e.key

LEMMA BecomesOK ==
  ASSUME NEW s, NEW chain, NEW b, NEW capacity, ChainOK(chain, b, capacity, s),
         NEW e, Fitting(e, b, capacity, s), NEW new, NEW m, Becomes(new, chain, m, e),
         Used(new[1]),
         \A i \in DOMAIN new : i < m /\ Used(new[i]) => Precedes(s, new[i].key, e.key),
         \A i \in DOMAIN new : i > m /\ Used(new[i]) => Precedes(s, e.key, new[i].key)
  PROVE  ChainOK(new, b, capacity, s)
  <1>1. DOMAIN new = 1..Len(new) /\ Len(new) \in Nat /\ m \in DOMAIN new /\ new[m] = e
    BY SeqFacts DEF Becomes
  <1>2. new # <<>>
    BY <1>1
  <1>3. \A i \in DOMAIN new : EntryOK(new[i], b, capacity, s)
    BY <1>1 DEF Becomes, ChainOK, EntryOK, Fitting
  <1>4. ASSUME NEW i \in DOMAIN new, NEW j \in DOMAIN new, i < j, Used(new[i]), Used(new[j])
        PROVE  Precedes(s, new[i].key, new[j].key)
    <2>0. i \in Nat /\ j \in Nat /\ m \in Nat
      BY <1>1
    <2>1. CASE i = m
      BY <1>1, <1>4, <2>0, <2>1
    <2>2. CASE j = m
      BY <1>1, <1>4, <2>0, <2>2
    <2>3. CASE i # m /\ j # m
      BY <1>4, <2>3 DEF Becomes, ChainOK
    <2> QED BY <2>1, <2>2, <2>3
  <1>5. IsSeq(new)
    BY DEF Becomes
  <1> QED BY <1>2, <1>3, <1>4, <1>5 DEF ChainOK

\* The three cases of h_hashtable_put_raw.
LEMMA PutInChainOK ==
  ASSUME NEW s, IsOrder(s), NEW chain, NEW b, NEW capacity, ChainOK(chain, b, capacity, s),
         NEW e, Fitting(e, b, capacity, s),
         \/ Matches(e.hashval, e.key, chain) # {}
         \/ \A i \in DOMAIN chain : Used(chain[i]) => Precedes(s, chain[i].key, e.key)
  PROVE  /\ ChainOK(PutInChain(chain, e), b, capacity, s)
         /\ \E m : Becomes(PutInChain(chain, e), chain, m, e)
  <1> DEFINE new == PutInChain(chain, e)
             found == Matches(e.hashval, e.key, chain)
  <1>1. /\ IsSeq(chain) /\ DOMAIN chain = 1..Len(chain) /\ Len(chain) \in Nat /\ 1 \in DOMAIN chain
        /\ Head(chain) = chain[1]
    BY SeqFacts DEF ChainOK
  <1>2. Used(e) /\ e.key \in Keys
    BY HashTableAssumption DEF Used, Fitting, NULL
  <1>3. CASE Head(chain).key = NULL
    <2>1. new = ReplaceAt(chain, 1, e)
      BY <1>3 DEF PutInChain, ReplaceAt
    <2>2. \A i \in DOMAIN chain : ~Used(chain[i])
      BY <1>1, <1>3 DEF ChainOK, Used
    <2> HIDE DEF new
    <2>3. /\ IsSeq(new) /\ DOMAIN new = DOMAIN chain /\ new[1] = e
          /\ \A j \in DOMAIN chain : j # 1 => new[j] = chain[j]
      <3>1. IsSeq(chain) /\ 1 \in DOMAIN chain
        BY <1>1
      <3> QED BY <2>1, <3>1, SeqExcept
    <2>4. Becomes(new, chain, 1, e)
      BY <1>1, <2>2, <2>3 DEF Becomes
    <2>5. \A i \in DOMAIN new : Used(new[i]) => i = 1
      BY <2>2, <2>3
    <2>6. ChainOK(new, b, capacity, s)
      BY <1>2, <2>3, <2>4, <2>5, BecomesOK
    <2> QED BY <2>4, <2>6 DEF new
  <1>4. CASE Head(chain).key # NULL /\ found # {}
    <2>1. PICK m \in DOMAIN chain : m \in found
      BY <1>4 DEF Matches
    <2>2. chain[m].key = e.key /\ Used(chain[m])
      BY <1>2, <2>1 DEF Matches, Used
    <2>3. found = {m}
      BY <2>1, <2>2, OneLink DEF Matches
    <2>4. Link(e.hashval, e.key, chain) = m
      <3>1. m \in Nat
        BY <1>1
      <3>2. Min({m}) = m
        BY <3>1 DEF Min
      <3> QED BY <2>3, <3>2 DEF Link
    <2>5. new = ReplaceAt(chain, m, e)
      BY <1>4, <2>4 DEF PutInChain, ReplaceAt
    <2> HIDE DEF new
    <2>6. /\ IsSeq(new) /\ DOMAIN new = DOMAIN chain /\ new[m] = e
          /\ \A j \in DOMAIN chain : j # m => new[j] = chain[j]
      <3>1. IsSeq(chain) /\ m \in DOMAIN chain
        BY <1>1
      <3> QED BY <2>5, <3>1, SeqExcept
    <2>7. Becomes(new, chain, m, e)
      BY <2>2, <2>6 DEF Becomes
    <2>8. Used(new[1])
      BY <1>1, <1>2, <1>4, <2>6 DEF Used
    <2>9. ASSUME NEW i \in DOMAIN new, Used(new[i])
          PROVE  /\ i < m => Precedes(s, new[i].key, e.key)
                 /\ i > m => Precedes(s, e.key, new[i].key)
      <3>1. i \in Nat /\ m \in Nat /\ i \in DOMAIN chain
        BY <1>1, <2>6
      <3>2. i # m => new[i] = chain[i] /\ Used(chain[i])
        BY <2>6, <2>9
      <3>3. i < m => Precedes(s, chain[i].key, chain[m].key)
        BY <2>2, <3>1, <3>2 DEF ChainOK
      <3>4. m < i => Precedes(s, chain[m].key, chain[i].key)
        BY <2>2, <3>1, <3>2 DEF ChainOK
      <3> QED BY <2>2, <3>1, <3>2, <3>3, <3>4
    <2>10. ChainOK(new, b, capacity, s)
      BY <2>7, <2>8, <2>9, BecomesOK
    <2> QED BY <2>7, <2>10 DEF new
  <1>5. CASE Head(chain).key # NULL /\ found = {}
    <2> DEFINE m == Len(chain) + 1
    <2>1. new = Append(chain, e)
      BY <1>5 DEF PutInChain
    <2>2. /\ IsSeq(new) /\ DOMAIN new = 1..m /\ new[m] = e
          /\ \A j \in DOMAIN chain : new[j] = chain[j]
      BY <1>1, <2>1, SeqAppend
    <2> HIDE DEF new
    <2>3. m \in DOMAIN new /\ m \notin DOMAIN chain /\ DOMAIN chain \subseteq DOMAIN new
          /\ \A i \in DOMAIN new : i # m => i \in DOMAIN chain
      BY <1>1, <2>2
    <2>4. Becomes(new, chain, m, e)
      BY <2>2, <2>3 DEF Becomes
    <2>5. Used(new[1])
      BY <1>1, <1>5, <2>2 DEF Used
    <2>6. \A i \in DOMAIN new : i < m /\ Used(new[i]) => Precedes(s, new[i].key, e.key)
      BY <1>1, <1>5, <2>2, <2>3
    <2>7. \A i \in DOMAIN new : ~(i > m)
      BY <1>1, <2>2
    <2> HIDE DEF m
    <2>8. ChainOK(new, b, capacity, s)
      BY <2>4, <2>5, <2>6, <2>7, BecomesOK
    <2> QED BY <2>4, <2>8 DEF new
  <1> QED BY <1>3, <1>4, <1>5

\* One key, and the entry of the others the same: what the map becomes.
LEMMA MapPut ==
  ASSUME NEW s, IsOrder(s), NEW ht, TableOK(ht, s), NEW new, TableOK(new, s),
         new.capacity = ht.capacity,
         NEW b \in 0..ht.capacity - 1, NEW m, NEW e, e.key \in Keys,
         Becomes(new.contents[b], ht.contents[b], m, e),
         \A c \in 0..ht.capacity - 1 : c # b => new.contents[c] = ht.contents[c]
  PROVE  MapOf(new) = With(MapOf(ht), e)
  <1>1. /\ m \in DOMAIN new.contents[b] /\ new.contents[b][m] = e
        /\ \A i \in DOMAIN new.contents[b] :
             i # m => i \in DOMAIN ht.contents[b] /\ new.contents[b][i] = ht.contents[b][i]
        /\ \A i \in DOMAIN ht.contents[b] : i # m => i \in DOMAIN new.contents[b]
        /\ m \in DOMAIN ht.contents[b] => ~Used(ht.contents[b][m]) \/ ht.contents[b][m].key = e.key
    BY DEF Becomes
  <1>2. e.key \in Present(new) /\ h_hashtable_get(new, e.key) = e.value
    BY <1>1, Found
  <1>3. ASSUME NEW k \in Present(ht), k # e.key
        PROVE  k \in Present(new) /\ h_hashtable_get(new, k) = h_hashtable_get(ht, k)
    <2> DEFINE c == Hash[k] % ht.capacity
    <2>1. k \in Keys /\ c \in 0..ht.capacity - 1
          /\ \E l \in DOMAIN ht.contents[c] : ht.contents[c][l].key = k
      BY PresentAt
    <2> HIDE DEF c
    <2>2. PICK l \in DOMAIN ht.contents[c] : ht.contents[c][l].key = k
      BY <2>1
    <2>3. l \in DOMAIN new.contents[c] /\ new.contents[c][l] = ht.contents[c][l]
      <3>1. CASE c = b
        <4>1. Used(ht.contents[c][l])
          BY <2>1, <2>2, HashTableAssumption DEF Used, NULL
        <4>2. l # m
          BY <1>1, <1>3, <2>2, <3>1, <4>1
        <4> QED BY <1>1, <2>2, <3>1, <4>2
      <3>2. CASE c # b
        BY <2>1, <3>2
      <3> QED BY <3>1, <3>2
    <2>4. h_hashtable_get(ht, k) = ht.contents[c][l].value
      BY <2>1, <2>2, Found
    <2>5. k \in Present(new) /\ h_hashtable_get(new, k) = new.contents[c][l].value
      <3>1. c \in 0..new.capacity - 1 /\ l \in DOMAIN new.contents[c] /\ new.contents[c][l].key = k
        BY <2>1, <2>2, <2>3
      <3> QED BY <2>1, <3>1, Found
    <2> QED BY <2>3, <2>4, <2>5
  <1>4. ASSUME NEW k \in Present(new), k # e.key
        PROVE  k \in Present(ht)
    <2> DEFINE c == Hash[k] % new.capacity
    <2>1. k \in Keys /\ c \in 0..new.capacity - 1
          /\ \E l \in DOMAIN new.contents[c] : new.contents[c][l].key = k
      BY PresentAt
    <2> HIDE DEF c
    <2>2. PICK l \in DOMAIN new.contents[c] : new.contents[c][l].key = k
      BY <2>1
    <2>3. l \in DOMAIN ht.contents[c] /\ new.contents[c][l] = ht.contents[c][l]
      <3>1. CASE c = b
        BY <1>1, <1>4, <2>2, <3>1
      <3>2. CASE c # b
        BY <2>1, <3>2
      <3> QED BY <3>1, <3>2
    <2>4. c \in 0..ht.capacity - 1 /\ ht.contents[c][l].key = k
      BY <2>1, <2>2, <2>3
    <2> QED BY <2>1, <2>3, <2>4, Found
  <1>5. Present(new) = Present(ht) \cup {e.key}
    BY <1>2, <1>3, <1>4
  <1>6. \A k \in Present(new) :
          h_hashtable_get(new, k) = IF k \in {e.key} THEN e.value ELSE h_hashtable_get(ht, k)
    BY <1>2, <1>3, <1>5
  <1> QED BY <1>5, <1>6 DEF MapOf, With, M!Over

\* The keys in a chain precede an entry, or there is a link for it.
Enters(e, ht, s) ==
  \/ Matches(e.hashval, e.key, Bucket(ht, e.hashval)) # {}
  \/ \A i \in DOMAIN Bucket(ht, e.hashval) :
       Used(Bucket(ht, e.hashval)[i]) => Precedes(s, Bucket(ht, e.hashval)[i].key, e.key)

LEMMA PutRawOK ==
  ASSUME NEW s, IsOrder(s), NEW ht, TableOK(ht, s), NEW e,
         e.key \in Keys, e.key \in Range(s), e.hashval = Hash[e.key], Enters(e, ht, s)
  PROVE  /\ TableOK(h_hashtable_put_raw(ht, e), s)
         /\ h_hashtable_put_raw(ht, e).capacity = ht.capacity
         /\ MapOf(h_hashtable_put_raw(ht, e)) = With(MapOf(ht), e)
  <1> DEFINE new == h_hashtable_put_raw(ht, e)
             b == Hash[e.key] % ht.capacity
             chain == PutInChain(ht.contents[b], e)
  <1>1. /\ ht.capacity \in Nat \ {0} /\ ht.used \in Nat /\ b \in 0..ht.capacity - 1
        /\ ht.contents = [c \in 0..ht.capacity - 1 |-> ht.contents[c]]
        /\ ChainOK(ht.contents[b], b, ht.capacity, s)
    BY InRange DEF TableOK, IsTable
  <1>2. Fitting(e, b, ht.capacity, s)
    BY DEF Fitting
  <1>3. Bucket(ht, e.hashval) = ht.contents[b]
    BY DEF Bucket
  <1>4. PICK m : ChainOK(chain, b, ht.capacity, s) /\ Becomes(chain, ht.contents[b], m, e)
    <2> HIDE DEF b, chain
    <2>1. \/ Matches(e.hashval, e.key, ht.contents[b]) # {}
          \/ \A i \in DOMAIN ht.contents[b] :
               Used(ht.contents[b][i]) => Precedes(s, ht.contents[b][i].key, e.key)
      BY <1>3 DEF Enters
    <2> QED BY <1>1, <1>2, <2>1, PutInChainOK DEF chain
  <1>5. PICK used : used = ht.used + IF Takes(Bucket(ht, e.hashval), e) THEN 1 ELSE 0
    OBVIOUS
  <1>6. used \in Nat
    BY <1>1, <1>5
  <1>7. new = [capacity |-> ht.capacity, used |-> used,
               contents |-> [ht.contents EXCEPT ![b] = chain]]
    BY <1>5 DEF h_hashtable_put_raw
  <1> HIDE DEF b, chain, new
  <1>8. /\ new.capacity = ht.capacity /\ new.used = used
        /\ new.contents = [ht.contents EXCEPT ![b] = chain]
        /\ new = [capacity |-> new.capacity, used |-> new.used, contents |-> new.contents]
    BY <1>7
  <1>9. /\ new.contents[b] = chain /\ \A c \in 0..ht.capacity - 1 : c # b => new.contents[c] = ht.contents[c]
        /\ new.contents = [c \in 0..ht.capacity - 1 |-> new.contents[c]]
    BY <1>1, <1>8
  <1>10. \A c \in 0..ht.capacity - 1 : ChainOK(new.contents[c], c, ht.capacity, s)
    BY <1>4, <1>9 DEF TableOK
  <1>11. TableOK(new, s)
    BY <1>1, <1>6, <1>8, <1>9, <1>10 DEF TableOK, IsTable
  <1>12. MapOf(new) = With(MapOf(ht), e)
    <2>1. Becomes(new.contents[b], ht.contents[b], m, e)
      BY <1>4, <1>9
    <2>2. new.capacity = ht.capacity /\ b \in 0..ht.capacity - 1
      BY <1>1, <1>8
    <2>3. \A c \in 0..ht.capacity - 1 : c # b => new.contents[c] = ht.contents[c]
      BY <1>9
    <2> QED BY <1>11, <2>1, <2>2, <2>3, MapPut
  <1> QED BY <1>8, <1>11, <1>12 DEF new

-----------------------------------------------------------------------------
(* Deleting the key that was entered last. *)

LEMMA SeqFront ==
  ASSUME NEW S, NEW s \in Seq(S), s # <<>>
  PROVE  /\ Len(s) \in Nat \ {0} /\ DOMAIN s = 1..Len(s) /\ Last(s) = s[Len(s)]
         /\ Front(s) \in Seq(S) /\ DOMAIN Front(s) = 1..Len(s) - 1
         /\ \A i \in 1..Len(s) - 1 : Front(s)[i] = s[i]
  <1>1. Len(s) \in Nat \ {0} /\ DOMAIN s = 1..Len(s) /\ Last(s) = s[Len(s)]
    BY DEF Last
  <1>2. PICK n : n = Len(s) - 1
    OBVIOUS
  <1>3. n \in Nat /\ n <= Len(s) /\ \A i \in 1..n : s[i] \in S
    BY <1>1, <1>2
  <1>4. Front(s) = SubSeq(s, 1, n)
    BY <1>2 DEF Front
  <1>5. Front(s) \in Seq(S) /\ DOMAIN Front(s) = 1..n /\ \A i \in 1..n : Front(s)[i] = s[i]
    BY <1>1, <1>3, <1>4
  <1> QED BY <1>1, <1>2, <1>5

LEMMA OrderFront ==
  ASSUME NEW s, IsOrder(s), s # <<>>
  PROVE  /\ IsOrder(Front(s)) /\ Last(s) \in Keys
         /\ Range(Front(s)) = Range(s) \ {Last(s)}
         /\ \A x, y : Precedes(s, x, y) /\ y # Last(s) => Precedes(Front(s), x, y)
         /\ \A y : ~Precedes(s, Last(s), y)
  <1> DEFINE n == Len(s)
             f == Front(s)
  <1>1. /\ n \in Nat \ {0} /\ DOMAIN s = 1..n /\ Last(s) = s[n]
        /\ f \in Seq(Keys) /\ DOMAIN f = 1..n - 1 /\ \A i \in 1..n - 1 : f[i] = s[i]
    BY SeqFront DEF IsOrder
  <1> HIDE DEF n, f
  <1>2. \A i \in DOMAIN s : s[i] # s[n] => i \in DOMAIN f /\ f[i] = s[i]
    BY <1>1
  <1>3. \A i \in DOMAIN f : i \in DOMAIN s /\ f[i] = s[i]
    BY <1>1
  <1>4. IsOrder(f)
    BY <1>1, <1>3 DEF IsOrder
  <1>5. Last(s) \in Keys
    BY <1>1 DEF IsOrder
  <1>6. Range(f) = Range(s) \ {Last(s)}
    <2>1. \A i \in DOMAIN f : i # n /\ n \in DOMAIN s
      BY <1>1
    <2>2. \A i \in DOMAIN f : f[i] # s[n]
      BY <1>3, <2>1 DEF IsOrder
    <2> QED BY <1>1, <1>2, <1>3, <2>2 DEF Range
  <1>7. ASSUME NEW x, NEW y, Precedes(s, x, y), y # Last(s) PROVE Precedes(f, x, y)
    <2>1. PICK i \in DOMAIN s, j \in DOMAIN s : i < j /\ s[i] = x /\ s[j] = y
      BY <1>7 DEF Precedes
    <2>2. j # n
      BY <1>1, <1>7, <2>1
    <2>3. i \in DOMAIN f /\ j \in DOMAIN f
      BY <1>1, <2>1, <2>2
    <2> QED BY <1>3, <2>1, <2>3 DEF Precedes
  <1>8. ASSUME NEW y, Precedes(s, Last(s), y) PROVE FALSE
    <2>1. PICK i \in DOMAIN s, j \in DOMAIN s : i < j /\ s[i] = Last(s)
      BY <1>8 DEF Precedes
    <2>2. i = n
      BY <1>1, <2>1 DEF IsOrder
    <2> QED BY <1>1, <2>1, <2>2
  <1> QED BY <1>4, <1>5, <1>6, <1>7, <1>8 DEF f

\* A chain that does not hold the key.
LEMMA UntouchedOK ==
  ASSUME NEW s, IsOrder(s), s # <<>>, NEW chain, NEW b, NEW capacity,
         ChainOK(chain, b, capacity, s), \A i \in DOMAIN chain : chain[i].key # Last(s)
  PROVE  ChainOK(chain, b, capacity, Front(s))
  <1>1. \A i \in DOMAIN chain : EntryOK(chain[i], b, capacity, Front(s))
    <2> SUFFICES ASSUME NEW i \in DOMAIN chain, Used(chain[i])
                 PROVE  EntryOK(chain[i], b, capacity, Front(s))
      BY DEF EntryOK
    <2>1. EntryOK(chain[i], b, capacity, s) /\ chain[i].key # Last(s)
      BY DEF ChainOK
    <2>2. chain[i].key \in Range(s)
      BY <2>1 DEF EntryOK
    <2>3. chain[i].key \in Range(Front(s))
      BY <2>1, <2>2, OrderFront
    <2> QED BY <2>1, <2>3 DEF EntryOK
  <1>2. ASSUME NEW i \in DOMAIN chain, NEW j \in DOMAIN chain, i < j, Used(chain[i]), Used(chain[j])
        PROVE  Precedes(Front(s), chain[i].key, chain[j].key)
    <2>1. Precedes(s, chain[i].key, chain[j].key) /\ chain[j].key # Last(s)
      BY <1>2 DEF ChainOK
    <2> QED BY <2>1, OrderFront
  <1> QED BY <1>1, <1>2 DEF ChainOK

\* From link m on a chain is empty, and before it what it was.
Drops(new, chain, m) ==
  /\ IsSeq(new) /\ new # <<>>
  /\ \A i \in DOMAIN new : IF i < m THEN i \in DOMAIN chain /\ new[i] = chain[i] ELSE ~Used(new[i])
  /\ \A i \in DOMAIN chain : i < m => i \in DOMAIN new

LEMMA DropsOK ==
  ASSUME NEW s, IsOrder(s), s # <<>>, NEW chain, NEW b, NEW capacity,
         ChainOK(chain, b, capacity, s), NEW m \in DOMAIN chain, chain[m].key = Last(s),
         NEW new, Drops(new, chain, m)
  PROVE  ChainOK(new, b, capacity, Front(s))
  <1>1. DOMAIN chain = 1..Len(chain) /\ Len(chain) \in Nat /\ 1 \in DOMAIN chain
    BY SeqFacts DEF ChainOK
  <1>2. DOMAIN new = 1..Len(new) /\ Len(new) \in Nat /\ 1 \in DOMAIN new
    BY SeqFacts DEF Drops
  <1>3. Used(chain[m])
    BY OrderFront, HashTableAssumption DEF Used, NULL
  <1>4. ASSUME NEW i \in DOMAIN new, Used(new[i])
        PROVE  /\ i < m /\ i \in DOMAIN chain /\ new[i] = chain[i] /\ chain[i].key # Last(s)
    <2>1. i < m /\ i \in DOMAIN chain /\ new[i] = chain[i]
      BY <1>4 DEF Drops
    <2>2. i # m
      BY <1>1, <2>1
    <2>3. chain[i].key # chain[m].key
      BY <1>4, <2>1, <2>2, OneLink
    <2> QED BY <2>1, <2>3
  <1>5. \A i \in DOMAIN new : EntryOK(new[i], b, capacity, Front(s))
    <2> SUFFICES ASSUME NEW i \in DOMAIN new, Used(new[i])
                 PROVE  EntryOK(new[i], b, capacity, Front(s))
      BY DEF EntryOK
    <2>1. i \in DOMAIN chain /\ new[i] = chain[i] /\ chain[i].key # Last(s)
      BY <1>4
    <2>2. EntryOK(new[i], b, capacity, s)
      BY <2>1 DEF ChainOK
    <2>3. new[i].key \in Range(s) /\ new[i].key # Last(s)
      BY <2>1, <2>2 DEF EntryOK
    <2>4. new[i].key \in Range(Front(s))
      BY <2>3, OrderFront
    <2> QED BY <2>2, <2>4 DEF EntryOK
  <1>6. ASSUME NEW i \in DOMAIN new, NEW j \in DOMAIN new, i < j, Used(new[i]), Used(new[j])
        PROVE  Precedes(Front(s), new[i].key, new[j].key)
    <2>1. /\ i \in DOMAIN chain /\ new[i] = chain[i]
          /\ j \in DOMAIN chain /\ new[j] = chain[j] /\ chain[j].key # Last(s)
      BY <1>4, <1>6
    <2>2. Precedes(s, chain[i].key, chain[j].key)
      BY <1>6, <2>1 DEF ChainOK
    <2>3. Precedes(Front(s), chain[i].key, chain[j].key)
      BY <2>1, <2>2, OrderFront
    <2> QED BY <2>1, <2>3
  <1>7. ASSUME ~Used(new[1]) PROVE \A i \in DOMAIN new : ~Used(new[i])
    <2>1. CASE 1 < m
      <3>1. new[1] = chain[1]
        BY <1>2, <2>1 DEF Drops
      <3>2. ~Used(chain[m])
        BY <1>7, <3>1 DEF ChainOK
      <3> QED BY <1>3, <3>2
    <2>2. CASE ~(1 < m)
      <3>1. m = 1
        BY <1>1, <2>2
      <3>2. \A i \in DOMAIN new : ~(i < m)
        BY <1>2, <3>1
      <3> QED BY <3>2 DEF Drops
    <2> QED BY <2>1, <2>2
  <1>8. IsSeq(new) /\ new # <<>>
    BY DEF Drops
  <1> QED BY <1>5, <1>6, <1>7, <1>8 DEF ChainOK

LEMMA SeqRemove ==
  ASSUME NEW s, IsSeq(s), NEW m \in Nat \ {0}, m < Len(s)
  PROVE  LET t == RemoveAt(s, m)
         IN /\ IsSeq(t) /\ DOMAIN t = 1..Len(s) - 1
            /\ \A i \in 1..Len(s) - 1 : t[i] = IF i < m THEN s[i] ELSE s[i + 1]
  <1> DEFINE S == Range(s)
             n == Len(s)
             u == SubSeq(s, 1, m - 1)
             v == SubSeq(s, m + 1, n)
             t == RemoveAt(s, m)
  <1>1. s \in Seq(S) /\ n \in Nat /\ DOMAIN s = 1..n
    BY DEF IsSeq
  <1>2. u \in Seq(S) /\ Len(u) = m - 1 /\ \A i \in 1..m - 1 : u[i] = s[i]
    <2>1. m - 1 \in Nat /\ m - 1 <= n /\ \A i \in 1..m - 1 : s[i] \in S
      BY <1>1
    <2> QED BY <1>1, <2>1
  <1>3. v \in Seq(S) /\ Len(v) = n - m /\ \A i \in 1..n - m : v[i] = s[m + i]
    <2>1. PICK a : a = m + 1
      OBVIOUS
    <2>2. a \in Int /\ 1 <= a /\ a <= n /\ n - a + 1 = n - m /\ \A i \in 1..n - m : a + i - 1 = m + i
      BY <1>1, <2>1
    <2>3. \A i \in a..n : s[i] \in S
      BY <1>1, <2>2
    <2>4. /\ SubSeq(s, a, n) \in Seq(S)
          /\ Len(SubSeq(s, a, n)) = IF a <= n THEN n - a + 1 ELSE 0
          /\ \A i \in 1 .. n - a + 1 : SubSeq(s, a, n)[i] = s[a + i - 1]
      BY <1>1, <2>2, <2>3, SubSeqProperties
    <2> QED BY <2>1, <2>2, <2>4
  <1>4. t = u \o v
    BY DEF RemoveAt
  <1> HIDE DEF S, n, u, v, t
  <1>5. /\ t \in Seq(S) /\ Len(t) = Len(u) + Len(v)
        /\ \A i \in 1 .. Len(u) + Len(v) : t[i] = IF i <= Len(u) THEN u[i] ELSE v[i - Len(u)]
    BY <1>2, <1>3, <1>4, ConcatProperties
  <1>6. Len(u) + Len(v) = n - 1
    BY <1>1, <1>2, <1>3
  <1>7. DOMAIN t = 1..n - 1
    BY <1>5, <1>6
  <1>8. ASSUME NEW i \in 1..n - 1 PROVE t[i] = IF i < m THEN s[i] ELSE s[i + 1]
    <2>1. t[i] = IF i <= m - 1 THEN u[i] ELSE v[i - (m - 1)]
      BY <1>2, <1>5, <1>6
    <2>2. CASE i < m
      <3>1. i <= m - 1 /\ i \in 1..m - 1
        BY <1>1, <2>2
      <3> QED BY <1>2, <2>1, <2>2, <3>1
    <2>3. CASE ~(i < m)
      <3>1. ~(i <= m - 1) /\ i - (m - 1) \in 1..n - m /\ m + (i - (m - 1)) = i + 1
        BY <1>1, <2>3 DEF n
      <3>2. v[i - (m - 1)] = s[m + (i - (m - 1))]
        BY <1>3, <3>1
      <3> QED BY <2>1, <2>3, <3>1, <3>2
    <2> QED BY <2>2, <2>3
  <1>9. IsSeq(t)
    BY <1>5, SeqIs
  <1> QED BY <1>7, <1>8, <1>9 DEF t, n

LEMMA DelInChainDrops ==
  ASSUME NEW chain, IsSeq(chain), NEW m \in DOMAIN chain,
         \A i \in DOMAIN chain : i > m => ~Used(chain[i])
  PROVE  Drops(DelInChain(chain, m), chain, m)
  <1> DEFINE n == Len(chain)
             new == DelInChain(chain, m)
  <1>1. n \in Nat /\ DOMAIN chain = 1..n /\ m \in 1..n
    BY SeqFacts
  <1>2. CASE m < n
    <2>1. new = RemoveAt(chain, m)
      BY <1>2 DEF DelInChain
    <2> HIDE DEF new
    <2>2. /\ IsSeq(new) /\ DOMAIN new = 1..n - 1
          /\ \A i \in 1..n - 1 : new[i] = IF i < m THEN chain[i] ELSE chain[i + 1]
      <3>1. m \in Nat \ {0}
        BY <1>1
      <3> QED BY <1>2, <2>1, <3>1, SeqRemove
    <2>3. \A i \in DOMAIN new : /\ i < m => i \in DOMAIN chain
                                /\ ~(i < m) => i + 1 \in DOMAIN chain /\ i + 1 > m
      BY <1>1, <2>2
    <2>4. new # <<>> /\ \A i \in DOMAIN chain : i < m => i \in DOMAIN new
      BY <1>1, <1>2, <2>2
    <2>5. \A i \in DOMAIN new : IF i < m THEN i \in DOMAIN chain /\ new[i] = chain[i] ELSE ~Used(new[i])
      BY <2>2, <2>3
    <2> QED BY <2>2, <2>4, <2>5 DEF Drops, new
  <1>3. CASE m = n
    <2>1. new = ReplaceAt(chain, m, Empty)
      BY <1>1, <1>3 DEF DelInChain, ReplaceAt
    <2> HIDE DEF new
    <2>2. /\ IsSeq(new) /\ DOMAIN new = DOMAIN chain /\ new[m] = Empty
          /\ \A j \in DOMAIN chain : j # m => new[j] = chain[j]
      BY <2>1, SeqExcept
    <2>3. \A i \in DOMAIN chain : IF i < m THEN i # m ELSE i = m
      BY <1>1, <1>3
    <2>4. ~Used(Empty)
      BY DEF Used, Empty
    <2>5. new # <<>>
      BY <2>2
    <2> QED BY <2>2, <2>3, <2>4, <2>5 DEF Drops, new
  <1> QED BY <1>1, <1>2, <1>3

\* A map without one of its keys.
Without(map, k) == Restrict(map, DOMAIN map \ {k})

LEMMA MapDel ==
  ASSUME NEW s, IsOrder(s), NEW f, IsOrder(f), NEW ht, TableOK(ht, s), NEW new, TableOK(new, f),
         new.capacity = ht.capacity,
         NEW b \in 0..ht.capacity - 1, NEW m \in DOMAIN ht.contents[b], Used(ht.contents[b][m]),
         Drops(new.contents[b], ht.contents[b], m),
         \A i \in DOMAIN ht.contents[b] : i > m => ~Used(ht.contents[b][i]),
         \A c \in 0..ht.capacity - 1 : c # b => new.contents[c] = ht.contents[c]
  PROVE  MapOf(new) = Without(MapOf(ht), ht.contents[b][m].key)
  <1> DEFINE chain == ht.contents[b]
             key == chain[m].key
  <1>0. ChainOK(chain, b, ht.capacity, s) /\ DOMAIN chain \subseteq Nat
    <2>1. ChainOK(chain, b, ht.capacity, s)
      BY DEF TableOK
    <2> HIDE DEF chain
    <2>2. IsSeq(chain)
      BY <2>1 DEF ChainOK
    <2>3. Len(chain) \in Nat /\ DOMAIN chain = 1..Len(chain)
      BY <2>2, SeqFacts
    <2> QED BY <2>1, <2>3
  <1>1. /\ \A i \in DOMAIN new.contents[b] :
             Used(new.contents[b][i]) => i < m /\ i \in DOMAIN chain /\ new.contents[b][i] = chain[i]
        /\ \A i \in DOMAIN chain :
             i < m => i \in DOMAIN new.contents[b] /\ new.contents[b][i] = chain[i]
    BY DEF Drops
  <1> HIDE DEF chain, key
  <1>2. ASSUME NEW k \in Present(ht), k # key
        PROVE  k \in Present(new) /\ h_hashtable_get(new, k) = h_hashtable_get(ht, k)
    <2> DEFINE c == Hash[k] % ht.capacity
    <2>1. k \in Keys /\ c \in 0..ht.capacity - 1
          /\ \E l \in DOMAIN ht.contents[c] : ht.contents[c][l].key = k
      BY PresentAt
    <2> HIDE DEF c
    <2>2. PICK l \in DOMAIN ht.contents[c] : ht.contents[c][l].key = k
      BY <2>1
    <2>3. l \in DOMAIN new.contents[c] /\ new.contents[c][l] = ht.contents[c][l]
      <3>1. CASE c = b
        <4>1. Used(chain[l]) /\ l \in DOMAIN chain
          BY <2>1, <2>2, <3>1, HashTableAssumption DEF Used, NULL, chain
        <4>2. l # m /\ ~(l > m)
          BY <1>2, <2>2, <3>1, <4>1 DEF chain, key
        <4>3. l < m
          BY <1>0, <4>1, <4>2 DEF chain
        <4> QED BY <1>1, <3>1, <4>1, <4>3 DEF chain
      <3>2. CASE c # b
        BY <2>1, <3>2
      <3> QED BY <3>1, <3>2
    <2>4. h_hashtable_get(ht, k) = ht.contents[c][l].value
      BY <2>1, <2>2, Found
    <2>5. k \in Present(new) /\ h_hashtable_get(new, k) = new.contents[c][l].value
      <3>1. c \in 0..new.capacity - 1 /\ l \in DOMAIN new.contents[c] /\ new.contents[c][l].key = k
        BY <2>1, <2>2, <2>3
      <3> QED BY <2>1, <3>1, Found
    <2> QED BY <2>3, <2>4, <2>5
  <1>3. ASSUME NEW k \in Present(new)
        PROVE  k \in Present(ht) /\ k # key
    <2> DEFINE c == Hash[k] % new.capacity
    <2>1. k \in Keys /\ c \in 0..new.capacity - 1
          /\ \E l \in DOMAIN new.contents[c] : new.contents[c][l].key = k
      BY PresentAt
    <2> HIDE DEF c
    <2>2. PICK l \in DOMAIN new.contents[c] : new.contents[c][l].key = k
      BY <2>1
    <2>3. Used(new.contents[c][l])
      BY <2>1, <2>2, HashTableAssumption DEF Used, NULL
    <2>4. l \in DOMAIN ht.contents[c] /\ new.contents[c][l] = ht.contents[c][l]
      <3>1. CASE c = b
        BY <1>1, <2>2, <2>3, <3>1 DEF chain
      <3>2. CASE c # b
        BY <2>1, <2>2, <3>2
      <3> QED BY <3>1, <3>2
    <2>5. c \in 0..ht.capacity - 1 /\ ht.contents[c][l].key = k
      BY <2>1, <2>2, <2>4
    <2>6. k \in Present(ht) /\ c = Hash[k] % ht.capacity
      BY <2>1, <2>4, <2>5, Found
    <2>7. k # key
      <3> SUFFICES ASSUME k = key PROVE FALSE
        OBVIOUS
      <3>1. ht.contents[b][m].key = k
        BY DEF key, chain
      <3>2. b = Hash[k] % ht.capacity
        BY <2>1, <3>1, Found
      <3>3. c = b
        BY <2>6, <3>2
      <3>4. l \in DOMAIN chain /\ l < m /\ Used(chain[l]) /\ chain[l].key = chain[m].key
        BY <1>1, <2>2, <2>3, <2>4, <3>1, <3>3 DEF chain
      <3>5. l = m
        BY <1>0, <3>4, OneLink DEF chain
      <3> QED BY <1>0, <3>4, <3>5
    <2> QED BY <2>6, <2>7
  <1>4. Present(new) = Present(ht) \ {key}
    BY <1>2, <1>3
  <1>5. \A k \in Present(new) : h_hashtable_get(new, k) = h_hashtable_get(ht, k)
    BY <1>2, <1>4
  <1> QED BY <1>4, <1>5 DEF MapOf, Without, Restrict, key, chain

LEMMA DelOK ==
  ASSUME NEW s, IsOrder(s), s # <<>>, NEW ht, TableOK(ht, s)
  PROVE  /\ TableOK(h_hashtable_del(ht, Last(s)), Front(s))
         /\ MapOf(h_hashtable_del(ht, Last(s))) = Without(MapOf(ht), Last(s))
  <1> DEFINE k == Last(s)
             b == Hash[k] % ht.capacity
             chain == ht.contents[b]
             f == Front(s)
             new == h_hashtable_del(ht, k)
             found == Matches(Hash[k], k, chain)
  <1>1. k \in Keys /\ IsOrder(f)
    BY OrderFront
  <1>2. /\ ht.capacity \in Nat \ {0} /\ ht.used \in Nat /\ b \in 0..ht.capacity - 1
        /\ ht.contents = [c \in 0..ht.capacity - 1 |-> ht.contents[c]]
        /\ ChainOK(chain, b, ht.capacity, s)
    BY <1>1, InRange DEF TableOK, IsTable
  <1>3. Bucket(ht, Hash[k]) = chain
    BY DEF Bucket
  <1> HIDE DEF k, b, chain, f, new, found
  <1>4. ASSUME NEW c \in 0..ht.capacity - 1, c # b \/ found = {}
        PROVE  ChainOK(ht.contents[c], c, ht.capacity, f)
    <2>1. ASSUME NEW i \in DOMAIN ht.contents[c], ht.contents[c][i].key = k PROVE FALSE
      <3>1. c = Hash[k] % ht.capacity /\ Matches(Hash[k], k, Bucket(ht, Hash[k])) = {i}
        BY <1>1, <2>1, Found
      <3> QED BY <1>3, <1>4, <3>1 DEF b, found
    <2>2. ChainOK(ht.contents[c], c, ht.capacity, s)
      BY DEF TableOK
    <2>3. \A i \in DOMAIN ht.contents[c] : ht.contents[c][i].key # Last(s)
      BY <2>1 DEF k
    <2> QED BY <2>2, <2>3, UntouchedOK DEF f
  <1>5. CASE found = {}
    <2>1. new = ht
      BY <1>3, <1>5 DEF h_hashtable_del, new, found
    <2>2. TableOK(new, f)
      BY <1>4, <1>5, <2>1 DEF TableOK
    <2>3. k \notin Present(ht)
      BY <1>3, <1>5 DEF Present, h_hashtable_present, found
    <2>4. MapOf(ht) = Without(MapOf(ht), k)
      BY <2>3 DEF Without, Restrict, MapOf
    <2> QED BY <2>1, <2>2, <2>4 DEF new, k, f
  <1>6. CASE found # {}
    <2>1. PICK m \in DOMAIN chain : chain[m].key = k
      BY <1>6 DEF Matches, found
    <2>2. found = {m}
      <3>1. m \in DOMAIN ht.contents[b] /\ ht.contents[b][m].key = k
        BY <2>1 DEF chain
      <3>2. Matches(Hash[k], k, Bucket(ht, Hash[k])) = {m}
        BY <1>1, <1>2, <3>1, Found
      <3> QED BY <1>3, <3>2 DEF found
    <2>3. Used(chain[m]) /\ m \in Nat
      <3>0. IsSeq(chain)
        BY <1>2 DEF ChainOK
      <3>1. m \in Nat
        BY <3>0, SeqFacts
      <3> QED BY <1>1, <2>1, <3>1, HashTableAssumption DEF Used, NULL
    <2>4. Link(Hash[k], k, chain) = m
      <3>1. Min({m}) = m
        BY <2>3 DEF Min
      <3> QED BY <2>2, <3>1 DEF Link, found
    <2>5. new = [capacity |-> ht.capacity, used |-> ht.used,
                 contents |-> [ht.contents EXCEPT ![b] = DelInChain(chain, m)]]
      BY <1>2, <1>3, <1>6, <2>4 DEF h_hashtable_del, new, found, b, chain
    <2>6. \A i \in DOMAIN chain : i > m => ~Used(chain[i])
      <3> SUFFICES ASSUME NEW i \in DOMAIN chain, i > m, Used(chain[i]) PROVE FALSE
        OBVIOUS
      <3>0. m < i
        <4>1. IsSeq(chain)
          BY <1>2 DEF ChainOK
        <4>2. i \in Nat
          BY <4>1, SeqFacts
        <4> QED BY <2>3, <4>2
      <3>1. Precedes(s, chain[m].key, chain[i].key)
        BY <1>2, <2>3, <3>0 DEF ChainOK
      <3> QED BY <2>1, <3>1, OrderFront DEF k
    <2> DEFINE rest == DelInChain(chain, m)
    <2> HIDE DEF rest
    <2>7. Drops(rest, chain, m)
      <3>1. IsSeq(chain)
        BY <1>2 DEF ChainOK
      <3> QED BY <3>1, <2>1, <2>6, DelInChainDrops DEF rest
    <2>8. /\ new.capacity = ht.capacity /\ new.used = ht.used
          /\ new.contents = [ht.contents EXCEPT ![b] = rest]
          /\ new = [capacity |-> new.capacity, used |-> new.used, contents |-> new.contents]
      BY <2>5 DEF rest
    <2>9. /\ new.contents[b] = rest
          /\ \A c \in 0..ht.capacity - 1 : c # b => new.contents[c] = ht.contents[c]
          /\ new.contents = [c \in 0..ht.capacity - 1 |-> new.contents[c]]
      BY <1>2, <2>8
    <2>10. ChainOK(rest, b, ht.capacity, f)
      BY <1>2, <2>1, <2>7, DropsOK DEF f, k
    <2>11. \A c \in 0..ht.capacity - 1 : ChainOK(new.contents[c], c, ht.capacity, f)
      BY <1>4, <2>9, <2>10
    <2>12. TableOK(new, f)
      BY <1>2, <2>8, <2>9, <2>11 DEF TableOK, IsTable
    <2>13. MapOf(new) = Without(MapOf(ht), ht.contents[b][m].key)
      <3>1. Drops(new.contents[b], ht.contents[b], m) /\ m \in DOMAIN ht.contents[b]
            /\ Used(ht.contents[b][m]) /\ new.capacity = ht.capacity /\ b \in 0..ht.capacity - 1
        BY <1>2, <2>1, <2>3, <2>7, <2>8, <2>9 DEF chain
      <3>2. \A i \in DOMAIN ht.contents[b] : i > m => ~Used(ht.contents[b][i])
        BY <2>6 DEF chain
      <3>3. \A c \in 0..ht.capacity - 1 : c # b => new.contents[c] = ht.contents[c]
        BY <2>9
      <3> QED BY <1>1, <2>12, <3>1, <3>2, <3>3, MapDel
    <2> QED BY <2>1, <2>12, <2>13 DEF new, f, chain, k
  <1> QED BY <1>5, <1>6

-----------------------------------------------------------------------------
(* Entering a key. *)

EnteredWith(s, k) == IF k \in Range(s) THEN s ELSE Append(s, k)

LEMMA OrderAppend ==
  ASSUME NEW s, IsOrder(s), NEW k \in Keys, k \notin Range(s)
  PROVE  LET t == Append(s, k)
         IN /\ IsOrder(t) /\ Range(t) = Range(s) \cup {k}
            /\ \A x, y : Precedes(s, x, y) => Precedes(t, x, y)
            /\ \A x \in Range(s) : Precedes(t, x, k)
  <1> DEFINE n == Len(s)
             t == Append(s, k)
  <1>1. n \in Nat /\ DOMAIN s = 1..n /\ \A i \in DOMAIN s : s[i] \in Keys
    BY DEF IsOrder
  <1>2. /\ t \in Seq(Keys) /\ DOMAIN t = 1..n + 1 /\ t[n + 1] = k
        /\ \A i \in DOMAIN s : t[i] = s[i]
    BY <1>1 DEF IsOrder
  <1> HIDE DEF n, t
  <1>3. \A i \in DOMAIN s : i \in DOMAIN t /\ i # n + 1 /\ i < n + 1 /\ s[i] # k
    BY <1>1, <1>2 DEF Range
  <1>4. \A i \in DOMAIN t : i \in DOMAIN s \/ i = n + 1
    BY <1>1, <1>2
  <1>5. n + 1 \in DOMAIN t
    BY <1>1, <1>2
  <1>6. ASSUME NEW i \in DOMAIN t, NEW j \in DOMAIN t, t[i] = t[j] PROVE i = j
    <2>1. CASE i \in DOMAIN s /\ j \in DOMAIN s
      BY <1>2, <1>6, <2>1 DEF IsOrder
    <2>2. CASE i = n + 1 \/ j = n + 1
      BY <1>2, <1>3, <1>4, <1>6, <2>2
    <2> QED BY <1>4, <2>1, <2>2
  <1>7. IsOrder(t)
    BY <1>2, <1>6 DEF IsOrder
  <1>8. Range(t) = Range(s) \cup {k}
    BY <1>2, <1>3, <1>4, <1>5 DEF Range
  <1>9. \A x, y : Precedes(s, x, y) => Precedes(t, x, y)
    BY <1>2, <1>3 DEF Precedes
  <1>10. \A x \in Range(s) : Precedes(t, x, k)
    BY <1>2, <1>3, <1>5 DEF Precedes, Range
  <1> QED BY <1>7, <1>8, <1>9, <1>10 DEF t

LEMMA TableLonger ==
  ASSUME NEW s, NEW t, NEW ht, TableOK(ht, s), Range(s) \subseteq Range(t),
         \A x, y : Precedes(s, x, y) => Precedes(t, x, y)
  PROVE  TableOK(ht, t)
  <1>1. ASSUME NEW b \in 0..ht.capacity - 1 PROVE ChainOK(ht.contents[b], b, ht.capacity, t)
    <2>1. ChainOK(ht.contents[b], b, ht.capacity, s)
      BY DEF TableOK
    <2> QED BY <2>1 DEF ChainOK, EntryOK
  <1> QED BY <1>1 DEF TableOK

LEMMA PutEnters ==
  ASSUME NEW s, IsOrder(s), NEW ht, Holding(ht, s), NEW e, e.key \in Keys, e.hashval = Hash[e.key]
  PROVE  LET t == EnteredWith(s, e.key)
         IN IsOrder(t) /\ Range(t) = Range(s) \cup {e.key} /\ TableOK(ht, t) /\ Enters(e, ht, t)
  <1> DEFINE t == EnteredWith(s, e.key)
  <1>0. TableOK(ht, s)
    BY DEF Holding
  <1>1. CASE e.key \in Range(s)
    <2>1. t = s
      BY <1>1 DEF EnteredWith
    <2>2. Matches(Hash[e.key], e.key, Bucket(ht, Hash[e.key])) # {}
      BY <1>1 DEF Holding, Present, h_hashtable_present
    <2> QED BY <1>0, <1>1, <2>1, <2>2 DEF Enters
  <1>2. CASE e.key \notin Range(s)
    <2>1. t = Append(s, e.key)
      BY <1>2 DEF EnteredWith
    <2> HIDE DEF t
    <2>2. /\ IsOrder(t) /\ Range(t) = Range(s) \cup {e.key}
          /\ \A x, y : Precedes(s, x, y) => Precedes(t, x, y)
          /\ \A x \in Range(s) : Precedes(t, x, e.key)
      BY <1>2, <2>1, OrderAppend
    <2>3. TableOK(ht, t)
      BY <1>0, <2>2, TableLonger
    <2>4. PICK b : b = Hash[e.key] % ht.capacity
      OBVIOUS
    <2>5. b \in 0..ht.capacity - 1 /\ Bucket(ht, e.hashval) = ht.contents[b]
      BY <1>0, <2>4, InRange DEF TableOK, IsTable, Bucket
    <2>6. ChainOK(ht.contents[b], b, ht.capacity, s)
      BY <1>0, <2>5 DEF TableOK
    <2>7. \A i \in DOMAIN ht.contents[b] :
            Used(ht.contents[b][i]) => Precedes(t, ht.contents[b][i].key, e.key)
      BY <2>2, <2>6 DEF ChainOK, EntryOK
    <2>8. Enters(e, ht, t)
      BY <2>5, <2>7 DEF Enters
    <2> QED BY <2>2, <2>3, <2>8 DEF t
  <1> QED BY <1>1, <1>2

LEMMA PutOK ==
  ASSUME NEW s, IsOrder(s), NEW ht, Holding(ht, s), NEW e, e.key \in Keys, e.hashval = Hash[e.key]
  PROVE  /\ IsOrder(EnteredWith(s, e.key))
         /\ Holding(h_hashtable_put_raw(ht, e), EnteredWith(s, e.key))
         /\ MapOf(h_hashtable_put_raw(ht, e)) = With(MapOf(ht), e)
  <1> DEFINE t == EnteredWith(s, e.key)
             new == h_hashtable_put_raw(ht, e)
  <1>1. IsOrder(t) /\ Range(t) = Range(s) \cup {e.key} /\ TableOK(ht, t) /\ Enters(e, ht, t)
    BY PutEnters
  <1> HIDE DEF t, new
  <1>2. TableOK(new, t) /\ MapOf(new) = With(MapOf(ht), e)
    BY <1>1, PutRawOK DEF new
  <1>3. Present(new) = Present(ht) \cup {e.key}
    BY <1>2 DEF MapOf, With, M!Over
  <1>4. Range(t) \subseteq Present(new)
    BY <1>1, <1>3 DEF Holding
  <1> QED BY <1>1, <1>2, <1>4 DEF Holding, t, new

-----------------------------------------------------------------------------
(* Going through a table. *)

LEMMA LinksOf ==
  ASSUME NEW s, NEW ht, TableOK(ht, s), NEW b \in 0..ht.capacity - 1
  PROVE  /\ Len(ht.contents[b]) \in Nat \ {0} /\ DOMAIN ht.contents[b] = 1..Len(ht.contents[b])
         /\ b \in Nat /\ b < ht.capacity /\ ht.capacity \in Nat
  <1>0. ht.capacity \in Nat
    BY DEF TableOK, IsTable
  <1>1. ChainOK(ht.contents[b], b, ht.capacity, s)
    BY DEF TableOK
  <1>2. PICK chain : chain = ht.contents[b]
    OBVIOUS
  <1>3. IsSeq(chain) /\ chain # <<>>
    BY <1>1, <1>2 DEF ChainOK
  <1>4. Len(chain) \in Nat /\ DOMAIN chain = 1..Len(chain) /\ 1 \in DOMAIN chain
    BY <1>3, SeqFacts
  <1>5. Len(chain) # 0
    BY <1>4
  <1> QED BY <1>0, <1>2, <1>4, <1>5

LEMMA PassedStart ==
  ASSUME NEW s, NEW ht, TableOK(ht, s)
  PROVE  PlaceOK(Start, ht) /\ Passed(Start, ht) = {}
  <1>1. ht.capacity \in Nat \ {0}
    BY DEF TableOK, IsTable
  <1>2. Start.bucket = 0 /\ Start.link = 1
    BY DEF Start
  <1>3. 1 \in DOMAIN ht.contents[0]
    <2>1. 0 \in 0..ht.capacity - 1
      BY <1>1
    <2>2. Len(ht.contents[0]) \in Nat \ {0} /\ DOMAIN ht.contents[0] = 1..Len(ht.contents[0])
      BY <2>1, LinksOf
    <2> QED BY <2>2
  <1>4. PlaceOK(Start, ht)
    BY <1>1, <1>2, <1>3 DEF PlaceOK
  <1>5. ASSUME NEW b \in 0..ht.capacity - 1, NEW l \in DOMAIN ht.contents[b] PROVE ~Before(b, l, Start)
    <2>1. /\ Len(ht.contents[b]) \in Nat \ {0} /\ DOMAIN ht.contents[b] = 1..Len(ht.contents[b])
          /\ b \in Nat
      BY LinksOf
    <2>2. l \in Nat \ {0}
      BY <2>1
    <2> QED BY <1>2, <2>1, <2>2 DEF Before
  <1> QED BY <1>4, <1>5 DEF Passed

LEMMA PassedNext ==
  ASSUME NEW s, NEW ht, TableOK(ht, s), NEW at, PlaceOK(at, ht), at.bucket < ht.capacity
  PROVE  /\ PlaceOK(Advanced(at, ht), ht)
         /\ at.bucket \in 0..ht.capacity - 1 /\ at.link \in DOMAIN ht.contents[at.bucket]
         /\ \A b \in 0..ht.capacity - 1 : \A l \in DOMAIN ht.contents[b] :
              Before(b, l, Advanced(at, ht)) <=> Before(b, l, at) \/ (b = at.bucket /\ l = at.link)
  <1> DEFINE c == at.bucket
             m == at.link
             n == Len(ht.contents[c])
             next == Advanced(at, ht)
  <1>1. ht.capacity \in Nat \ {0}
    BY DEF TableOK, IsTable
  <1>2. c \in 0..ht.capacity - 1 /\ m \in DOMAIN ht.contents[c]
    BY <1>1 DEF PlaceOK
  <1>3. n \in Nat \ {0} /\ DOMAIN ht.contents[c] = 1..n /\ c \in Nat /\ m \in 1..n /\ m \in Nat
    <2> HIDE DEF c, m, n
    <2>1. n \in Nat \ {0} /\ DOMAIN ht.contents[c] = 1..n /\ c \in Nat
      BY <1>2, LinksOf DEF n
    <2> QED BY <1>2, <2>1
  <1>4. CASE m < n
    <2>1. next.bucket = c /\ next.link = m + 1
      BY <1>4 DEF Advanced
    <2> HIDE DEF next
    <2>2. PlaceOK(next, ht)
      BY <1>1, <1>2, <1>3, <1>4, <2>1 DEF PlaceOK
    <2>3. ASSUME NEW b \in 0..ht.capacity - 1, NEW l \in DOMAIN ht.contents[b]
          PROVE  Before(b, l, next) <=> Before(b, l, at) \/ (b = c /\ l = m)
      <3>1. DOMAIN ht.contents[b] = 1..Len(ht.contents[b]) /\ Len(ht.contents[b]) \in Nat /\ b \in Nat
        BY LinksOf
      <3>2. l \in Nat
        BY <3>1
      <3>3. l < m + 1 <=> l < m \/ l = m
        BY <1>3, <3>2
      <3> QED BY <2>1, <3>3 DEF Before
    <2> QED BY <1>2, <2>2, <2>3 DEF next
  <1>5. CASE ~(m < n)
    <2>0. m = n
      BY <1>3, <1>5
    <2>1. next.bucket = c + 1 /\ next.link = 1
      BY <1>5 DEF Advanced
    <2> HIDE DEF next
    <2>2. PlaceOK(next, ht)
      <3>1. CASE c + 1 < ht.capacity
        <4>1. c + 1 \in 0..ht.capacity - 1
          BY <1>1, <1>3, <3>1
        <4>2. DOMAIN ht.contents[c + 1] = 1..Len(ht.contents[c + 1]) /\ Len(ht.contents[c + 1]) \in Nat \ {0}
          BY <4>1, LinksOf
        <4> QED BY <1>1, <2>1, <4>1, <4>2 DEF PlaceOK
      <3>2. CASE ~(c + 1 < ht.capacity)
        <4>1. c + 1 = ht.capacity
          BY <1>1, <1>2, <1>3, <3>2
        <4> QED BY <1>1, <2>1, <4>1 DEF PlaceOK
      <3> QED BY <3>1, <3>2
    <2>3. ASSUME NEW b \in 0..ht.capacity - 1, NEW l \in DOMAIN ht.contents[b]
          PROVE  Before(b, l, next) <=> Before(b, l, at) \/ (b = c /\ l = m)
      <3>1. DOMAIN ht.contents[b] = 1..Len(ht.contents[b]) /\ Len(ht.contents[b]) \in Nat /\ b \in Nat
        BY LinksOf
      <3>2. l \in 1..Len(ht.contents[b]) /\ l \in Nat /\ ~(l < 1)
        BY <3>1
      <3>3. b < c + 1 <=> b < c \/ b = c
        BY <1>3, <3>1
      <3>4. b = c => l < m \/ l = m
        BY <1>3, <2>0, <3>2
      <3> QED BY <2>1, <3>2, <3>3, <3>4 DEF Before
    <2> QED BY <1>2, <2>2, <2>3 DEF next
  <1> QED BY <1>4, <1>5

\* What one round of a loop adds.
LEMMA VisitOK ==
  ASSUME NEW s, IsOrder(s), NEW ht, TableOK(ht, s), NEW at, PlaceOK(at, ht), at.bucket < ht.capacity
  PROVE  LET e == Visited(at, ht)
         IN /\ ~Used(e) => Passed(Advanced(at, ht), ht) = Passed(at, ht)
            /\ Used(e) => /\ Passed(Advanced(at, ht), ht) = Passed(at, ht) \cup {e.key}
                          /\ e.key \in Keys /\ e.hashval = Hash[e.key] /\ e.key \in Range(s)
                          /\ e.key \in Present(ht) /\ h_hashtable_get(ht, e.key) = e.value
                          /\ e.key \notin Passed(at, ht)
  <1> DEFINE e == Visited(at, ht)
             b == at.bucket
             l == at.link
             next == Advanced(at, ht)
  <1>1. /\ b \in 0..ht.capacity - 1 /\ l \in DOMAIN ht.contents[b]
        /\ \A c \in 0..ht.capacity - 1 : \A m \in DOMAIN ht.contents[c] :
             Before(c, m, next) <=> Before(c, m, at) \/ (c = b /\ m = l)
    BY PassedNext
  <1>2. e = ht.contents[b][l]
    BY DEF Visited
  <1> HIDE DEF e, b, l, next
  <1>3. ChainOK(ht.contents[b], b, ht.capacity, s)
    BY <1>1 DEF TableOK
  <1>4. EntryOK(e, b, ht.capacity, s)
    BY <1>1, <1>2, <1>3 DEF ChainOK
  <1>5. CASE ~Used(e)
    <2>1. \A k \in Keys : e.key # k
      BY <1>5, HashTableAssumption DEF Used, NULL
    <2>2. Passed(next, ht) = Passed(at, ht)
      BY <1>1, <1>2, <2>1 DEF Passed
    <2> QED BY <1>5, <2>2 DEF next, e
  <1>6. CASE Used(e)
    <2>1. e.key \in Keys /\ e.hashval = Hash[e.key] /\ e.key \in Range(s)
      BY <1>4, <1>6 DEF EntryOK
    <2>2. e.key \in Present(ht) /\ h_hashtable_get(ht, e.key) = e.value
      BY <1>1, <1>2, <2>1, Found
    <2>3. ASSUME NEW k \in Passed(next, ht) PROVE k \in Passed(at, ht) \cup {e.key}
      <3>1. PICK c \in 0..ht.capacity - 1 : \E m \in DOMAIN ht.contents[c] :
              ht.contents[c][m].key = k /\ Before(c, m, next)
        BY DEF Passed
      <3>2. PICK m \in DOMAIN ht.contents[c] : ht.contents[c][m].key = k /\ Before(c, m, next)
        BY <3>1
      <3>3. CASE Before(c, m, at)
        BY <3>2, <3>3 DEF Passed
      <3>4. CASE c = b /\ m = l
        BY <1>2, <3>2, <3>4
      <3> QED BY <1>1, <3>2, <3>3, <3>4
    <2>4. Passed(at, ht) \subseteq Passed(next, ht)
      BY <1>1 DEF Passed
    <2>5. e.key \in Passed(next, ht)
      BY <1>1, <1>2, <2>1 DEF Passed
    <2>6. Passed(next, ht) = Passed(at, ht) \cup {e.key}
      BY <2>3, <2>4, <2>5
    <2>7. e.key \notin Passed(at, ht)
      <3> SUFFICES ASSUME e.key \in Passed(at, ht) PROVE FALSE
        OBVIOUS
      <3>1. PICK c \in 0..ht.capacity - 1 : \E m \in DOMAIN ht.contents[c] :
              ht.contents[c][m].key = e.key /\ Before(c, m, at)
        BY DEF Passed
      <3>2. PICK m \in DOMAIN ht.contents[c] : ht.contents[c][m].key = e.key /\ Before(c, m, at)
        BY <3>1
      <3> DEFINE found == Matches(Hash[e.key], e.key, Bucket(ht, Hash[e.key]))
      <3>3. c = Hash[e.key] % ht.capacity /\ found = {m}
        BY <2>1, <3>2, Found
      <3>4. b = Hash[e.key] % ht.capacity /\ found = {l}
        BY <1>1, <1>2, <2>1, Found
      <3>5. c = b /\ m = l
        BY <3>3, <3>4
      <3>6. b \in Nat /\ l \in Nat
        <4>1. b \in Nat /\ DOMAIN ht.contents[b] = 1..Len(ht.contents[b]) /\ Len(ht.contents[b]) \in Nat
          BY <1>1, LinksOf
        <4> QED BY <1>1, <4>1
      <3> QED BY <3>2, <3>5, <3>6 DEF Before, b, l
    <2> QED BY <1>6, <2>1, <2>2, <2>6, <2>7 DEF next, e
  <1> QED BY <1>5, <1>6

LEMMA PassedPresent ==
  ASSUME NEW s, IsOrder(s), NEW ht, TableOK(ht, s), NEW at
  PROVE  /\ Passed(at, ht) \subseteq Present(ht)
         /\ at.bucket = ht.capacity => Passed(at, ht) = Present(ht)
  <1>1. ASSUME NEW k \in Passed(at, ht) PROVE k \in Present(ht)
    BY Found DEF Passed
  <1>2. ASSUME NEW k \in Present(ht), at.bucket = ht.capacity PROVE k \in Passed(at, ht)
    <2> DEFINE b == Hash[k] % ht.capacity
    <2>1. k \in Keys /\ b \in 0..ht.capacity - 1
          /\ \E l \in DOMAIN ht.contents[b] : ht.contents[b][l].key = k
      BY PresentAt
    <2>2. b < at.bucket
      BY <1>2, <2>1, LinksOf
    <2> HIDE DEF b
    <2> QED BY <2>1, <2>2 DEF Passed, Before
  <1> QED BY <1>1, <1>2

LEMMA PartNext ==
  ASSUME NEW s, IsOrder(s), NEW ht, TableOK(ht, s), NEW at, PlaceOK(at, ht), at.bucket < ht.capacity
  PROVE  LET e == Visited(at, ht)
         IN Part(Advanced(at, ht), ht) = IF Used(e) THEN With(Part(at, ht), e) ELSE Part(at, ht)
  <1> DEFINE e == Visited(at, ht)
             next == Advanced(at, ht)
  <1>1. /\ ~Used(e) => Passed(next, ht) = Passed(at, ht)
        /\ Used(e) => /\ Passed(next, ht) = Passed(at, ht) \cup {e.key}
                      /\ h_hashtable_get(ht, e.key) = e.value
    BY VisitOK
  <1> HIDE DEF e, next
  <1>2. CASE ~Used(e)
    BY <1>1, <1>2 DEF Part, next, e
  <1>3. CASE Used(e)
    <2>1. With(Part(at, ht), e) = [k \in Passed(at, ht) \cup {e.key} |->
                                     IF k \in {e.key} THEN e.value ELSE h_hashtable_get(ht, k)]
      BY DEF With, M!Over, Part
    <2>2. Part(next, ht) = [k \in Passed(at, ht) \cup {e.key} |-> h_hashtable_get(ht, k)]
      BY <1>1, <1>3 DEF Part
    <2>3. \A k \in Passed(at, ht) \cup {e.key} :
            h_hashtable_get(ht, k) = IF k \in {e.key} THEN e.value ELSE h_hashtable_get(ht, k)
      BY <1>1, <1>3
    <2> QED BY <1>3, <2>1, <2>2, <2>3 DEF next, e
  <1> QED BY <1>2, <1>3

-----------------------------------------------------------------------------
(* Rehashing. *)

\* The keys of one bucket of the larger array were in one bucket of the old one.
LEMMA SameBucket ==
  ASSUME NEW c \in Nat \ {0}, NEW d \in Nat \ {0}, Multiple(c, d),
         NEW k \in Keys, NEW l \in Keys, Hash[k] % c = Hash[l] % c
  PROVE  Hash[k] % d = Hash[l] % d
  <1>1. PICK m \in 1..c : c = d * m
    BY DEF Multiple
  <1>2. m \in Nat \ {0} /\ Hash[k] \in Nat /\ Hash[l] \in Nat
    BY HashTableAssumption
  <1>3. (Hash[k] % (d * m)) % d = Hash[k] % d
    BY <1>2, ModMod
  <1>4. (Hash[l] % (d * m)) % d = Hash[l] % d
    BY <1>2, ModMod
  <1> QED BY <1>1, <1>3, <1>4

LEMMA RehashEnters ==
  ASSUME NEW s, IsOrder(s), NEW old, TableOK(old, s), NEW ht, TableOK(ht, s),
         Multiple(ht.capacity, old.capacity),
         NEW at, PlaceOK(at, old), at.bucket < old.capacity, MapOf(ht) = Part(at, old),
         Used(Visited(at, old))
  PROVE  Enters(Visited(at, old), ht, s)
  <1> DEFINE e == Visited(at, old)
             b == at.bucket
             h == Hash[e.key] % ht.capacity
  <1>1. ht.capacity \in Nat \ {0} /\ old.capacity \in Nat \ {0}
    BY DEF TableOK, IsTable
  <1>2. b \in 0..old.capacity - 1 /\ at.link \in DOMAIN old.contents[b]
    BY PassedNext
  <1>3. e = old.contents[b][at.link]
    BY DEF Visited
  <1>4. ChainOK(old.contents[b], b, old.capacity, s)
    BY <1>2 DEF TableOK
  <1> HIDE DEF e, b, h
  <1>5. e.key \in Keys /\ e.hashval = Hash[e.key] /\ Hash[e.key] % old.capacity = b
    <2>1. EntryOK(e, b, old.capacity, s) /\ Used(e)
      BY <1>2, <1>3, <1>4 DEF ChainOK, e
    <2> QED BY <2>1 DEF EntryOK
  <1>6. h \in 0..ht.capacity - 1 /\ Bucket(ht, e.hashval) = ht.contents[h]
    BY <1>1, <1>5, InRange DEF h, Bucket
  <1>7. ASSUME NEW i \in DOMAIN ht.contents[h], Used(ht.contents[h][i])
        PROVE  Precedes(s, ht.contents[h][i].key, e.key)
    <2> DEFINE x == ht.contents[h][i].key
    <2>1. ChainOK(ht.contents[h], h, ht.capacity, s)
      BY <1>6 DEF TableOK
    <2>2. x \in Keys /\ Hash[x] % ht.capacity = h
      BY <1>7, <2>1 DEF ChainOK, EntryOK
    <2>3. x \in Present(ht)
      BY <1>6, <1>7, <2>2, Found
    <2>4. x \in Passed(at, old)
      BY <2>3 DEF MapOf, Part
    <2> HIDE DEF x
    <2>5. PICK c \in 0..old.capacity - 1 : \E l \in DOMAIN old.contents[c] :
            old.contents[c][l].key = x /\ Before(c, l, at)
      BY <2>4 DEF Passed
    <2>6. PICK l \in DOMAIN old.contents[c] : old.contents[c][l].key = x /\ Before(c, l, at)
      BY <2>5
    <2>7. c = Hash[x] % old.capacity
      BY <2>2, <2>6, Found
    <2>8. Hash[x] % old.capacity = Hash[e.key] % old.capacity
      <3>1. Hash[x] % ht.capacity = Hash[e.key] % ht.capacity
        BY <2>2 DEF h
      <3> QED BY <1>1, <1>5, <2>2, <3>1, SameBucket
    <2>9. c = b
      BY <1>5, <2>7, <2>8
    <2>10. l < at.link
      <3>1. b \in Nat
        BY <1>2, LinksOf
      <3>2. ~(b < b)
        BY <3>1
      <3> QED BY <2>6, <2>9, <3>2 DEF Before, b
    <2>11. Used(old.contents[b][l]) /\ l \in DOMAIN old.contents[b]
      BY <2>2, <2>6, <2>9, HashTableAssumption DEF Used, NULL
    <2>12. Used(old.contents[b][at.link])
      BY <1>3 DEF e
    <2>13. Precedes(s, old.contents[b][l].key, old.contents[b][at.link].key)
      BY <1>2, <1>4, <2>10, <2>11, <2>12 DEF ChainOK
    <2> QED BY <1>3, <2>6, <2>9, <2>13 DEF x
  <1>8. Enters(e, ht, s)
    BY <1>6, <1>7 DEF Enters
  <1> QED BY <1>8 DEF e

LEMMA RehashOK ==
  ASSUME NEW s, IsOrder(s), NEW old, TableOK(old, s), NEW ht, TableOK(ht, s),
         Multiple(ht.capacity, old.capacity),
         NEW at, PlaceOK(at, old), at.bucket < old.capacity, MapOf(ht) = Part(at, old)
  PROVE  LET e == Visited(at, old)
             new == IF Used(e) THEN h_hashtable_put_raw(ht, e) ELSE ht
         IN /\ TableOK(new, s) /\ new.capacity = ht.capacity
            /\ PlaceOK(Advanced(at, old), old) /\ MapOf(new) = Part(Advanced(at, old), old)
  <1> DEFINE e == Visited(at, old)
             next == Advanced(at, old)
             put == h_hashtable_put_raw(ht, e)
  <1>1. PlaceOK(next, old)
    BY PassedNext
  <1>2. Part(next, old) = IF Used(e) THEN With(Part(at, old), e) ELSE Part(at, old)
    BY PartNext
  <1>3. Used(e) => e.key \in Keys /\ e.hashval = Hash[e.key] /\ e.key \in Range(s)
    BY VisitOK
  <1>4. Used(e) => Enters(e, ht, s)
    BY RehashEnters
  <1> HIDE DEF e, next, put
  <1>5. CASE Used(e)
    <2>1. TableOK(put, s) /\ put.capacity = ht.capacity /\ MapOf(put) = With(MapOf(ht), e)
      BY <1>3, <1>4, <1>5, PutRawOK DEF put
    <2>2. MapOf(put) = Part(next, old)
      BY <1>2, <1>5, <2>1
    <2> QED BY <1>1, <1>5, <2>1, <2>2 DEF put, next, e
  <1>6. CASE ~Used(e)
    BY <1>1, <1>2, <1>6 DEF next, e
  <1> QED BY <1>5, <1>6

LEMMA NewTableOK ==
  ASSUME NEW s, NEW capacity \in Nat \ {0}
  PROVE  /\ TableOK(NewTable(capacity), s) /\ NewTable(capacity).capacity = capacity
         /\ MapOf(NewTable(capacity)) = <<>> /\ Present(NewTable(capacity)) = {}
  <1> DEFINE ht == NewTable(capacity)
  <1>1. /\ ht = [capacity |-> capacity, used |-> 0, contents |-> [b \in 0..capacity - 1 |-> <<Empty>>]]
        /\ ht.capacity = capacity /\ ht.used = 0 /\ ht.contents = [b \in 0..capacity - 1 |-> <<Empty>>]
    BY DEF NewTable
  <1> HIDE DEF ht
  <1>2. ~Used(Empty)
    BY DEF Used, Empty
  <1>3. <<Empty>> \in Seq({Empty}) /\ <<Empty>> # <<>> /\ DOMAIN <<Empty>> = {1} /\ <<Empty>>[1] = Empty
    OBVIOUS
  <1>4. IsSeq(<<Empty>>)
    BY <1>3, SeqIs
  <1>5. \A b : ChainOK(<<Empty>>, b, capacity, s)
    <2>1. \A i \in DOMAIN <<Empty>> : ~Used(<<Empty>>[i])
      BY <1>2, <1>3
    <2>2. PICK chain : chain = <<Empty>>
      OBVIOUS
    <2>3. \A b : ChainOK(chain, b, capacity, s)
      BY <1>3, <1>4, <2>1, <2>2 DEF ChainOK, EntryOK
    <2> QED BY <2>2, <2>3
  <1>6. \A b \in 0..ht.capacity - 1 : ht.contents[b] = <<Empty>>
    BY <1>1
  <1>7. ht.contents = [b \in 0..ht.capacity - 1 |-> ht.contents[b]]
    BY <1>1
  <1>8. IsTable(ht)
    BY <1>1 DEF IsTable
  <1>9. TableOK(ht, s)
    BY <1>1, <1>5, <1>6, <1>7, <1>8 DEF TableOK
  <1>10. Present(ht) = {}
    <2> SUFFICES ASSUME NEW k \in Present(ht) PROVE FALSE
      OBVIOUS
    <2> DEFINE b == Hash[k] % ht.capacity
    <2>1. k \in Keys /\ b \in 0..ht.capacity - 1
          /\ \E l \in DOMAIN ht.contents[b] : ht.contents[b][l].key = k
      BY <1>9, PresentAt
    <2> HIDE DEF b
    <2>2. Empty.key = k
      BY <1>3, <1>6, <2>1
    <2> QED BY <2>1, <2>2, HashTableAssumption DEF Empty, NULL
  <1>11. MapOf(ht) = <<>>
    BY <1>10 DEF MapOf
  <1> QED BY <1>1, <1>9, <1>10, <1>11 DEF ht

-----------------------------------------------------------------------------
(* Every step keeps the invariant. *)

LEMMA Initially ==
  ASSUME Init
  PROVE  IInv
  <1>1. /\ tables = [t \in Tables |-> NewTable(InitialCapacity)] /\ pc = "idle" /\ loop = Nothing
        /\ entered = [t \in Tables |-> <<>>]
    BY DEF Init
  <1>2. <<>> \in Seq(Keys) /\ Range(<<>>) = {} /\ DOMAIN <<>> = {}
    BY DEF Range
  <1>3. IsOrder(<<>>)
    BY <1>2 DEF IsOrder
  <1>4. Holding(NewTable(InitialCapacity), <<>>)
    BY <1>2, NewTableOK, HashTableAssumption DEF Holding
  <1>5. TypeInv
    BY <1>1, <1>3 DEF TypeInv
  <1>6. TablesInv
    BY <1>1, <1>4 DEF TablesInv
  <1>7. CallInv /\ WasInv /\ LoopInv
    BY <1>1 DEF CallInv, WasInv, LoopInv, Putting
  <1> QED BY <1>5, <1>6, <1>7 DEF IInv

LEMMA PutStep ==
  ASSUME IInv, NEW t \in Tables, NEW k \in Keys, NEW v \in Values, Put(t, k, v)
  PROVE  IInv'
  <1>1. /\ pc = "idle" /\ pc' = "grow" /\ tables' = tables /\ loop' = loop /\ entered' = entered
        /\ call' = [table |-> t, entry |-> Entry(k, v), old |-> tables[t], at |-> Start]
        /\ was' = [u \in Tables |-> MapOf(tables[u])]
    BY DEF Put, Call, Maps
  <1>2. /\ call'.table = t /\ call'.entry = Entry(k, v) /\ call'.old = tables[t] /\ call'.at = Start
        /\ call' = [table |-> call'.table, entry |-> call'.entry, old |-> call'.old, at |-> call'.at]
    BY <1>1
  <1>3. Entry(k, v).key = k /\ Entry(k, v).value = v /\ Entry(k, v).hashval = Hash[k]
    BY DEF Entry
  <1>4. \A u \in Tables : Holding(tables[u], entered[u])
    BY <1>1 DEF IInv, TablesInv
  <1>5. TypeInv'
    BY <1>1 DEF IInv, TypeInv
  <1>6. TablesInv'
    BY <1>1, <1>4 DEF TablesInv
  <1>7. CallOK(call', entered[t])
    BY <1>2, <1>3, <1>4 DEF CallOK
  <1>8. Growing(call', tables[t])
    <2>1. IsTable(tables[t])
      BY <1>4 DEF Holding, TableOK
    <2>2. Multiple(tables[t].capacity, tables[t].capacity)
      BY <2>1, MultipleSelf DEF IsTable
    <2> QED BY <1>2, <2>1, <2>2 DEF Growing
  <1>9. CallInv'
    BY <1>1, <1>2, <1>7, <1>8 DEF CallInv, HT, Putting
  <1>10. WasInv'
    BY <1>1 DEF WasInv
  <1>11. LoopInv'
    BY <1>1, <1>2, <1>3 DEF IInv, LoopInv, Putting
  <1> QED BY <1>5, <1>6, <1>9, <1>10, <1>11 DEF IInv

LEMMA DelStep ==
  ASSUME IInv, NEW t \in Tables, Del(t)
  PROVE  /\ IInv' /\ \A u \in Tables : u # t => tables'[u] = tables[u]
         /\ Last(entered[t]) \in Keys
         /\ MapOf(tables'[t]) = Without(MapOf(tables[t]), Last(entered[t]))
  <1> DEFINE s == entered[t]
             new == h_hashtable_del(tables[t], Last(s))
  <1>1. /\ pc = "idle" /\ s # <<>> /\ tables' = [tables EXCEPT ![t] = new]
        /\ entered' = [entered EXCEPT ![t] = Front(s)]
        /\ pc' = pc /\ call' = call /\ loop' = loop /\ was' = was
    BY DEF Del
  <1>2. IsOrder(s) /\ Holding(tables[t], s)
    BY <1>1 DEF IInv, TypeInv, TablesInv
  <1>3. TableOK(tables[t], s)
    BY <1>2 DEF Holding
  <1> HIDE DEF s, new
  <1>4. TableOK(new, Front(s)) /\ MapOf(new) = Without(MapOf(tables[t]), Last(s))
    BY <1>1, <1>2, <1>3, DelOK DEF new
  <1>5. IsOrder(Front(s)) /\ Range(Front(s)) = Range(s) \ {Last(s)} /\ Last(s) \in Keys
    BY <1>1, <1>2, OrderFront
  <1>6. Present(new) = Present(tables[t]) \ {Last(s)}
    BY <1>4 DEF MapOf, Without, Restrict
  <1>7. Holding(new, Front(s))
    BY <1>2, <1>4, <1>5, <1>6 DEF Holding
  <1>8. /\ tables = [u \in Tables |-> tables[u]] /\ entered = [u \in Tables |-> entered[u]]
        /\ \A u \in Tables : IsOrder(entered[u]) /\ Holding(tables[u], entered[u])
    BY <1>1 DEF IInv, TypeInv, TablesInv
  <1>9. /\ tables' = [u \in Tables |-> tables'[u]] /\ entered' = [u \in Tables |-> entered'[u]]
        /\ tables'[t] = new /\ entered'[t] = Front(s)
        /\ \A u \in Tables : u # t => tables'[u] = tables[u] /\ entered'[u] = entered[u]
    BY <1>1, <1>8
  <1>10. TypeInv'
    BY <1>1, <1>5, <1>8, <1>9 DEF TypeInv
  <1>11. TablesInv'
    BY <1>7, <1>8, <1>9 DEF TablesInv
  <1>12. CallInv' /\ WasInv' /\ LoopInv'
    BY <1>1 DEF CallInv, WasInv, LoopInv, Putting, IInv
  <1> QED BY <1>4, <1>5, <1>9, <1>10, <1>11, <1>12 DEF IInv, s

LEMMA GrowStep ==
  ASSUME IInv, Grow
  PROVE  IInv' /\ was' = was
  <1> DEFINE t == call.table
             new == [capacity |-> 2 * HT.capacity, used |-> HT.used, contents |-> HT.contents]
  <1>1. /\ pc = "grow" /\ tables' = [tables EXCEPT ![t] = new]
        /\ pc' = pc /\ call' = call /\ loop' = loop /\ was' = was /\ entered' = entered
    BY DEF Grow, SetHT
  <1>2. CallOK(call, entered[t]) /\ Growing(call, HT) /\ t \in Tables
    BY <1>1 DEF IInv, CallInv, Putting, CallOK
  <1>3. /\ HT.capacity \in Nat \ {0} /\ HT.used \in Nat /\ call.old.capacity \in Nat \ {0}
    BY <1>2 DEF Growing, IsTable, CallOK, Holding, TableOK
  <1>4. Multiple(2 * HT.capacity, call.old.capacity)
    <2>1. PICK c, d : c = HT.capacity /\ d = call.old.capacity
      OBVIOUS
    <2>2. PICK m \in 1..c : c = d * m
      BY <1>2, <2>1 DEF Growing, Multiple
    <2>3. 2 * m \in 1..2 * c /\ 2 * c = d * (2 * m)
      BY <1>3, <2>1, <2>2
    <2> QED BY <2>1, <2>3 DEF Multiple
  <1>5. /\ new.capacity = 2 * HT.capacity /\ new.used = HT.used /\ new.contents = HT.contents
        /\ new = [capacity |-> new.capacity, used |-> new.used, contents |-> new.contents]
    OBVIOUS
  <1>6. 2 * HT.capacity \in Nat \ {0}
    BY <1>3
  <1> HIDE DEF new
  <1>7. Growing(call, new)
    BY <1>2, <1>3, <1>4, <1>5, <1>6 DEF Growing, IsTable
  <1>8. tables = [u \in Tables |-> tables[u]]
    BY DEF IInv, TypeInv
  <1>9. /\ tables' = [u \in Tables |-> tables'[u]] /\ tables'[t] = new
        /\ \A u \in Tables : u # t => tables'[u] = tables[u]
    BY <1>1, <1>2, <1>8
  <1>10. TypeInv'
    BY <1>1, <1>9 DEF TypeInv, IInv
  <1>11. TablesInv'
    BY <1>1, <1>9 DEF TablesInv, IInv
  <1>12. CallInv'
    BY <1>1, <1>2, <1>7, <1>9 DEF CallInv, Putting, HT
  <1>13. WasInv'
    BY <1>1, <1>9 DEF WasInv, IInv, Target, Putting
  <1>14. LoopInv'
    <2>1. LoopOK(loop, tables[loop.src]) /\ t = loop.dst => tables'[loop.src] = tables[loop.src]
      BY <1>9 DEF LoopOK
    <2> QED BY <1>1, <2>1 DEF LoopInv, IInv, Putting
  <1> QED BY <1>1, <1>10, <1>11, <1>12, <1>13, <1>14 DEF IInv

\* The loop of h_hashtable_update does not see the table that is put into.
LEMMA SourceSame ==
  ASSUME IInv, Putting, loop' = loop,
         \A u \in Tables : u # call.table => tables'[u] = tables[u]
  PROVE  LoopOK(loop, tables[loop.src]) /\ call.table = loop.dst =>
           tables'[loop'.src] = tables[loop.src]
  BY DEF LoopOK

LEMMA NoResizeStep ==
  ASSUME IInv, NoResize
  PROVE  IInv' /\ was' = was
  <1> DEFINE t == call.table
  <1>1. /\ pc = "grow" /\ pc' = "put_raw" /\ HT.capacity = call.old.capacity
        /\ tables' = tables /\ call' = call /\ loop' = loop /\ was' = was /\ entered' = entered
    BY DEF NoResize
  <1>2. CallOK(call, entered[t]) /\ Growing(call, HT)
    BY <1>1 DEF IInv, CallInv, Putting
  <1>3. HT = call.old
    <2>1. IsTable(call.old)
      BY <1>2 DEF CallOK, Holding, TableOK
    <2> QED BY <1>1, <1>2, <2>1 DEF Growing, IsTable
  <1>4. Holding(HT, entered[t])
    BY <1>2, <1>3 DEF CallOK
  <1>5. TypeInv'
    BY <1>1 DEF IInv, TypeInv
  <1>6. TablesInv'
    BY <1>1, <1>4 DEF IInv, TablesInv, HT
  <1>7. Copied(call, HT)
    BY <1>3 DEF Copied
  <1>8. CallInv'
    BY <1>1, <1>2, <1>7 DEF CallInv, Putting, HT
  <1>9. WasInv'
    BY <1>1 DEF IInv, WasInv, Target, Putting
  <1>10. LoopInv'
    BY <1>1 DEF IInv, LoopInv, Putting
  <1> QED BY <1>1, <1>5, <1>6, <1>8, <1>9, <1>10 DEF IInv

LEMMA ResizeStep ==
  ASSUME IInv, Resize
  PROVE  IInv' /\ was' = was
  <1> DEFINE t == call.table
             new == NewTable(HT.capacity)
             s == entered[t]
  <1>1. /\ pc = "grow" /\ pc' = "rehash" /\ tables' = [tables EXCEPT ![t] = new]
        /\ call' = call /\ loop' = loop /\ was' = was /\ entered' = entered
    BY DEF Resize, SetHT
  <1>2. CallOK(call, s) /\ Growing(call, HT) /\ t \in Tables /\ Putting
    BY <1>1 DEF IInv, CallInv, Putting, CallOK
  <1>3. HT.capacity \in Nat \ {0} /\ TableOK(call.old, s) /\ call.at = Start
    BY <1>2 DEF Growing, IsTable, CallOK, Holding
  <1>4. TableOK(new, s) /\ new.capacity = HT.capacity /\ MapOf(new) = <<>>
    BY <1>3, NewTableOK
  <1> HIDE DEF new
  <1>5. PlaceOK(Start, call.old) /\ Passed(Start, call.old) = {}
    BY <1>3, PassedStart
  <1>6. Part(Start, call.old) = <<>>
    BY <1>5 DEF Part
  <1>7. Copying(call, new, s)
    BY <1>2, <1>3, <1>4, <1>5, <1>6 DEF Copying, Growing
  <1>8. tables = [u \in Tables |-> tables[u]]
    BY DEF IInv, TypeInv
  <1>9. /\ tables' = [u \in Tables |-> tables'[u]] /\ tables'[t] = new
        /\ \A u \in Tables : u # t => tables'[u] = tables[u]
    BY <1>1, <1>2, <1>8
  <1>10. TypeInv'
    BY <1>1, <1>9 DEF TypeInv, IInv
  <1>11. TablesInv'
    BY <1>1, <1>9 DEF TablesInv, IInv
  <1>12. CallInv'
    BY <1>1, <1>2, <1>7, <1>9 DEF CallInv, Putting, HT
  <1>13. WasInv'
    BY <1>1, <1>9 DEF WasInv, IInv, Target, Putting
  <1>14. LoopInv'
    <2>1. LoopOK(loop, tables[loop.src]) /\ t = loop.dst => tables'[loop'.src] = tables[loop.src]
      BY <1>1, <1>2, <1>9, SourceSame
    <2> QED BY <1>1, <2>1 DEF LoopInv, IInv, Putting
  <1> QED BY <1>1, <1>10, <1>11, <1>12, <1>13, <1>14 DEF IInv

LEMMA RehashStep ==
  ASSUME IInv, Rehash
  PROVE  IInv' /\ was' = was
  <1> DEFINE t == call.table
             s == entered[t]
             old == call.old
             e == Visited(call.at, old)
             new == IF Used(e) THEN h_hashtable_put_raw(HT, e) ELSE HT
             next == Advanced(call.at, old)
  <1>1. /\ pc = "rehash" /\ pc' = pc /\ loop' = loop /\ was' = was /\ entered' = entered
        /\ call.at.bucket < old.capacity /\ call' = [call EXCEPT !.at = next]
    BY DEF Rehash
  <1>2. CallOK(call, s) /\ Copying(call, HT, s) /\ t \in Tables /\ Putting /\ IsOrder(s)
    BY <1>1 DEF IInv, CallInv, Putting, CallOK, TypeInv
  <1>3. tables = [u \in Tables |-> tables[u]]
    BY DEF IInv, TypeInv
  <1>4. /\ tables' = [u \in Tables |-> tables'[u]] /\ tables'[t] = new
        /\ \A u \in Tables : u # t => tables'[u] = tables[u]
    <2>1. CASE Used(e)
      <3>1. tables' = [tables EXCEPT ![t] = new]
        BY <2>1 DEF Rehash, SetHT, Used
      <3> QED BY <1>2, <1>3, <3>1
    <2>2. CASE ~Used(e)
      <3>1. tables' = tables /\ new = HT
        BY <2>2 DEF Rehash, Used
      <3> QED BY <1>3, <3>1 DEF HT
    <2> QED BY <2>1, <2>2
  <1>5. /\ TableOK(old, s) /\ TableOK(HT, s) /\ Multiple(HT.capacity, old.capacity)
        /\ PlaceOK(call.at, old) /\ MapOf(HT) = Part(call.at, old)
    BY <1>2 DEF CallOK, Holding, Copying
  <1>6. /\ TableOK(new, s) /\ new.capacity = HT.capacity
        /\ PlaceOK(next, old) /\ MapOf(new) = Part(next, old)
    <2> HIDE DEF s, old
    <2> QED BY <1>1, <1>2, <1>5, RehashOK
  <1> HIDE DEF new, next
  <1>7. /\ call'.table = t /\ call'.entry = call.entry /\ call'.old = old /\ call'.at = next
        /\ call' = [table |-> call'.table, entry |-> call'.entry, old |-> call'.old, at |-> call'.at]
    <2>1. call = [table |-> call.table, entry |-> call.entry, old |-> call.old, at |-> call.at]
      BY <1>2 DEF CallOK
    <2> QED BY <1>1, <2>1
  <1>8. CallOK(call', s)
    BY <1>2, <1>7 DEF CallOK
  <1>9. Copying(call', new, s)
    BY <1>5, <1>6, <1>7 DEF Copying
  <1>10. TypeInv'
    BY <1>1, <1>4 DEF TypeInv, IInv
  <1>11. TablesInv'
    BY <1>1, <1>4, <1>7 DEF TablesInv, IInv
  <1>12. CallInv'
    BY <1>1, <1>4, <1>7, <1>8, <1>9 DEF CallInv, Putting, HT
  <1>13. WasInv'
    BY <1>1, <1>4, <1>7 DEF WasInv, IInv, Target, Putting
  <1>14. LoopInv'
    <2>1. LoopOK(loop, tables[loop.src]) /\ t = loop.dst => tables'[loop'.src] = tables[loop.src]
      BY <1>1, <1>2, <1>4, SourceSame
    <2> QED BY <1>1, <1>7, <2>1 DEF LoopInv, IInv, Putting
  <1> QED BY <1>1, <1>10, <1>11, <1>12, <1>13, <1>14 DEF IInv

LEMMA RehashedStep ==
  ASSUME IInv, Rehashed
  PROVE  IInv' /\ was' = was
  <1> DEFINE t == call.table
             s == entered[t]
  <1>1. /\ pc = "rehash" /\ pc' = "put_raw" /\ call.at.bucket = call.old.capacity
        /\ tables' = tables /\ call' = call /\ loop' = loop /\ was' = was /\ entered' = entered
    BY DEF Rehashed
  <1>2. CallOK(call, s) /\ Copying(call, HT, s) /\ IsOrder(s)
    BY <1>1 DEF IInv, CallInv, Putting, TypeInv, CallOK
  <1>3. TableOK(call.old, s) /\ Range(s) \subseteq Present(call.old)
    BY <1>2 DEF CallOK, Holding
  <1>4. Passed(call.at, call.old) = Present(call.old)
    BY <1>1, <1>2, <1>3, PassedPresent
  <1>5. MapOf(HT) = MapOf(call.old)
    BY <1>2, <1>4 DEF Copying, Part, MapOf
  <1>6. Present(HT) = Present(call.old)
    BY <1>5 DEF MapOf
  <1>7. Holding(HT, s)
    BY <1>2, <1>3, <1>6 DEF Holding, Copying
  <1>8. TypeInv'
    BY <1>1 DEF IInv, TypeInv
  <1>9. TablesInv'
    BY <1>1, <1>7 DEF IInv, TablesInv, HT
  <1>10. CallInv'
    BY <1>1, <1>2, <1>5 DEF CallInv, Putting, HT, Copied
  <1>11. WasInv'
    BY <1>1 DEF IInv, WasInv, Target, Putting
  <1>12. LoopInv'
    BY <1>1 DEF IInv, LoopInv, Putting
  <1> QED BY <1>1, <1>8, <1>9, <1>10, <1>11, <1>12 DEF IInv

LEMMA PutRawStep ==
  ASSUME IInv, PutRaw
  PROVE  /\ IInv' /\ call.table \in Tables
         /\ \A u \in Tables : u # call.table => tables'[u] = tables[u]
         /\ MapOf(tables'[call.table]) = With(MapOf(call.old), call.entry)
  <1> DEFINE t == call.table
             s == entered[t]
             e == call.entry
             new == h_hashtable_put_raw(HT, e)
             longer == EnteredWith(s, e.key)
  <1>1. /\ pc = "put_raw" /\ tables' = [tables EXCEPT ![t] = new]
        /\ entered' = [entered EXCEPT ![t] = longer]
        /\ loop' = loop
        /\ IF loop = Nothing THEN pc' = "idle" ELSE pc' = "loop" /\ was' = was
    BY DEF PutRaw, SetHT, EnteredWith
  <1>2. CallOK(call, s) /\ Copied(call, HT) /\ t \in Tables /\ Putting
    BY <1>1 DEF IInv, CallInv, Putting, CallOK
  <1>3. IsOrder(s) /\ Holding(HT, s) /\ e.key \in Keys /\ e.hashval = Hash[e.key]
    BY <1>1, <1>2 DEF IInv, TypeInv, TablesInv, CallOK, HT
  <1>4. IsOrder(longer) /\ Holding(new, longer) /\ MapOf(new) = With(MapOf(HT), e)
    <2> HIDE DEF s, e
    <2> QED BY <1>3, PutOK
  <1>5. MapOf(new) = With(MapOf(call.old), e)
    BY <1>2, <1>4 DEF Copied
  <1> HIDE DEF new, longer
  <1>6. /\ tables = [u \in Tables |-> tables[u]] /\ entered = [u \in Tables |-> entered[u]]
        /\ \A u \in Tables : IsOrder(entered[u]) /\ Holding(tables[u], entered[u])
    BY <1>1 DEF IInv, TypeInv, TablesInv
  <1>7. /\ tables' = [u \in Tables |-> tables'[u]] /\ entered' = [u \in Tables |-> entered'[u]]
        /\ tables'[t] = new /\ entered'[t] = longer
        /\ \A u \in Tables : u # t => tables'[u] = tables[u] /\ entered'[u] = entered[u]
    BY <1>1, <1>2, <1>6
  <1>8. TypeInv'
    BY <1>1, <1>4, <1>6, <1>7 DEF TypeInv
  <1>9. TablesInv'
    BY <1>4, <1>6, <1>7 DEF TablesInv
  <1>10. CallInv'
    BY <1>1 DEF CallInv, Putting
  <1>11. \/ loop = Nothing
         \/ /\ loop # Nothing /\ LoopOK(loop, tables[loop.src]) /\ t = loop.dst
            /\ MapOf(new) = Goal(was, loop, tables[loop.src])
    <2>1. \/ loop = Nothing
          \/ /\ LoopOK(loop, tables[loop.src]) /\ t = loop.dst
             /\ With(MapOf(call.old), e) = Goal(was, loop, tables[loop.src])
      BY <1>2 DEF IInv, LoopInv
    <2>2. LoopOK(loop, tables[loop.src]) => loop # Nothing
      BY DEF LoopOK, Nothing
    <2> QED BY <1>5, <2>1, <2>2
  <1>12. LoopOK(loop, tables[loop.src]) /\ t = loop.dst => tables'[loop'.src] = tables[loop.src]
    BY <1>1, <1>2, <1>7, SourceSame
  <1>13. WasInv' /\ LoopInv'
    <2>1. CASE loop = Nothing
      BY <1>1, <2>1 DEF WasInv, LoopInv, Putting
    <2>2. CASE loop # Nothing
      <3>1. /\ pc' = "loop" /\ was' = was /\ t = loop.dst /\ LoopOK(loop, tables[loop.src])
            /\ MapOf(new) = Goal(was, loop, tables[loop.src]) /\ tables'[loop.src] = tables[loop.src]
        BY <1>1, <1>11, <1>12, <2>2
      <3>2. /\ was = [u \in Tables |-> was[u]]
            /\ \A u \in Tables : u # t => was[u] = MapOf(tables[u])
        BY <1>1 DEF IInv, WasInv, Target, Putting
      <3>3. WasInv'
        BY <1>1, <1>7, <3>1, <3>2 DEF WasInv, Target, Putting
      <3>4. LoopInv'
        BY <1>1, <1>7, <3>1 DEF LoopInv, Putting
      <3> QED BY <3>3, <3>4
    <2> QED BY <2>1, <2>2
  <1> QED BY <1>2, <1>5, <1>7, <1>8, <1>9, <1>10, <1>13 DEF IInv

LEMMA LoopStep ==
  ASSUME IInv, NEW t \in Tables, NEW u \in Tables \ {t}, NEW how \in {"update", "merge"}, Loop(how, t, u)
  PROVE  IInv'
  <1>1. /\ pc = "idle" /\ pc' = "loop" /\ tables' = tables /\ call' = call /\ entered' = entered
        /\ loop' = [how |-> how, dst |-> t, src |-> u, at |-> Start]
        /\ was' = [x \in Tables |-> MapOf(tables[x])]
    BY DEF Loop, Maps
  <1>2. /\ loop'.how = how /\ loop'.dst = t /\ loop'.src = u /\ loop'.at = Start
        /\ loop' = [how |-> loop'.how, dst |-> loop'.dst, src |-> loop'.src, at |-> loop'.at]
    BY <1>1
  <1>3. \A x \in Tables : Holding(tables[x], entered[x])
    BY <1>1 DEF IInv, TablesInv
  <1>4. PlaceOK(Start, tables[u]) /\ Passed(Start, tables[u]) = {}
    <2>1. TableOK(tables[u], entered[u])
      BY <1>3 DEF Holding
    <2> QED BY <2>1, PassedStart
  <1>5. LoopOK(loop', tables[u])
    BY <1>2, <1>4 DEF LoopOK
  <1>6. MapOf(tables[t]) = Goal(was', loop', tables[u])
    <2>1. Goal(was', loop', tables[u]) = M!Over(was'[t], [k \in {} |-> Given(was', loop', k)])
      BY <1>2, <1>4 DEF Goal
    <2>2. was'[t] = MapOf(tables[t])
      BY <1>1
    <2> QED BY <2>1, <2>2 DEF M!Over, MapOf
  <1>7. TypeInv'
    BY <1>1 DEF IInv, TypeInv
  <1>8. TablesInv'
    BY <1>1, <1>3 DEF TablesInv
  <1>9. CallInv'
    BY <1>1 DEF CallInv, Putting
  <1>10. WasInv'
    BY <1>1 DEF WasInv
  <1>11. LoopInv'
    BY <1>1, <1>2, <1>5, <1>6 DEF LoopInv, Putting
  <1> QED BY <1>7, <1>8, <1>9, <1>10, <1>11 DEF IInv

\* A key that the loop has not passed is in dst as it was before.
LEMMA GetIsLookup ==
  ASSUME NEW ht, NEW k \in Keys
  PROVE  h_hashtable_get(ht, k) = M!Lookup(MapOf(ht), k)
  <1>1. CASE k \in Present(ht)
    BY <1>1 DEF M!Lookup, MapOf
  <1>2. CASE k \notin Present(ht)
    <2>1. h_hashtable_get(ht, k) = NULL
      BY <1>2 DEF h_hashtable_get, Present, h_hashtable_present
    <2> QED BY <1>2, <2>1 DEF M!Lookup, MapOf, NULL
  <1> QED BY <1>1, <1>2

LEMMA GoalNext ==
  ASSUME NEW w, NEW lp, NEW lp2, NEW src, NEW e,
         lp2.how = lp.how, lp2.dst = lp.dst, lp2.src = lp.src,
         Passed(lp2.at, src) = Passed(lp.at, src) \cup {e.key},
         e.value = Given(w, lp, e.key)
  PROVE  With(Goal(w, lp, src), e) = Goal(w, lp2, src)
  <1> DEFINE P == Passed(lp.at, src)
             D == DOMAIN w[lp.dst]
  <1>1. \A k : Given(w, lp2, k) = Given(w, lp, k)
    BY DEF Given
  <1>2. Goal(w, lp, src) = [k \in D \cup P |-> IF k \in P THEN Given(w, lp, k) ELSE w[lp.dst][k]]
    BY DEF Goal, M!Over
  <1>3. With(Goal(w, lp, src), e) =
          [k \in (D \cup P) \cup {e.key} |-> IF k \in {e.key} THEN e.value ELSE Goal(w, lp, src)[k]]
    BY <1>2 DEF With, M!Over
  <1>4. Goal(w, lp2, src) = [k \in D \cup (P \cup {e.key}) |->
                               IF k \in P \cup {e.key} THEN Given(w, lp, k) ELSE w[lp.dst][k]]
    BY <1>1 DEF Goal, M!Over
  <1>5. \A k \in D \cup (P \cup {e.key}) :
          (IF k \in {e.key} THEN e.value ELSE Goal(w, lp, src)[k])
            = IF k \in P \cup {e.key} THEN Given(w, lp, k) ELSE w[lp.dst][k]
    BY <1>2
  <1> HIDE DEF P, D
  <1> QED BY <1>3, <1>4, <1>5

LEMMA PutNextStep ==
  ASSUME IInv, PutNext
  PROVE  IInv' /\ was' = was
  <1> DEFINE src == tables[loop.src]
             dst == tables[loop.dst]
             e == Visited(loop.at, src)
             value == IF loop.how = "update" THEN e.value
                      ELSE Combine(h_hashtable_get(dst, e.key), e.value)
             new == Entry(e.key, value)
             next == Advanced(loop.at, src)
  <1>1. /\ pc = "loop" /\ loop.at.bucket < src.capacity /\ loop' = [loop EXCEPT !.at = next]
        /\ tables' = tables /\ was' = was /\ entered' = entered
        /\ ~Used(e) => pc' = pc /\ call' = call
        /\ Used(e) => /\ pc' = "grow"
                      /\ call' = [table |-> loop.dst, entry |-> new, old |-> dst, at |-> Start]
    BY DEF PutNext, Call, Used
  <1>2. LoopOK(loop, src) /\ MapOf(dst) = Goal(was, loop, src)
    BY <1>1 DEF IInv, LoopInv
  <1>3. loop.src \in Tables /\ loop.dst \in Tables /\ loop.dst # loop.src
        /\ loop.how \in {"update", "merge"} /\ PlaceOK(loop.at, src)
    BY <1>2 DEF LoopOK
  <1>4. \A u \in Tables : Holding(tables[u], entered[u]) /\ IsOrder(entered[u])
    BY <1>1 DEF IInv, TablesInv, TypeInv
  <1>5. /\ was = [u \in Tables |-> was[u]]
        /\ \A u \in Tables : u # loop.dst => was[u] = MapOf(tables[u])
    BY <1>1 DEF IInv, WasInv, Target, Putting
  <1>6. was[loop.src] = MapOf(src)
    BY <1>3, <1>5
  <1>7. PICK s : IsOrder(s) /\ TableOK(src, s)
    BY <1>3, <1>4 DEF Holding
  <1>8. PlaceOK(next, src)
    <2> HIDE DEF src
    <2> QED BY <1>1, <1>3, <1>7, PassedNext
  <1>9. /\ ~Used(e) => Passed(next, src) = Passed(loop.at, src)
        /\ Used(e) => /\ Passed(next, src) = Passed(loop.at, src) \cup {e.key}
                      /\ e.key \in Keys /\ e.key \in Present(src)
                      /\ h_hashtable_get(src, e.key) = e.value /\ e.key \notin Passed(loop.at, src)
    <2> HIDE DEF src
    <2> QED BY <1>1, <1>3, <1>7, VisitOK
  <1>10. /\ loop'.how = loop.how /\ loop'.dst = loop.dst /\ loop'.src = loop.src /\ loop'.at = next
         /\ loop' = [how |-> loop'.how, dst |-> loop'.dst, src |-> loop'.src, at |-> loop'.at]
    <2>1. loop = [how |-> loop.how, dst |-> loop.dst, src |-> loop.src, at |-> loop.at]
      BY <1>2 DEF LoopOK
    <2> HIDE DEF next
    <2> QED BY <1>1, <2>1
  <1>11. LoopOK(loop', src)
    BY <1>3, <1>8, <1>10 DEF LoopOK
  <1>12. TypeInv'
    BY <1>1 DEF IInv, TypeInv
  <1>13. CASE ~Used(e)
    <2>1. TablesInv'
      BY <1>1, <1>4 DEF TablesInv
    <2>2. CallInv'
      BY <1>1, <1>13 DEF CallInv, Putting
    <2>3. WasInv'
      BY <1>1, <1>5, <1>10, <1>13 DEF WasInv, Target, Putting
    <2>4. Goal(was, loop', src) = Goal(was, loop, src)
      <3>1. Passed(loop'.at, src) = Passed(loop.at, src)
        BY <1>9, <1>10, <1>13
      <3>2. \A k : Given(was, loop', k) = Given(was, loop, k)
        BY <1>10 DEF Given
      <3> HIDE DEF src
      <3> QED BY <1>10, <3>1, <3>2 DEF Goal
    <2>5. LoopInv'
      BY <1>1, <1>2, <1>10, <1>11, <1>13, <2>4 DEF LoopInv, Putting
    <2> QED BY <1>1, <1>12, <2>1, <2>2, <2>3, <2>5 DEF IInv
  <1>14. CASE Used(e)
    <2>1. /\ pc' = "grow" /\ call'.table = loop.dst /\ call'.entry = new /\ call'.old = dst
          /\ call'.at = Start
          /\ call' = [table |-> call'.table, entry |-> call'.entry, old |-> call'.old, at |-> call'.at]
      <3> HIDE DEF new, dst
      <3> QED BY <1>1, <1>14
    <2>2. new.key = e.key /\ new.value = value /\ new.hashval = Hash[e.key]
      BY DEF Entry
    <2>3. value = Given(was, loop, e.key)
      <3>1. was[loop.src][e.key] = e.value
        BY <1>6, <1>9, <1>14 DEF MapOf
      <3>2. h_hashtable_get(dst, e.key) = M!Lookup(was[loop.dst], e.key)
        <4>1. h_hashtable_get(dst, e.key) = M!Lookup(MapOf(dst), e.key)
          <5> HIDE DEF dst, e
          <5> QED BY <1>9, <1>14, GetIsLookup
        <4>2. PICK k : k = e.key
          OBVIOUS
        <4>3. k \notin Passed(loop.at, src)
          BY <1>9, <1>14, <4>2
        <4>4. M!Lookup(Goal(was, loop, src), k) = M!Lookup(was[loop.dst], k)
          BY <4>3 DEF M!Lookup, Goal, M!Over
        <4> QED BY <1>2, <4>1, <4>2, <4>4
      <3> QED BY <3>1, <3>2 DEF Given
    <2> HIDE DEF e, value, new, src, dst
    <2>4. With(MapOf(dst), new) = Goal(was, loop', src)
      <3>1. Passed(loop'.at, src) = Passed(loop.at, src) \cup {new.key}
        BY <1>9, <1>10, <1>14, <2>2
      <3>2. new.value = Given(was, loop, new.key)
        BY <2>2, <2>3
      <3>3. With(Goal(was, loop, src), new) = Goal(was, loop', src)
        BY <1>10, <3>1, <3>2, GoalNext
      <3> QED BY <1>2, <3>3
    <2>5. TablesInv'
      BY <1>1, <1>4 DEF TablesInv
    <2>6. CallOK(call', entered[loop.dst])
      BY <1>3, <1>4, <1>9, <1>14, <2>1, <2>2 DEF CallOK, dst
    <2>7. Growing(call', dst)
      <3>1. IsTable(dst)
        BY <1>3, <1>4 DEF Holding, TableOK, dst
      <3>2. Multiple(dst.capacity, dst.capacity)
        BY <3>1, MultipleSelf DEF IsTable
      <3> QED BY <2>1, <3>1, <3>2 DEF Growing
    <2>8. CallInv'
      BY <1>1, <2>1, <2>6, <2>7 DEF CallInv, HT, Putting, dst
    <2>9. WasInv'
      BY <1>1, <1>5, <2>1 DEF WasInv, Target, Putting
    <2>10. LoopInv'
      BY <1>1, <1>10, <1>11, <2>1, <2>4 DEF LoopInv, Putting, src, dst
    <2> QED BY <1>1, <1>12, <2>5, <2>8, <2>9, <2>10 DEF IInv
  <1> QED BY <1>13, <1>14

LEMMA LoopEndStep ==
  ASSUME IInv, LoopEnd
  PROVE  IInv'
  <1>1. /\ pc = "loop" /\ pc' = "idle" /\ loop' = Nothing
        /\ tables' = tables /\ call' = call /\ entered' = entered
    BY DEF LoopEnd
  <1>2. TypeInv'
    BY <1>1 DEF IInv, TypeInv
  <1>3. TablesInv'
    BY <1>1 DEF IInv, TablesInv
  <1>4. CallInv' /\ WasInv' /\ LoopInv'
    BY <1>1 DEF CallInv, WasInv, LoopInv, Putting
  <1> QED BY <1>2, <1>3, <1>4 DEF IInv

LEMMA StutterStep ==
  ASSUME IInv, vars' = vars
  PROVE  IInv'
  BY DEF vars, IInv, TypeInv, TablesInv, CallInv, WasInv, LoopInv, Putting, HT, Target

LEMMA Invariance ==
  ASSUME IInv, [Next]_vars
  PROVE  IInv'
  <1>1. CASE vars' = vars
    BY <1>1, StutterStep
  <1>2. ASSUME NEW t \in Tables, NEW k \in Keys, NEW v \in Values, Put(t, k, v) PROVE IInv'
    BY <1>2, PutStep
  <1>3. ASSUME NEW t \in Tables, Del(t) PROVE IInv'
    BY <1>3, DelStep
  <1>4. ASSUME NEW t \in Tables, NEW u \in Tables \ {t}, Update(t, u) \/ Merge(t, u) PROVE IInv'
    BY <1>4, LoopStep DEF Update, Merge
  <1>5. CASE Grow \/ NoResize \/ Resize \/ Rehash \/ Rehashed \/ PutRaw \/ PutNext \/ LoopEnd
    BY <1>5, GrowStep, NoResizeStep, ResizeStep, RehashStep, RehashedStep, PutRawStep, PutNextStep,
       LoopEndStep
  <1> QED BY <1>1, <1>2, <1>3, <1>4, <1>5 DEF Next

\* Whatever is put and deleted, a key that was entered is in its chain, once, and
\* the chains keep the order of entering, also while an array is grown.
THEOREM HashTableInvariant == Spec => []IInv
  <1>1. Init => IInv
    BY Initially
  <1>2. IInv /\ [Next]_vars => IInv'
    BY Invariance
  <1> QED BY <1>1, <1>2, PTL DEF Spec

-----------------------------------------------------------------------------
(* The table is a map. *)

LEMMA InitiallyMap ==
  ASSUME Init
  PROVE  M!Init
  <1>1. tables = [t \in Tables |-> NewTable(InitialCapacity)] /\ pc = "idle"
    BY DEF Init
  <1>2. MapOf(NewTable(InitialCapacity)) = <<>>
    BY NewTableOK, HashTableAssumption
  <1> QED BY <1>1, <1>2 DEF M!Init, Shown, Maps

\* The put that ends an operation of its own.
LEMMA PutRawMap ==
  ASSUME IInv, PutRaw
  PROVE  [M!Next]_Shown
  <1> DEFINE t == call.table
             e == call.entry
  <1>1. /\ t \in Tables /\ \A u \in Tables : u # t => tables'[u] = tables[u]
        /\ MapOf(tables'[t]) = With(MapOf(call.old), e)
    BY PutRawStep
  <1>2. /\ pc = "put_raw"
        /\ IF loop = Nothing THEN pc' = "idle" ELSE pc' = "loop" /\ was' = was
    BY DEF PutRaw
  <1>3. CASE loop # Nothing
    BY <1>2, <1>3 DEF Shown
  <1>4. CASE loop = Nothing
    <2>1. ~LoopOK(loop, tables[loop.src])
      BY <1>4 DEF LoopOK, Nothing
    <2>2. e.value \in Values /\ was[t] = MapOf(call.old)
      BY <1>2, <2>1 DEF IInv, LoopInv, Putting
    <2>3. e.key \in Keys
      BY <1>2 DEF IInv, CallInv, Putting, CallOK
    <2>4. /\ was = [u \in Tables |-> was[u]]
          /\ \A u \in Tables : u # t => was[u] = MapOf(tables[u])
      BY <1>2 DEF IInv, WasInv, Target, Putting
    <2>5. Shown = was /\ Shown' = [u \in Tables |-> MapOf(tables'[u])]
      BY <1>2, <1>4 DEF Shown, Maps
    <2>6. Shown' = [was EXCEPT ![t] = With(was[t], e)]
      <3>1. \A u \in Tables : MapOf(tables'[u]) = IF u = t THEN With(was[t], e) ELSE was[u]
        BY <1>1, <2>2, <2>4
      <3>2. [was EXCEPT ![t] = With(was[t], e)] =
              [u \in Tables |-> IF u = t THEN With(was[t], e) ELSE was[u]]
        BY <1>1, <2>4
      <3> QED BY <2>5, <3>1, <3>2
    <2>7. M!Put(t, e.key, e.value)
      BY <2>5, <2>6 DEF M!Put, With
    <2> QED BY <1>1, <2>2, <2>3, <2>7 DEF M!Next
  <1> QED BY <1>3, <1>4

\* The loop has given to every key of src.
LEMMA LoopEndMap ==
  ASSUME IInv, LoopEnd
  PROVE  M!Next
  <1> DEFINE t == loop.dst
             u == loop.src
             src == tables[u]
  <1>1. pc = "loop" /\ pc' = "idle" /\ tables' = tables /\ loop.at.bucket = src.capacity
    BY DEF LoopEnd
  <1>2. LoopOK(loop, src) /\ MapOf(tables[t]) = Goal(was, loop, src)
    BY <1>1 DEF IInv, LoopInv
  <1>3. t \in Tables /\ u \in Tables /\ t # u /\ loop.how \in {"update", "merge"}
    BY <1>2 DEF LoopOK
  <1>4. /\ was = [x \in Tables |-> was[x]]
        /\ \A x \in Tables : x # t => was[x] = MapOf(tables[x])
    BY <1>1 DEF IInv, WasInv, Target, Putting
  <1>5. Passed(loop.at, src) = DOMAIN was[u]
    <2>1. PICK s : IsOrder(s) /\ TableOK(src, s)
      BY <1>1, <1>3 DEF IInv, TypeInv, TablesInv, Holding
    <2>2. Passed(loop.at, src) = Present(src)
      <3> HIDE DEF src
      <3> QED BY <1>1, <2>1, PassedPresent
    <2>3. was[u] = MapOf(src)
      BY <1>3, <1>4
    <2> QED BY <2>2, <2>3 DEF MapOf
  <1>6. PICK goal : goal = Goal(was, loop, src)
    OBVIOUS
  <1>7. Shown = was /\ Shown' = [was EXCEPT ![t] = goal]
    <2>1. Shown = was /\ Shown' = [x \in Tables |-> MapOf(tables[x])]
      BY <1>1 DEF Shown, Maps
    <2>2. \A x \in Tables : MapOf(tables[x]) = IF x = t THEN goal ELSE was[x]
      BY <1>2, <1>4, <1>6
    <2>3. [was EXCEPT ![t] = goal] = [x \in Tables |-> IF x = t THEN goal ELSE was[x]]
      BY <1>3, <1>4
    <2> QED BY <2>1, <2>2, <2>3
  <1> HIDE DEF src
  <1>8. CASE loop.how = "update"
    <2>1. goal = M!Over(was[t], was[u])
      <3>1. goal = M!Over(was[t], [k \in DOMAIN was[u] |-> was[u][k]])
        BY <1>5, <1>6, <1>8 DEF Goal, Given
      <3> QED BY <3>1 DEF M!Over
    <2>2. M!Update(t, u)
      BY <1>7, <2>1 DEF M!Update
    <2> QED BY <1>3, <2>2 DEF M!Next
  <1>9. CASE loop.how = "merge"
    <2>1. goal = M!Over(was[t], [k \in DOMAIN was[u] |-> Combine(M!Lookup(was[t], k), was[u][k])])
      BY <1>5, <1>6, <1>9 DEF Goal, Given
    <2>2. M!Merge(t, u)
      BY <1>7, <2>1 DEF M!Merge
    <2> QED BY <1>3, <2>2 DEF M!Next
  <1> QED BY <1>3, <1>8, <1>9

LEMMA DelMap ==
  ASSUME IInv, NEW t \in Tables, Del(t)
  PROVE  M!Next
  <1> DEFINE k == Last(entered[t])
  <1>1. /\ \A u \in Tables : u # t => tables'[u] = tables[u]
        /\ k \in Keys /\ MapOf(tables'[t]) = Without(MapOf(tables[t]), k)
    BY DelStep
  <1>2. pc = "idle" /\ pc' = "idle"
    BY DEF Del
  <1> HIDE DEF k
  <1>3. /\ Shown = [u \in Tables |-> MapOf(tables[u])]
        /\ Shown' = [u \in Tables |-> MapOf(tables'[u])]
    BY <1>2 DEF Shown, Maps
  <1>4. Shown' = [Shown EXCEPT ![t] = Without(Shown[t], k)]
    BY <1>1, <1>3
  <1>5. M!Del(t, k)
    BY <1>4 DEF M!Del, Without, Restrict, M!Restrict
  <1> QED BY <1>1, <1>5 DEF M!Next

LEMMA StepMap ==
  ASSUME IInv, [Next]_vars
  PROVE  [M!Next]_Shown
  <1>1. CASE vars' = vars
    BY <1>1 DEF vars, Shown, Maps
  <1>2. ASSUME NEW t \in Tables, NEW k \in Keys, NEW v \in Values, Put(t, k, v) PROVE Shown' = Shown
    BY <1>2 DEF Put, Call, Shown
  <1>3. ASSUME NEW t \in Tables, Del(t) PROVE M!Next
    BY <1>3, DelMap
  <1>4. ASSUME NEW t \in Tables, NEW u \in Tables \ {t}, Update(t, u) \/ Merge(t, u) PROVE Shown' = Shown
    BY <1>4 DEF Update, Merge, Loop, Shown
  <1>5. CASE Grow \/ NoResize \/ Resize \/ Rehash \/ Rehashed \/ PutNext
    <2>1. was' = was /\ pc # "idle" /\ pc' # "idle"
      BY <1>5 DEF Grow, NoResize, Resize, Rehash, Rehashed, PutNext, Call
    <2> QED BY <2>1 DEF Shown
  <1>6. CASE PutRaw
    BY <1>6, PutRawMap
  <1>7. CASE LoopEnd
    BY <1>7, LoopEndMap
  <1> QED BY <1>1, <1>2, <1>3, <1>4, <1>5, <1>6, <1>7 DEF Next

\* Through h_hashtable_present and h_hashtable_get a table is a map, for every
\* hash function, capacity and combine function: h_hashtable_put, with its growing
\* and rehashing, h_hashtable_update, h_hashtable_merge and h_hashtable_del act as
\* single steps on it.
THEOREM HashTableIsMap == Spec => IsMap
  <1>1. Init => IInv /\ M!Init
    BY Initially, InitiallyMap
  <1>2. IInv /\ [Next]_vars => IInv' /\ [M!Next]_Shown
    BY Invariance, StepMap
  <1> QED BY <1>1, <1>2, PTL DEF Spec, IsMap, M!Spec

-----------------------------------------------------------------------------
(* Equality of sets. *)

KeysIn(ht, b) == {k \in Present(ht) : Hash[k] % ht.capacity = b}

LEMMA LiveKeys ==
  ASSUME NEW s, IsOrder(s), NEW ht, TableOK(ht, s), NEW b \in 0..ht.capacity - 1
  PROVE  LET chain == ht.contents[b]
         IN /\ IsFiniteSet(Live(chain)) /\ Cardinality(Live(chain)) = Cardinality(KeysIn(ht, b))
            /\ Live(chain) # {} => 1 \in Live(chain)
            /\ KeysIn(ht, b) = {chain[i].key : i \in Live(chain)}
  <1> DEFINE chain == ht.contents[b]
             live == Live(chain)
             K == KeysIn(ht, b)
  <1>1. Len(chain) \in Nat \ {0} /\ DOMAIN chain = 1..Len(chain)
    BY LinksOf
  <1>2. ChainOK(chain, b, ht.capacity, s)
    BY DEF TableOK
  <1>3. live \subseteq DOMAIN chain /\ \A i \in DOMAIN chain : i \in live <=> Used(chain[i])
    BY DEF Live, Used
  <1>4. IsFiniteSet(live)
    <2>1. IsFiniteSet(1..Len(chain))
      BY <1>1, FS_Interval
    <2>2. live \in SUBSET (1..Len(chain))
      BY <1>1, <1>3
    <2> HIDE DEF live, chain
    <2> QED BY <2>1, <2>2, FS_Subset
  <1>5. live # {} => 1 \in live
    BY <1>1, <1>2, <1>3 DEF ChainOK
  <1>6. \A i \in live : chain[i].key \in K
    <2> SUFFICES ASSUME NEW i \in live PROVE chain[i].key \in K
      OBVIOUS
    <2>1. i \in DOMAIN chain /\ chain[i].key \in Keys
      BY <1>2, <1>3 DEF ChainOK, EntryOK
    <2>2. chain[i].key \in Present(ht) /\ b = Hash[chain[i].key] % ht.capacity
      BY <2>1, Found
    <2> QED BY <2>2 DEF KeysIn
  <1>7. \A k \in K : \E i \in live : chain[i].key = k
    <2> SUFFICES ASSUME NEW k \in K PROVE \E i \in live : chain[i].key = k
      OBVIOUS
    <2>1. k \in Present(ht) /\ Hash[k] % ht.capacity = b
      BY DEF KeysIn
    <2>2. k \in Keys /\ \E l \in DOMAIN ht.contents[Hash[k] % ht.capacity] :
                          ht.contents[Hash[k] % ht.capacity][l].key = k
      BY <2>1, PresentAt
    <2>3. PICK l \in DOMAIN chain : chain[l].key = k
      BY <2>1, <2>2
    <2>4. Used(chain[l])
      BY <2>2, <2>3, HashTableAssumption DEF Used, NULL
    <2> QED BY <1>3, <2>3, <2>4
  <1>8. \A i, j \in live : chain[i].key = chain[j].key => i = j
    <2> HIDE DEF chain, live
    <2> QED BY <1>2, <1>3, OneLink
  <1> HIDE DEF chain, live, K
  <1>9. K = {chain[i].key : i \in live}
    BY <1>6, <1>7
  <1>10. ExistsBijection(live, K)
    <2> DEFINE f == [i \in live |-> chain[i].key]
    <2>1. f \in [live -> K]
      BY <1>6
    <2>2. \A i, j \in live : f[i] = f[j] => i = j
      BY <1>8
    <2>3. \A k \in K : \E i \in live : f[i] = k
      BY <1>7
    <2> HIDE DEF f
    <2>4. f \in Injection(live, K)
      BY <2>1, <2>2 DEF Injection, IsInjective
    <2>5. f \in Surjection(live, K)
      BY <2>1, <2>3 DEF Surjection
    <2> QED BY <2>4, <2>5 DEF ExistsBijection, Bijection
  <1>11. Cardinality(K) = Cardinality(live)
    BY <1>4, <1>10, FS_Bijection
  <1> QED BY <1>4, <1>5, <1>9, <1>11 DEF K, live, chain

LEMMA SetsAgree ==
  ASSUME NEW r, IsOrder(r), NEW a, TableOK(a, r), NEW s, IsOrder(s), NEW b, TableOK(b, s),
         a.capacity = b.capacity, Present(a) = Present(b)
  PROVE  h_hashset_equal(a, b)
  <1> SUFFICES ASSUME NEW n \in 0..a.capacity - 1
               PROVE  /\ hte_same_length(a.contents[n], b.contents[n])
                      /\ hte_subset(a.contents[n], b.contents[n])
    BY DEF h_hashset_equal
  <1> DEFINE xs == a.contents[n]
             ys == b.contents[n]
  <1>1. KeysIn(a, n) = KeysIn(b, n)
    BY DEF KeysIn
  <1>2. /\ IsFiniteSet(Live(xs)) /\ Cardinality(Live(xs)) = Cardinality(KeysIn(a, n))
        /\ Live(xs) # {} => 1 \in Live(xs)
        /\ KeysIn(a, n) = {xs[i].key : i \in Live(xs)}
    BY LiveKeys
  <1>3. /\ IsFiniteSet(Live(ys)) /\ Cardinality(Live(ys)) = Cardinality(KeysIn(b, n))
        /\ Live(ys) # {} => 1 \in Live(ys)
        /\ KeysIn(b, n) = {ys[i].key : i \in Live(ys)}
    BY LiveKeys
  <1> HIDE DEF xs, ys
  <1>4. Live(xs) = {} <=> Live(ys) = {}
    BY <1>1, <1>2, <1>3
  <1>5. hte_same_length(xs, ys)
    <2>1. Cardinality(Live(xs) \ {1}) =
            IF 1 \in Live(xs) THEN Cardinality(Live(xs)) - 1 ELSE Cardinality(Live(xs))
      BY <1>2, FS_RemoveElement
    <2>2. Cardinality(Live(ys) \ {1}) =
            IF 1 \in Live(ys) THEN Cardinality(Live(ys)) - 1 ELSE Cardinality(Live(ys))
      BY <1>3, FS_RemoveElement
    <2>3. 1 \in Live(xs) <=> 1 \in Live(ys)
      BY <1>2, <1>3, <1>4
    <2>4. Cardinality(Live(xs)) = Cardinality(Live(ys))
      BY <1>1, <1>2, <1>3
    <2> QED BY <2>1, <2>2, <2>3, <2>4 DEF hte_same_length
  <1>6. hte_subset(xs, ys)
    <2>1. Live(ys) \subseteq DOMAIN ys
      BY DEF Live
    <2>2. ASSUME NEW i \in Live(xs) PROVE \E j \in DOMAIN ys : ys[j].key = xs[i].key
      <3>1. xs[i].key \in {ys[j].key : j \in Live(ys)}
        BY <1>1, <1>2, <1>3
      <3> QED BY <2>1, <3>1
    <2> QED BY <2>2 DEF hte_subset
  <1> QED BY <1>5, <1>6 DEF xs, ys

\* h_hashset_equal says so of any two sets with the same keys and capacity,
\* whatever was deleted: a bucket with an empty head holds nothing, so the heads
\* that hte_same_length does not count are used in both chains or in neither.
THEOREM HashTableEqualSets == Spec => []EqualSetsAgree
  <1>1. IInv => EqualSetsAgree
    <2> SUFFICES ASSUME IInv, pc = "idle", NEW t \in Tables, NEW u \in Tables,
                        tables[t].capacity = tables[u].capacity, Present(tables[t]) = Present(tables[u])
                 PROVE  h_hashset_equal(tables[t], tables[u])
      BY DEF EqualSetsAgree
    <2>1. /\ IsOrder(entered[t]) /\ TableOK(tables[t], entered[t])
          /\ IsOrder(entered[u]) /\ TableOK(tables[u], entered[u])
      BY DEF IInv, TypeInv, TablesInv, Holding
    <2> QED BY <2>1, SetsAgree
  <1> QED BY <1>1, HashTableInvariant, PTL
=============================================================================
