---------------------------- MODULE ArenaProofs ----------------------------
(***************************************************************************)
(* Proofs about module Arena, for every block size and every set of        *)
(* requests: the regions handed out never overlap and lie within their     *)
(* blocks, the statistics are exact, and a deletion frees every block once. *)
(***************************************************************************)
EXTENDS Arena, TLAPS

LEMMA BlockSizeNat == BlockSize \in Nat
BY ArenaAssumption DEF BlockSize

\* The chain does not exist before h_new_arena has succeeded, and as long as
\* it lives its head is an ordinary block.
LiveInv ==
  /\ status \in {"none", "failed"} => regions = {} /\ refused = 0
  /\ HeadIsOrdinary

\* The inductive invariant.  Disjoint alone is not inductive: a region taken
\* from a block is disjoint from the others only because they all end before
\* what the block counts as used, which is InBounds; and used stays within the
\* payload only because used and free of the head add up to it.
IInv == TypeOK /\ LiveInv /\ InBounds /\ Disjoint

LEMMA InitIInv == Init => IInv
BY DEF Init, IInv, TypeOK, LiveInv, HeadIsOrdinary, InBounds, Disjoint, Links,
       Regions, NULL

\* Steps that leave the chain and the regions alone.
LEMMA SameChain ==
  ASSUME IInv, UNCHANGED <<links, count, regions, head>>,
         status = "live" \/ UNCHANGED refused,
         used' \in Nat, wasted' \in Int, held' \in Nat, refused' \in Nat,
         status' = status \/ (status = "live" /\ status' = "deleting")
           \/ (status = "deleting" /\ status' = "deleted")
           \/ (status = "none" /\ status' = "failed")
  PROVE  IInv'
<1>1. TypeOK'
  BY DEF IInv, TypeOK
<1>2. LiveInv'
  BY DEF IInv, TypeOK, LiveInv, HeadIsOrdinary
<1>3. InBounds' /\ Disjoint'
  BY DEF IInv, InBounds, Disjoint
<1>4. QED
  BY <1>1, <1>2, <1>3 DEF IInv

LEMMA NewArenaIInv == IInv /\ NewArena => IInv'
<1> SUFFICES ASSUME IInv, NewArena PROVE IInv'
  OBVIOUS
<1> USE BlockSizeNat, ArenaAssumption
<1>1. regions = {} /\ regions' = {}
  BY DEF IInv, LiveInv, NewArena
<1>2. TypeOK'
  BY <1>1 DEF IInv, TypeOK, NewArena, Links, NULL
<1>3. LiveInv'
  BY <1>1 DEF NewArena, LiveInv, HeadIsOrdinary
<1>4. InBounds' /\ Disjoint'
  BY <1>1 DEF InBounds, Disjoint
<1>5. QED
  BY <1>2, <1>3, <1>4 DEF IInv

\* Take moves bytes from free to used.
LEMMA TakeProps ==
  ASSUME NEW l \in Links, NEW size \in Nat, size <= l.free
  PROVE  /\ Take(l, size) \in Links
         /\ Take(l, size).used = l.used + size
         /\ Take(l, size).free = l.free - size
         /\ Take(l, size).cap = l.cap
         /\ Take(l, size).special = l.special
<1> l.free \in Nat /\ l.used \in Nat /\ l.used + size \in Nat
    /\ l.free - size \in Nat
  BY DEF Links
<1> QED
  BY DEF Links, Take

LEMMA MallocFastIInv ==
  ASSUME IInv, NEW size \in Sizes, MallocFast(size)
  PROVE  IInv'
<1> USE BlockSizeNat, ArenaAssumption
<1> DEFINE r == [link |-> head, off |-> links[head].used, size |-> size]
           l == links[head]
<1>1. /\ head \in 1..count /\ count \in Nat /\ l \in Links
      /\ size \in Nat /\ size <= l.free /\ status = "live"
      /\ ~l.special /\ l.used + l.free = l.cap
      /\ l.used \in Nat /\ l.free \in Nat /\ l.cap \in Nat
  BY DEF IInv, TypeOK, LiveInv, HeadIsOrdinary, MallocFast, Fits, Links
<1>2. /\ links'[head] = Take(l, size)
      /\ \A i \in 1..count : i # head => links'[i] = links[i]
      /\ links' \in [1..count -> Links]
  <2>1. Take(l, size) \in Links
    BY <1>1, TakeProps
  <2>2. QED
    BY <1>1, <2>1 DEF IInv, TypeOK, MallocFast
<1>3. regions' = regions \cup {r} /\ r \in Regions
  BY <1>1 DEF MallocFast, Regions
<1>4. TypeOK'
  <2>1. used' \in Nat /\ wasted' \in Int
    BY <1>1 DEF IInv, TypeOK, MallocFast
  <2>2. QED
    BY <1>1, <1>2, <1>3, <2>1 DEF IInv, TypeOK, MallocFast
<1>5. /\ links'[head].used = l.used + size /\ links'[head].cap = l.cap
      /\ links'[head].free = l.free - size
      /\ links'[head].special = l.special
  <2> HIDE DEF l
  <2>1. l \in Links /\ size \in Nat /\ size <= l.free /\ links'[head] = Take(l, size)
    BY <1>1, <1>2
  <2>2. QED
    BY <2>1, TakeProps
<1>6. LiveInv'
  BY <1>1, <1>5 DEF IInv, LiveInv, HeadIsOrdinary, MallocFast
<1>7. InBounds'
  <2> SUFFICES ASSUME NEW s \in regions'
               PROVE  /\ s.link \in 1..count
                      /\ s.off + s.size <= links'[s.link].used
                      /\ links'[s.link].used <= links'[s.link].cap
    BY DEF InBounds, MallocFast
  <2>1. CASE s = r
    BY <1>1, <1>5, <2>1 DEF Regions
  <2>2. CASE s \in regions
    <3>1. /\ s.link \in 1..count /\ s.off + s.size <= links[s.link].used
          /\ links[s.link].used <= links[s.link].cap /\ s \in Regions
      BY <2>2 DEF IInv, TypeOK, InBounds
    <3>2. CASE s.link = head
      BY <1>1, <1>5, <3>1, <3>2 DEF Regions
    <3>3. CASE s.link # head
      BY <1>2, <3>1, <3>3
    <3>4. QED
      BY <3>2, <3>3
  <2>3. QED
    BY <1>3, <2>1, <2>2
<1>8. Disjoint'
  <2>1. \A s \in regions : s.link = r.link => s.off + s.size <= r.off
    BY DEF IInv, InBounds
  <2>2. QED
    BY <1>3, <2>1 DEF IInv, Disjoint
<1>9. QED
  BY <1>4, <1>6, <1>7, <1>8 DEF IInv

\* A block added to the chain holds the one region it was made for; the other
\* blocks may only have their next field changed.
LEMMA NewLinkIInv ==
  ASSUME IInv, NEW size \in Nat, status = "live", status' = "live",
         NEW l \in Links, l.used = size, size <= l.cap,
         count' = count + 1, links' \in [1..count + 1 -> Links],
         links'[count + 1] = l,
         \A i \in 1..count : /\ links'[i].used = links[i].used
                            /\ links'[i].free = links[i].free
                            /\ links'[i].cap = links[i].cap
                            /\ links'[i].special = links[i].special,
         \/ head' = head
         \/ head' = count + 1 /\ ~l.special /\ l.used + l.free = l.cap,
         regions' = regions \cup
                      {[link |-> count + 1, off |-> 0, size |-> size]},
         used' \in Nat, wasted' \in Int, held' \in Nat, refused' \in Nat
  PROVE  IInv'
<1> DEFINE r == [link |-> count + 1, off |-> 0, size |-> size]
<1>1. count \in Nat /\ head \in 1..count /\ regions \subseteq Regions
  BY DEF IInv, TypeOK
<1>2. r \in Regions
  BY <1>1 DEF Regions
<1>3. TypeOK'
  BY <1>1, <1>2 DEF IInv, TypeOK
<1>4. LiveInv'
  BY <1>1 DEF IInv, LiveInv, HeadIsOrdinary
<1>5. \A s \in regions : s.link \in 1..count
  BY DEF IInv, InBounds
<1>6. InBounds'
  <2> SUFFICES ASSUME NEW s \in regions'
               PROVE  /\ s.link \in 1..count + 1
                      /\ s.off + s.size <= links'[s.link].used
                      /\ links'[s.link].used <= links'[s.link].cap
    BY DEF InBounds
  <2>1. CASE s = r
    BY <1>1, <2>1
  <2>2. CASE s \in regions
    BY <1>1, <1>5, <2>2 DEF IInv, InBounds
  <2>3. QED
    BY <2>1, <2>2
<1>7. Disjoint'
  BY <1>1, <1>5 DEF IInv, Disjoint
<1>8. QED
  BY <1>3, <1>4, <1>6, <1>7 DEF IInv

LEMMA SetNextProps ==
  ASSUME NEW l \in Links, NEW n \in Nat
  PROVE  /\ SetNext(l, n) \in Links
         /\ SetNext(l, n).used = l.used
         /\ SetNext(l, n).free = l.free
         /\ SetNext(l, n).cap = l.cap
         /\ SetNext(l, n).special = l.special
BY DEF Links, SetNext

LEMMA MallocLargeIInv ==
  ASSUME IInv, NEW size \in Sizes, MallocLarge(size)
  PROVE  IInv'
<1> USE BlockSizeNat, ArenaAssumption
<1> DEFINE l == LargeBlock(size)
           h == SetNext(links[head], count + 1)
<1>1. /\ count \in Nat /\ head \in 1..count /\ links[head] \in Links
      /\ links \in [1..count -> Links] /\ size \in Nat /\ status = "live"
  BY DEF IInv, TypeOK, MallocLarge
<1>2. l \in Links /\ l.used = size /\ size <= l.cap
  BY <1>1 DEF Links, LargeBlock, BehindHead
<1>3. /\ h \in Links
      /\ h.used = links[head].used /\ h.free = links[head].free
      /\ h.cap = links[head].cap /\ h.special = links[head].special
  <2> count + 1 \in Nat
    BY <1>1
  <2> QED
    BY <1>1, SetNextProps
<1>4. /\ links' \in [1..count + 1 -> Links]
      /\ links'[count + 1] = l /\ links'[head] = h
      /\ \A i \in 1..count : i # head => links'[i] = links[i]
  BY <1>1, <1>2, <1>3 DEF MallocLarge, InsertLarge
<1>5. /\ used' \in Nat /\ wasted' \in Int /\ held' \in Nat /\ refused' \in Nat
  BY <1>1 DEF IInv, TypeOK, MallocLarge
<1>6. /\ count' = count + 1 /\ head' = head /\ status' = "live"
      /\ regions' = regions \cup
                      {[link |-> count + 1, off |-> 0, size |-> size]}
  BY <1>1 DEF MallocLarge, InsertLarge
<1>7. \A i \in 1..count : /\ links'[i].used = links[i].used
                         /\ links'[i].free = links[i].free
                         /\ links'[i].cap = links[i].cap
                         /\ links'[i].special = links[i].special
  BY <1>3, <1>4
<1> HIDE DEF l, h
<1>8. QED
  BY <1>1, <1>2, <1>4, <1>5, <1>6, <1>7, NewLinkIInv

LEMMA MallocBlockIInv ==
  ASSUME IInv, NEW size \in Sizes, MallocBlock(size)
  PROVE  IInv'
<1> USE BlockSizeNat, ArenaAssumption
<1> DEFINE l == NewBlock(size)
<1>1. /\ count \in Nat /\ head \in 1..count /\ size \in Nat
      /\ links \in [1..count -> Links] /\ status = "live" /\ size <= BlockSize
  BY DEF IInv, TypeOK, MallocBlock
<1>2. /\ l \in Links /\ l.used = size /\ size <= l.cap
      /\ ~l.special /\ l.used + l.free = l.cap
  BY <1>1 DEF Links, NewBlock
<1>3. /\ links' \in [1..count + 1 -> Links] /\ links'[count + 1] = l
      /\ \A i \in 1..count : links'[i] = links[i]
  BY <1>1, <1>2 DEF MallocBlock, AddLink
<1>4. /\ used' \in Nat /\ wasted' \in Int /\ held' \in Nat /\ refused' \in Nat
  BY <1>1 DEF IInv, TypeOK, MallocBlock, WastedByBlock
<1>5. /\ count' = count + 1 /\ head' = count + 1 /\ status' = "live"
      /\ regions' = regions \cup
                      {[link |-> count + 1, off |-> 0, size |-> size]}
  BY <1>1 DEF MallocBlock, AddLink
<1> HIDE DEF l
<1>6. QED
  BY <1>1, <1>2, <1>3, <1>4, <1>5, NewLinkIInv

LEMMA NextIInv == IInv /\ [Next]_vars => IInv'
<1> SUFFICES ASSUME IInv, [Next]_vars PROVE IInv'
  OBVIOUS
<1> USE ArenaAssumption
<1>1. CASE NewArena
  BY <1>1, NewArenaIInv
<1>2. CASE NewArenaFails
  BY <1>2, SameChain DEF NewArenaFails, IInv, TypeOK, stats
<1>3. ASSUME NEW size \in Sizes, MallocFast(size) PROVE IInv'
  BY <1>3, MallocFastIInv
<1>4. ASSUME NEW size \in Sizes, MallocLarge(size) PROVE IInv'
  BY <1>4, MallocLargeIInv
<1>5. ASSUME NEW size \in Sizes, MallocLargeFails(size) PROVE IInv'
  BY <1>5, SameChain DEF MallocLargeFails, IInv, TypeOK
<1>6. ASSUME NEW size \in Sizes, MallocBlock(size) PROVE IInv'
  BY <1>6, MallocBlockIInv
<1>7. CASE UNCHANGED vars
  BY <1>7, SameChain DEF vars, stats, IInv, TypeOK
<1>8. CASE DeleteArena
  BY <1>8, SameChain DEF DeleteArena, stats, IInv, TypeOK
<1>9. CASE DeleteLink
  BY <1>9, SameChain DEF DeleteLink, stats, IInv, TypeOK
<1>10. CASE DeleteLast
  BY <1>10, SameChain DEF DeleteLast, stats, IInv, TypeOK
<1>11. QED
  BY <1>1, <1>2, <1>3, <1>4, <1>5, <1>6, <1>7, <1>8, <1>9, <1>10
     DEF Next, MallocBlockFails, Delete, Halted

\* The arena and its chain keep their types.
THEOREM ArenaType == Spec => []TypeOK
BY InitIInv, NextIInv, PTL DEF Spec, IInv

\* Two regions handed out by h_arena_malloc never overlap, whatever the block
\* size and the requests, and with every refusal of the system allocator.
THEOREM ArenaDisjoint == Spec => []Disjoint
BY InitIInv, NextIInv, PTL DEF Spec, IInv

\* Every region lies within the payload of a block of the chain.
THEOREM ArenaInBounds == Spec => []InBounds
BY InitIInv, NextIInv, PTL DEF Spec, IInv

\* Both together: what h_arena_malloc hands out is its caller's alone.
THEOREM ArenaRegions == Spec => []RegionsSound
BY ArenaDisjoint, ArenaInBounds, PTL DEF RegionsSound

\* h_arena_malloc never reads the counters of a dedicated block.
THEOREM ArenaHead == Spec => []HeadIsOrdinary
BY InitIInv, NextIInv, PTL DEF Spec, IInv, LiveInv

\* h_allocator_stats is exact up to the large blocks that were refused.
THEOREM ArenaStats == Spec => []StatsExact
<1> DEFINE Inv == IInv /\ StatsExact
<1>1. Init => Inv
  BY InitIInv DEF Init, StatsExact
<1>2. Inv /\ [Next]_vars => Inv'
  <2> SUFFICES ASSUME IInv, StatsExact, [Next]_vars PROVE StatsExact'
    BY NextIInv
  <2> USE ArenaAssumption, BlockSizeNat DEF StatsExact, stats
  <2>0. used \in Nat /\ wasted \in Int /\ held \in Nat /\ refused \in Nat
    BY DEF IInv, TypeOK
  <2>1. CASE NewArena \/ NewArenaFails
    <3>1. CASE NewArenaFails
      BY <3>1 DEF NewArenaFails
    <3>2. CASE NewArena
      <4>1. refused = 0
        BY <3>2 DEF IInv, LiveInv, NewArena
      <4>2. QED
        BY <3>2, <4>1 DEF NewArena
    <3>3. QED
      BY <2>1, <3>1, <3>2
  <2>2. ASSUME NEW size \in Sizes, MallocFast(size) PROVE StatsExact'
    BY <2>0, <2>2 DEF MallocFast
  <2>3. ASSUME NEW size \in Sizes, MallocLarge(size) PROVE StatsExact'
    BY <2>0, <2>3 DEF MallocLarge
  <2>4. ASSUME NEW size \in Sizes, MallocLargeFails(size) PROVE StatsExact'
    BY <2>0, <2>4 DEF MallocLargeFails
  <2>5. ASSUME NEW size \in Sizes, MallocBlock(size) PROVE StatsExact'
    BY <2>0, <2>5 DEF MallocBlock, WastedByBlock
  <2>6. CASE UNCHANGED vars
    BY <2>6 DEF vars
  <2>7. CASE DeleteArena \/ DeleteLink \/ DeleteLast
    BY <2>7 DEF DeleteArena, DeleteLink, DeleteLast
  <2>8. QED
    BY <2>1, <2>2, <2>3, <2>4, <2>5, <2>6, <2>7
       DEF Next, MallocBlockFails, Delete, Halted
<1>3. QED
  BY <1>1, <1>2, PTL DEF Spec

-----------------------------------------------------------------------------
(* The deletion.  A dedicated block goes behind the head, so the chain is not *)
(* in the order in which the blocks were made.  The invariant says that there *)
(* is an order: ord numbers the blocks from the end of the chain, and each    *)
(* points to the one before it.  The deletion has freed exactly those above   *)
(* the cursor.                                                                *)

Ordered(ord) ==
  /\ \A i, j \in 1..count : ord[i] = ord[j] => i = j
  /\ \A i \in 1..count :
       /\ links[i].next \in 0..count
       /\ ord[i] = 1 => links[i].next = NULL
       /\ ord[i] # 1 => links[i].next # NULL /\ ord[links[i].next] = ord[i] - 1

\* The blocks from the cursor to the end of the chain.
Below(ord) == IF cursor = NULL THEN {} ELSE {i \in 1..count : ord[i] <= ord[cursor]}

Owning(ord) ==
  /\ status = "live" => ord[head] = count /\ owned = 0..count
  /\ status = "deleting" => cursor \in 0..count /\ owned = {0} \cup Below(ord)
  /\ status = "deleted" => owned = {}

ChainInv ==
  status \in {"live", "deleting", "deleted"} =>
    \E ord \in [1..count -> 1..count] : Ordered(ord) /\ Owning(ord)

\* What the order says of one block.
LEMMA OrderedAt ==
  ASSUME NEW ord \in [1..count -> 1..count], Ordered(ord), NEW i \in 1..count
  PROVE  /\ ord[i] \in 1..count /\ links[i].next \in 0..count
         /\ ord[i] = 1 => links[i].next = NULL
         /\ ord[i] # 1 => links[i].next # NULL /\ ord[links[i].next] = ord[i] - 1
<1>1. ord[i] \in 1..count
  OBVIOUS
<1>2. QED
  BY <1>1 DEF Ordered

\* The blocks of a chain and one more.
LEMMA OneMore ==
  ASSUME NEW n \in Nat
  PROVE  /\ \A i \in 1..n + 1 : i \in 1..n \/ i = n + 1
         /\ \A i \in 1..n : i \in 1..n + 1 /\ i # n + 1
         /\ \A i \in 0..n : i \in 0..n + 1 /\ (i # 0 => i \in 1..n)
         /\ n + 1 \in 1..n + 1 /\ n + 1 \in 0..n + 1 /\ n + 1 # 0 /\ n + 1 - 1 = n
OBVIOUS

\* A step that leaves the chain alone keeps its order.
LEMMA SameOrder ==
  ASSUME ChainInv, UNCHANGED <<links, count, head, owned, cursor, status>>
  PROVE  ChainInv'
BY DEF ChainInv, Ordered, Owning, Below

LEMMA NewArenaChain ==
  ASSUME NewArena
  PROVE  ChainInv'
<1> DEFINE ord == [i \in 1..1 |-> 1]
<1>1. count' = 1 /\ head' = 1 /\ status' = "live" /\ owned' = 0..1 /\ links'[1].next = NULL
  BY DEF NewArena
<1>2. ord \in [1..count' -> 1..count'] /\ \A i \in 1..1 : ord[i] = 1 /\ i = 1
  BY <1>1
<1> HIDE DEF ord
<1>3. Ordered(ord)' /\ Owning(ord)'
  BY <1>1, <1>2 DEF Ordered, Owning, NULL
<1>4. QED
  BY <1>1, <1>2, <1>3 DEF ChainInv

\* Bytes taken from the head block leave its next field alone.
LEMMA MallocFastChain ==
  ASSUME IInv, ChainInv, NEW size \in Sizes, MallocFast(size)
  PROVE  ChainInv'
<1>1. /\ status = "live" /\ head \in 1..count /\ links \in [1..count -> Links]
      /\ links' = [links EXCEPT ![head] = Take(links[head], size)]
      /\ UNCHANGED <<count, head, owned, cursor, status>>
  BY DEF IInv, TypeOK, MallocFast
<1>2. Take(links[head], size).next = links[head].next
  BY <1>1 DEF Take, Links
<1>3. \A i \in 1..count : links'[i].next = links[i].next
  BY <1>1, <1>2
<1>4. PICK ord \in [1..count -> 1..count] : Ordered(ord) /\ Owning(ord)
  BY <1>1 DEF ChainInv
<1>5. Ordered(ord)' /\ Owning(ord)'
  BY <1>1, <1>3, <1>4 DEF Ordered, Owning, Below
<1>6. QED
  BY <1>1, <1>4, <1>5 DEF ChainInv

\* A new ordinary block is first in the order.
LEMMA MallocBlockChain ==
  ASSUME IInv, ChainInv, NEW size \in Sizes, MallocBlock(size)
  PROVE  ChainInv'
<1>1. /\ status = "live" /\ status' = "live" /\ head \in 1..count /\ count \in Nat
      /\ count' = count + 1 /\ head' = count + 1 /\ owned' = owned \cup {count + 1}
      /\ links'[count + 1].next = head
      /\ \A i \in 1..count : links'[i] = links[i]
  BY DEF IInv, TypeOK, MallocBlock, AddLink, NewBlock
<1>2. PICK ord \in [1..count -> 1..count] : Ordered(ord) /\ Owning(ord)
  BY <1>1 DEF ChainInv
<1>0. PICK new : new = [i \in 1..count + 1 |-> IF i = count + 1 THEN count + 1 ELSE ord[i]]
  OBVIOUS
<1>3. /\ new \in [1..count + 1 -> 1..count + 1] /\ new[count + 1] = count + 1
      /\ \A i \in 1..count : new[i] = ord[i] /\ new[i] \in 1..count
  <2>1. /\ count \in Nat /\ count + 1 \in 1..count + 1
        /\ \A i \in 1..count : i \in 1..count + 1 /\ i # count + 1
    BY <1>1
  <2>2. \A i \in 1..count + 1 : i # count + 1 => ord[i] \in 1..count + 1
    BY <2>1, OneMore
  <2>3. new \in [1..count + 1 -> 1..count + 1]
    BY <1>0, <2>1, <2>2
  <2>4. QED
    BY <1>0, <2>1, <2>3
<1>4. ord[head] = count /\ owned = 0..count
  BY <1>1, <1>2 DEF Owning
<1>5. Owning(new)'
  <2>1. count \in Nat
    BY <1>1
  <2>2. 0..count \cup {count + 1} = 0..count + 1
    BY <2>1
  <2>3. new[head'] = count' /\ owned' = 0..count' /\ status' = "live"
    BY <1>1, <1>3, <1>4, <2>2
  <2>4. QED
    BY <2>3 DEF Owning
<1>6. Ordered(new)'
  <2>0. count \in Nat
    BY <1>1
  <2>1. ASSUME NEW i \in 1..count + 1, NEW j \in 1..count + 1, new[i] = new[j]
        PROVE  i = j
    <3>1. (i \in 1..count \/ i = count + 1) /\ (j \in 1..count \/ j = count + 1)
      BY <2>0, OneMore
    <3>2. \A k \in 1..count : new[k] # count + 1
      BY <1>3, <2>0, OneMore
    <3>3. CASE i \in 1..count /\ j \in 1..count
      <4>1. ord[i] = ord[j]
        BY <1>3, <2>1, <3>3
      <4>2. QED
        BY <1>2, <3>3, <4>1 DEF Ordered
    <3>4. QED
      BY <1>3, <2>1, <3>1, <3>2, <3>3
  <2>2. ASSUME NEW i \in 1..count + 1
        PROVE  /\ links'[i].next \in 0..count + 1
               /\ new[i] = 1 => links'[i].next = NULL
               /\ new[i] # 1 => links'[i].next # NULL /\ new[links'[i].next] = new[i] - 1
    <3>0. i \in 1..count \/ i = count + 1
      BY <2>0, OneMore
    <3>1. CASE i = count + 1
      <4>1. links'[i].next = head /\ new[i] = count + 1 /\ new[head] = count /\ head \in 1..count
        BY <1>1, <1>3, <1>4, <3>1
      <4>2. QED
        BY <2>0, <4>1 DEF NULL
    <3>2. CASE i \in 1..count
      <4>1. links'[i] = links[i] /\ new[i] = ord[i]
        BY <1>1, <1>3, <3>2
      <4>2. /\ links[i].next \in 0..count
            /\ ord[i] = 1 => links[i].next = NULL
            /\ ord[i] # 1 => links[i].next # NULL /\ ord[links[i].next] = ord[i] - 1
        BY <1>2, <3>2, OrderedAt
      <4>3. links[i].next \in 0..count + 1 /\ (links[i].next # 0 => links[i].next \in 1..count)
        BY <2>0, <4>2, OneMore
      <4>4. links[i].next # NULL => new[links[i].next] = ord[links[i].next]
        BY <1>3, <4>3 DEF NULL
      <4>5. QED
        BY <4>1, <4>2, <4>3, <4>4
    <3>3. QED
      BY <3>0, <3>1, <3>2
  <2>3. count' = count + 1
    BY <1>1
  <2>4. QED
    BY <2>1, <2>2, <2>3 DEF Ordered
<1>7. QED
  BY <1>1, <1>3, <1>5, <1>6 DEF ChainInv

\* A dedicated block takes the place of the head, which moves up by one.
LEMMA MallocLargeChain ==
  ASSUME IInv, ChainInv, NEW size \in Sizes, MallocLarge(size)
  PROVE  ChainInv'
<1>1. /\ status = "live" /\ status' = "live" /\ head \in 1..count /\ count \in Nat
      /\ links[head] \in Links
      /\ count' = count + 1 /\ head' = head /\ owned' = owned \cup {count + 1}
      /\ links'[count + 1].next = links[head].next
      /\ links'[head] = SetNext(links[head], count + 1)
      /\ \A i \in 1..count : i # head => links'[i] = links[i]
  BY DEF IInv, TypeOK, MallocLarge, InsertLarge, LargeBlock, BehindHead
<1>2. links'[head].next = count + 1
  BY <1>1 DEF SetNext, Links
<1>3. PICK ord \in [1..count -> 1..count] : Ordered(ord) /\ Owning(ord)
  BY <1>1 DEF ChainInv
<1>0. PICK new : new = [i \in 1..count + 1 |-> IF i = count + 1 THEN count
                                              ELSE IF i = head THEN count + 1 ELSE ord[i]]
  OBVIOUS
<1>4. /\ new \in [1..count + 1 -> 1..count + 1] /\ new[count + 1] = count /\ new[head] = count + 1
      /\ \A i \in 1..count : i # head => new[i] = ord[i]
  <2>1. /\ count \in Nat /\ count \in 1..count + 1 /\ count + 1 \in 1..count + 1
        /\ head \in 1..count /\ head # count + 1
        /\ \A i \in 1..count : i \in 1..count + 1 /\ i # count + 1
    BY <1>1
  <2>2. \A i \in 1..count + 1 : i # count + 1 => ord[i] \in 1..count + 1
    BY <2>1, OneMore
  <2>3. new \in [1..count + 1 -> 1..count + 1]
    BY <1>0, <2>1, <2>2
  <2>4. QED
    BY <1>0, <2>1, <2>3
<1>5. ord[head] = count /\ owned = 0..count
  BY <1>1, <1>3 DEF Owning
<1>6. \A i \in 1..count : i # head => ord[i] \in 1..count /\ ord[i] # count
  BY <1>1, <1>3, <1>5 DEF Ordered
<1>7. ASSUME NEW i \in 1..count
      PROVE  links[i].next # head
  <2>1. ord[i] \in 1..count /\ head # NULL
    BY <1>1, <1>3 DEF NULL
  <2>2. /\ ord[i] = 1 => links[i].next = NULL
        /\ ord[i] # 1 => ord[links[i].next] = ord[i] - 1
    BY <1>3, OrderedAt
  <2>3. count \in Nat
    BY <1>1
  <2>4. ord[i] - 1 # count
    BY <2>1, <2>3
  <2>5. QED
    BY <1>5, <2>1, <2>2, <2>4
<1>8. Owning(new)'
  <2>1. count \in Nat
    BY <1>1
  <2>2. 0..count \cup {count + 1} = 0..count + 1
    BY <2>1
  <2>3. new[head'] = count' /\ owned' = 0..count' /\ status' = "live"
    BY <1>1, <1>4, <1>5, <2>2
  <2>4. QED
    BY <2>3 DEF Owning
<1>9. Ordered(new)'
  <2>0. count \in Nat /\ head \in 1..count
    BY <1>1
  <2>1. \A i, j \in 1..count + 1 : new[i] = new[j] => i = j
    <3>0. ASSUME NEW k \in 1..count
          PROVE  new[k] # count /\ (k # head => new[k] # count + 1)
      <4>1. CASE k = head
        BY <1>4, <2>0, <4>1
      <4>2. CASE k # head
        <5>1. new[k] = ord[k] /\ ord[k] \in 1..count /\ ord[k] # count
          BY <1>4, <1>6, <4>2
        <5>2. QED
          BY <2>0, <5>1
      <4>3. QED
        BY <4>1, <4>2
    <3>1. ASSUME NEW i \in 1..count + 1, NEW j \in 1..count + 1, new[i] = new[j]
          PROVE  i = j
      <4>1. i \in 1..count \/ i = count + 1
        BY <2>0, OneMore
      <4>2. j \in 1..count \/ j = count + 1
        BY <2>0, OneMore
      <4>3. CASE i = count + 1 \/ j = count + 1
        BY <1>4, <3>0, <3>1, <4>1, <4>2, <4>3
      <4>4. CASE i = head \/ j = head
        <5>1. new[count + 1] # count + 1 /\ new[head] = count + 1
          BY <1>4, <2>0
        <5>2. QED
          BY <3>0, <3>1, <4>1, <4>2, <4>4, <5>1
      <4>5. CASE i \in 1..count /\ j \in 1..count /\ i # head /\ j # head
        BY <1>3, <1>4, <3>1, <4>5 DEF Ordered
      <4>6. QED
        BY <4>1, <4>2, <4>3, <4>4, <4>5
    <3>2. QED
      BY <3>1
  <2>2. ASSUME NEW i \in 1..count + 1
        PROVE  /\ links'[i].next \in 0..count + 1
               /\ new[i] = 1 => links'[i].next = NULL
               /\ new[i] # 1 => links'[i].next # NULL /\ new[links'[i].next] = new[i] - 1
    <3>0. ASSUME NEW k \in 1..count
          PROVE  /\ links[k].next \in 0..count
                 /\ links[k].next # NULL => new[links[k].next] = ord[links[k].next]
      <4>1. links[k].next \in 0..count /\ links[k].next # head
        BY <1>3, <1>7 DEF Ordered
      <4>2. links[k].next # NULL => links[k].next \in 1..count
        BY <2>0, <4>1 DEF NULL
      <4>3. QED
        BY <1>4, <4>1, <4>2
    <3>1. CASE i = count + 1
      <4>1. /\ links[head].next \in 0..count
            /\ count = 1 => links[head].next = NULL
            /\ count # 1 => links[head].next # NULL /\ ord[links[head].next] = count - 1
        BY <1>3, <1>5, <2>0, OrderedAt
      <4>2. links[head].next # NULL => new[links[head].next] = ord[links[head].next]
        BY <2>0, <3>0
      <4>3. links'[i].next = links[head].next /\ new[i] = count
        BY <1>1, <1>4, <3>1
      <4>4. links[head].next \in 0..count + 1
        BY <2>0, <4>1, OneMore
      <4>5. QED
        BY <4>1, <4>2, <4>3, <4>4
    <3>2. CASE i = head
      <4>1. links'[i].next = count + 1 /\ new[i] = count + 1 /\ new[count + 1] = count
        BY <1>2, <1>4, <3>2
      <4>2. QED
        BY <2>0, <4>1 DEF NULL
    <3>3. CASE i \in 1..count /\ i # head
      <4>1. links'[i] = links[i] /\ new[i] = ord[i]
        BY <1>1, <1>4, <3>3
      <4>2. /\ links[i].next \in 0..count
            /\ ord[i] = 1 => links[i].next = NULL
            /\ ord[i] # 1 => links[i].next # NULL /\ ord[links[i].next] = ord[i] - 1
        BY <1>3, <3>3, OrderedAt
      <4>3. links[i].next \in 0..count + 1
        BY <2>0, <4>2, OneMore
      <4>4. links[i].next # NULL => new[links[i].next] = ord[links[i].next]
        BY <3>0, <3>3
      <4>5. QED
        BY <4>1, <4>2, <4>3, <4>4
    <3>4. i \in 1..count \/ i = count + 1
      BY <2>0, OneMore
    <3>5. QED
      BY <3>1, <3>2, <3>3, <3>4
  <2>3. count' = count + 1
    BY <1>1
  <2>4. QED
    BY <2>1, <2>2, <2>3 DEF Ordered
<1>10. QED
  BY <1>1, <1>4, <1>8, <1>9 DEF ChainInv

\* The cursor goes down by one.
LEMMA DeleteLinkChain ==
  ASSUME IInv, ChainInv, DeleteLink
  PROVE  ChainInv'
<1>1. /\ status = "deleting" /\ cursor # NULL /\ count \in Nat
      /\ owned' = owned \ {cursor} /\ cursor' = links[cursor].next
      /\ UNCHANGED <<status, head, links, count>>
  BY DEF IInv, TypeOK, DeleteLink
<1>2. PICK ord \in [1..count -> 1..count] : Ordered(ord) /\ Owning(ord)
  BY <1>1 DEF ChainInv
<1>3. /\ cursor \in 1..count
      /\ owned = {0} \cup {i \in 1..count : ord[i] <= ord[cursor]}
  BY <1>1, <1>2 DEF Owning, Below, NULL
<1>4. owned' = {0} \cup {i \in 1..count : ord[i] < ord[cursor]}
  <2>1. \A i \in 1..count : ord[i] \in Int /\ (ord[i] = ord[cursor] <=> i = cursor)
    BY <1>2, <1>3 DEF Ordered
  <2>2. \A i \in 1..count : ord[i] < ord[cursor] <=> ord[i] <= ord[cursor] /\ i # cursor
    BY <1>3, <2>1
  <2>3. 0 # cursor
    BY <1>1 DEF NULL
  <2>4. QED
    BY <1>1, <1>3, <2>2, <2>3
<1>5. cursor' \in 0..count /\ owned' = {0} \cup Below(ord)'
  <2>1. CASE ord[cursor] = 1
    <3>1. cursor' = NULL
      BY <1>1, <1>2, <1>3, <2>1, OrderedAt
    <3>2. \A i \in 1..count : ~(ord[i] < ord[cursor])
      BY <1>2, <2>1
    <3>3. QED
      BY <1>1, <1>4, <3>1, <3>2 DEF Below, NULL
  <2>2. CASE ord[cursor] # 1
    <3>1. cursor' \in 1..count /\ ord[cursor'] = ord[cursor] - 1
      <4>1. /\ links[cursor].next \in 0..count /\ links[cursor].next # NULL
            /\ ord[links[cursor].next] = ord[cursor] - 1
        BY <1>2, <1>3, <2>2, OrderedAt
      <4>2. count \in Nat /\ cursor' = links[cursor].next
        BY <1>1
      <4>3. QED
        BY <4>1, <4>2, OneMore DEF NULL
    <3>2. \A i \in 1..count : ord[i] < ord[cursor] <=> ord[i] <= ord[cursor']
      <4>1. ord[cursor] \in Int /\ \A i \in 1..count : ord[i] \in Int
        BY <1>2, <1>3
      <4>2. QED
        BY <3>1, <4>1
    <3>3. Below(ord)' = {i \in 1..count : ord[i] <= ord[cursor']}
      <4>1. cursor' # NULL /\ count' = count
        BY <1>1, <3>1 DEF NULL
      <4>2. QED
        BY <4>1 DEF Below
    <3>4. {i \in 1..count : ord[i] < ord[cursor]} = {i \in 1..count : ord[i] <= ord[cursor']}
      BY <3>2
    <3>5. cursor' \in 0..count
      BY <1>1, <3>1
    <3>6. QED
      BY <1>4, <3>3, <3>4, <3>5
  <2>3. QED
    BY <2>1, <2>2
<1>6. Ordered(ord)' /\ Owning(ord)'
  BY <1>1, <1>2, <1>5 DEF Ordered, Owning
<1>7. QED
  BY <1>1, <1>2, <1>6 DEF ChainInv

LEMMA NextChain == IInv /\ ChainInv /\ [Next]_vars => ChainInv'
<1> SUFFICES ASSUME IInv, ChainInv, [Next]_vars PROVE ChainInv'
  OBVIOUS
<1>1. CASE NewArena
  BY <1>1, NewArenaChain
<1>2. CASE NewArenaFails
  BY <1>2 DEF NewArenaFails, ChainInv
<1>3. ASSUME NEW size \in Sizes, MallocFast(size) PROVE ChainInv'
  BY <1>3, MallocFastChain
<1>4. ASSUME NEW size \in Sizes, MallocLarge(size) PROVE ChainInv'
  BY <1>4, MallocLargeChain
<1>5. ASSUME NEW size \in Sizes, MallocLargeFails(size) PROVE ChainInv'
  BY <1>5, SameOrder DEF MallocLargeFails
<1>6. ASSUME NEW size \in Sizes, MallocBlock(size) PROVE ChainInv'
  BY <1>6, MallocBlockChain
<1>7. CASE UNCHANGED vars
  BY <1>7, SameOrder DEF vars
<1>8. CASE DeleteArena
  <2>1. /\ status = "live" /\ status' = "deleting" /\ cursor' = head /\ head \in 1..count
        /\ count \in Nat /\ UNCHANGED <<links, count, head, owned>>
    BY <1>8 DEF DeleteArena, IInv, TypeOK
  <2>2. PICK ord \in [1..count -> 1..count] : Ordered(ord) /\ Owning(ord)
    BY <2>1 DEF ChainInv
  <2>3. ord[head] = count /\ owned = 0..count
    BY <2>1, <2>2 DEF Owning
  <2>4. owned = {0} \cup {i \in 1..count : ord[i] <= count}
    BY <2>1, <2>2, <2>3
  <2>5. Ordered(ord)' /\ Owning(ord)'
    BY <2>1, <2>2, <2>3, <2>4 DEF Ordered, Owning, Below, NULL
  <2>6. QED
    BY <2>1, <2>2, <2>5 DEF ChainInv
<1>9. CASE DeleteLink
  BY <1>9, DeleteLinkChain
<1>10. CASE DeleteLast
  BY <1>10 DEF DeleteLast, ChainInv, Ordered, Owning, Below
<1>11. QED
  BY <1>1, <1>2, <1>3, <1>4, <1>5, <1>6, <1>7, <1>8, <1>9, <1>10
     DEF Next, MallocBlockFails, Delete, Halted

\* h_delete_arena frees every block of the arena once, however ordinary and
\* dedicated blocks were mixed and whichever of them the allocator refused.
THEOREM ArenaEachFreedOnce == Spec => []EachFreedOnce
<1>1. Init => ChainInv
  BY DEF Init, ChainInv
<1>2. IInv /\ ChainInv => EachFreedOnce
  <2> SUFFICES ASSUME IInv, ChainInv, status \in {"deleting", "deleted"} PROVE EachFreedOnce
    BY DEF EachFreedOnce
  <2>1. PICK ord \in [1..count -> 1..count] : Ordered(ord) /\ Owning(ord)
    BY DEF ChainInv
  <2>2. CASE status = "deleted"
    BY <2>1, <2>2 DEF Owning, EachFreedOnce
  <2>3. CASE status = "deleting" /\ cursor # NULL
    <3>1. cursor \in 1..count /\ owned = {0} \cup {i \in 1..count : ord[i] <= ord[cursor]}
      BY <2>1, <2>3 DEF Owning, Below, NULL, IInv, TypeOK
    <3>2. ord[cursor] <= ord[cursor]
      BY <2>1, <3>1
    <3>3. QED
      BY <2>3, <3>1, <3>2 DEF EachFreedOnce
  <2>4. QED
    BY <2>2, <2>3 DEF EachFreedOnce
<1>3. QED
  BY <1>1, <1>2, InitIInv, NextIInv, NextChain, PTL DEF Spec
=============================================================================
