------------------------------- MODULE Arena -------------------------------
(***************************************************************************)
(* The arena allocator, src/allocator.c: one arena from h_new_arena to     *)
(* h_delete_arena.  Blocks of memory are taken from an HAllocator that may *)
(* fail (external).  A block is a link of the arena's chain with a payload *)
(* of cap bytes; regions are what h_arena_malloc handed out, as a range of *)
(* bytes of a payload.  Sizes are assumed not to wrap around size_t.       *)
(***************************************************************************)
EXTENDS Integers

CONSTANTS
  RequestedSize,   \* the block_size given to h_new_arena, 0 for the default
  Sizes,           \* the sizes asked of h_arena_malloc
  LinkSize,        \* sizeof(struct arena_link)
  PointerSize,     \* sizeof(struct arena_link *)
  ArenaSize,       \* sizeof(struct HArena_)
  MaxLinks,        \* bound: blocks taken from the allocator
  MaxUsed          \* bound: bytes handed out

BlockSize == IF RequestedSize = 0 THEN 4096 ELSE RequestedSize

ASSUME ArenaAssumption ==
  /\ RequestedSize \in Nat
  /\ Sizes \subseteq Nat
  /\ LinkSize \in Nat /\ PointerSize \in Nat /\ ArenaSize \in Nat
  /\ MaxLinks \in Nat /\ MaxUsed \in Nat

VARIABLES
  status,    \* "none" | "failed" | "live" | "deleting" | "deleted"
  head,      \* arena->head
  links,     \* the links made so far: next, used, free, cap, special
  count,     \* their number; links are numbered from 1, 0 is NULL
  used, wasted,   \* arena->used, arena->wasted
  regions,   \* what has been handed out
  held,      \* bytes held from the allocator
  refused,   \* bytes counted for large blocks the allocator refused
  owned,     \* links that have not been given back; 0 is the arena itself
  cursor     \* link, in h_delete_arena

stats == <<used, wasted>>
vars == <<status, head, links, count, stats, regions, held, refused, owned,
          cursor>>

NULL == 0

Init ==
  /\ status = "none"
  /\ head = NULL /\ cursor = NULL
  /\ links = <<>> /\ count = 0
  /\ used = 0 /\ wasted = 0 /\ held = 0 /\ refused = 0
  /\ regions = {} /\ owned = {}

AddLink(l) ==
  /\ count' = count + 1
  /\ links' = [i \in 1 .. count + 1 |-> IF i = count + 1 THEN l ELSE links[i]]
  /\ owned' = owned \cup {count + 1}

\* h_new_arena.  The arena structure is assumed to be there.
NewArena ==
  /\ status = "none"
  /\ status' = "live"
  /\ count' = 1
  /\ links' = [i \in {1} |-> [next |-> NULL, free |-> BlockSize, used |-> 0,
                              cap |-> BlockSize, special |-> FALSE]]
  /\ owned' = {0, 1}
  /\ head' = 1
  /\ used' = 0
  /\ wasted' = LinkSize + ArenaSize + BlockSize
  /\ held' = LinkSize + ArenaSize + BlockSize
  /\ UNCHANGED <<regions, refused, cursor>>

\* The first block is refused: NULL is returned, the structure is not freed.
NewArenaFails ==
  /\ status = "none"
  /\ status' = "failed"
  /\ owned' = {0}
  /\ held' = ArenaSize
  /\ UNCHANGED <<head, links, count, stats, regions, refused, cursor>>

Fits(size) == size <= links[head].free

\* Mutant: the next region starts where this one does.
Take_NotUsed(l, size) == [l EXCEPT !.free = @ - size]

\* The block after size bytes were taken from it.
Take(l, size) == [l EXCEPT !.used = @ + size, !.free = @ - size]

\* h_arena_malloc, from the head block.
MallocFast(size) ==
  /\ status = "live"
  /\ used + size <= MaxUsed
  /\ Fits(size)
  /\ regions' = regions \cup
       {[link |-> head, off |-> links[head].used, size |-> size]}
  /\ links' = [links EXCEPT ![head] = Take(links[head], size)]
  /\ used' = used + size
  /\ wasted' = wasted - size
  /\ UNCHANGED <<status, head, count, held, refused, owned, cursor>>

\* Mutants: the new block points back to the head, or to nothing.
BehindHead_Cycle == head
BehindHead_Cut == NULL

BehindHead == links[head].next

\* A dedicated block: of the fields of a link it has only next.
LargeBlock(size) == [next |-> BehindHead, free |-> 0, used |-> size,
                     cap |-> size, special |-> TRUE]

SetNext(l, n) == [l EXCEPT !.next = n]

\* It goes behind the head.
InsertLarge(size) ==
  /\ count' = count + 1
  /\ links' = [i \in 1 .. count + 1 |->
                 IF i = count + 1 THEN LargeBlock(size)
                 ELSE IF i = head THEN SetNext(links[head], count + 1)
                 ELSE links[i]]
  /\ owned' = owned \cup {count + 1}
  /\ UNCHANGED head

\* h_arena_malloc, larger than a block: the statistics are updated first.
MallocLarge(size) ==
  /\ status = "live"
  /\ used + size <= MaxUsed /\ count < MaxLinks
  /\ ~Fits(size) /\ size > BlockSize
  /\ used' = used + size
  /\ wasted' = wasted + PointerSize
  /\ InsertLarge(size)
  /\ regions' = regions \cup {[link |-> count + 1, off |-> 0, size |-> size]}
  /\ held' = held + size + PointerSize
  /\ UNCHANGED <<status, refused, cursor>>

MallocLargeFails(size) ==
  /\ status = "live"
  /\ used + size <= MaxUsed
  /\ ~Fits(size) /\ size > BlockSize
  /\ used' = used + size
  /\ wasted' = wasted + PointerSize
  /\ refused' = refused + size + PointerSize
  /\ UNCHANGED <<status, head, links, count, regions, held, owned, cursor>>

NewBlock(size) == [next |-> head, free |-> BlockSize - size, used |-> size,
                   cap |-> BlockSize, special |-> FALSE]

WastedByBlock(size) == LinkSize + BlockSize - size

\* h_arena_malloc, a new block, which becomes the head.
MallocBlock(size) ==
  /\ status = "live"
  /\ used + size <= MaxUsed /\ count < MaxLinks
  /\ ~Fits(size) /\ size <= BlockSize
  /\ AddLink(NewBlock(size))
  /\ head' = count + 1
  /\ used' = used + size
  /\ wasted' = wasted + WastedByBlock(size)
  /\ regions' = regions \cup {[link |-> count + 1, off |-> 0, size |-> size]}
  /\ held' = held + LinkSize + BlockSize
  /\ UNCHANGED <<status, refused, cursor>>

\* The block is refused: NULL is returned and nothing has changed.
MallocBlockFails(size) ==
  /\ status = "live"
  /\ ~Fits(size) /\ size <= BlockSize
  /\ UNCHANGED vars

\* h_delete_arena frees the links from the head on, and the arena.
DeleteArena ==
  /\ status = "live"
  /\ status' = "deleting"
  /\ cursor' = head
  /\ UNCHANGED <<head, links, count, stats, regions, held, refused, owned>>

DeleteLink ==
  /\ status = "deleting"
  /\ cursor # NULL
  /\ owned' = owned \ {cursor}
  /\ cursor' = links[cursor].next
  /\ UNCHANGED <<status, head, links, count, stats, regions, held, refused>>

DeleteLast ==
  /\ status = "deleting"
  /\ cursor = NULL
  /\ status' = "deleted"
  /\ owned' = owned \ {0}
  /\ UNCHANGED <<head, links, count, stats, regions, held, refused, cursor>>

Halted == status \in {"failed", "deleted"} /\ UNCHANGED vars

Delete == DeleteLink \/ DeleteLast

Next ==
  \/ NewArena \/ NewArenaFails
  \/ \E size \in Sizes : \/ MallocFast(size)
                         \/ MallocLarge(size) \/ MallocLargeFails(size)
                         \/ MallocBlock(size) \/ MallocBlockFails(size)
  \/ DeleteArena \/ Delete
  \/ Halted

\* h_delete_arena runs its loop to the end; nothing forces a caller to call it.
Spec == Init /\ [][Next]_vars /\ WF_vars(Delete)

-----------------------------------------------------------------------------
(* Properties. *)

Links == [next : Nat, free : Nat, used : Nat, cap : Nat, special : BOOLEAN]
Regions == [link : Nat \ {0}, off : Nat, size : Nat]

\* Types of the arena and its chain of blocks.
TypeOK ==
  /\ status \in {"none", "failed", "live", "deleting", "deleted"}
  /\ count \in Nat
  /\ links \in [1..count -> Links]
  /\ head \in 0..count
  /\ status \in {"live", "deleting"} => head \in 1..count
  /\ used \in Nat /\ wasted \in Int /\ held \in Nat /\ refused \in Nat
  /\ regions \subseteq Regions

\* Two regions h_arena_malloc handed out never overlap, so memory found zeroed
\* at first is nobody else's.
Disjoint ==
  \A r, s \in regions : r # s /\ r.link = s.link =>
    r.off + r.size <= s.off \/ s.off + s.size <= r.off

\* Every region lies within the payload of a block.
InBounds ==
  \A r \in regions :
    /\ r.link \in 1..count
    /\ r.off + r.size <= links[r.link].used
    /\ links[r.link].used <= links[r.link].cap

\* The head of the chain is an ordinary block (a dedicated one has no fields
\* to allocate from), and what is used and free of it is the whole block.
HeadIsOrdinary ==
  status = "live" =>
    /\ ~links[head].special
    /\ links[head].used + links[head].free = links[head].cap

\* h_allocator_stats accounts for every byte taken from the allocator, plus
\* the large blocks it was refused.
StatsExact ==
  status = "live" => used + wasted = held + refused

\* The memory handed out is sound: each region in its block, none over another.
RegionsSound == Disjoint /\ InBounds

\* h_delete_arena frees every block once: none twice, and none is left behind,
\* ordinary or dedicated, whatever order the blocks came into the chain.
EachFreedOnce ==
  /\ status = "deleting" /\ cursor # NULL => cursor \in owned
  /\ status = "deleted" => owned = {}

\* Its walk along the chain comes to an end.
DeletionEnds == status = "deleting" ~> (status = "deleted" /\ owned = {})
=============================================================================
