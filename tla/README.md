# Models of the hammer parsing library

Hammer is a C library of parser combinators. A program builds a graph of
`HParser` nodes, may compile it with one of five backends, and parses byte
buffers, in one piece or in chunks. This directory holds TLA+ models of its
parts, the TLC configurations that check them on small instances, and proofs
that TLAPS checks. The C library is `src/src/`; paths below are relative to it.

Contents: [inventory](#the-system), [modules and code](#modules-and-the-code),
[runs](#what-the-runs-check), [proofs](#what-is-proved),
[disagreements with the documentation](#disagreements-found),
[limits](#what-is-not-modelled), [plan](#plan).

## The system

| part | state | operations | hard about it |
|---|---|---|---|
| packrat backend, `backends/packrat.c` | cache by (position, parser), recursion heads by position, stack of left recursions, input stream, symbol table | `h_do_parse`, `recall`, `setupLR`, `grow`, `lr_answer` | left recursion: entries of the cache change meaning while a recursion grows; results are answered from the cache in an order no caller sees |
| combinators, `parsers/*.c` | locals of the parse functions, a copy of the stream to back up to | one parse function per combinator | reads past the end, backing up, results that are forwarded, symbols that are bound while parsing, elements left over from branches given up |
| arena, `allocator.c` | chain of blocks, fill of the head block, statistics | `h_new_arena`, `h_arena_malloc`, `h_delete_arena` | three kinds of request, blocks without counters, refusals half way |
| hash tables, `datastructures.c` | buckets and chains, `used`, `capacity` | put, get, present, del, update, merge, set equality | deletion inside a chain, rehashing, emptied links |
| front end, `hammer.c` | `HSuspendedParser` | `h_parse`, `h_compile`, `h_parse_start`, `_chunk`, `_finish` | the contract with the backend about who is done when |
| LL(k) backend, `backends/llk.c` | table, stack of symbols, window of lookahead kept between chunks | compile, parse, chunked parse | lookahead that spans chunks |
| grammars, `cfgrammar.c`, `desugar.c` | sets of nullable symbols, first and follow sets of length k | first, follow and predict sets, string maps | sets that are read, and memoised, before they are complete |
| LALR backend, `backends/lr0.c`, `lalr.c`, `lr.c` | automaton, table, enhanced grammar, an engine: state, stack, place in the input | build, parse, chunked parse | lookaheads read off a second grammar, conflicts cell by cell, a stack that nothing tests |
| GLR backend, `backends/glr.c` | engines in two lists, merged ones with their ancestors | parse | forking and merging, taking merged engines apart before a reduction |
| regular expressions, `backends/regex.c` | program, threads in sparse arrays, trace | run, replay | scheduling and deduplication of threads |
| bit reader and writer, `bitreader.c`, `bitwriter.c`, `parsers/endianness.c` | buffer, index, bit offset, margin, byte and bit order | read, write bits, change the order | bits gone at both ends of a byte, four orders, the end |
| token types, `registry.c` | process-wide table of names | allocate, look up | unsynchronised globals |

The parts interact by calls only; the library has no threads of its own.
`h_parse` hands an `HInputStream` to the `parse` function of the backend that
`h_compile` chose, packrat by default. The packrat backend calls the `parse`
entry of a combinator's vtable, which calls `h_do_parse` on its inner parsers:
this mutual recursion, with a cache in the middle, is the heart of the library.
The other backends compile the graph first, through two more entries of the
vtable: `desugar` gives a context-free grammar for LL(k), LALR and GLR,
`compile_to_rvm` a program for the regular expression machine. All results live
in an arena that is deleted at once; the cache, the sets of symbols and the
tables are hash tables, the threads of the regular machine sit in sparse arrays.

What makes each part correct:

* packrat: the answer is what the grammar means, as if there were no cache; the
  parse ends, left recursion or not; the assertions on the cache and on the stack
  of left recursions hold; nothing of a recursion is left when it is over.
* combinators: a combinator that goes on after a failure restores the stream; a
  name is bound once.
* arena: regions do not overlap and stay in their blocks; all is freed, once.
* hash table and sparse array: they show a map, whatever their layout.
* LL(k): the answer does not depend on the division into chunks; sentences are
  accepted; the contract with the front end holds.
* conversion, LALR and GLR: the grammar, the table and the engine together give
  what the parser means; a reduction finds its right side on the stack; a parser
  that compiles without a conflict is not ambiguous; forked engines stay apart and
  merged ones are where each of them was.
* bits: each bit is read once, in the order asked for; what was written is read.
* regular expressions: what is matched is in the language, the longest match
  wins, the stack discipline between instructions and actions holds, and the
  arrays of the machine are large enough.

## Modules and the code

| module | models |
|---|---|
| `Combinators` | the `parse` functions of `parsers/*.c`, cut at their calls of `h_do_parse` |
| `Packrat` | `backends/packrat.c`; EXTENDS `Combinators` |
| `PEG` | what a grammar means, without a cache: the reference for `Packrat` |
| `GrammarNodes` | the constructors `h_ch`, `h_token`, `h_many`, ... as records, shared by the grammars of two backends |
| `Arena` | `allocator.c` |
| `HashTable`, `Map` | `HHashTable` and `HHashSet` of `datastructures.c`; the map it implements |
| `SArray`, `SparseMap` | `HSArray` of `internal.h`; the map it implements |
| `CFGrammar` | first, follow and predict sets and string maps of `cfgrammar.c`, and the table construction of `llk.c` |
| `LLk` | the driver of `llk.c` under `h_parse`, `h_parse_start`, `h_parse_chunk`, `h_parse_finish` of `hammer.c` |
| `Desugar` | `desugar.c`, the stack of choices of `contextfree.h`, the `desugar_*` and `reshape_*` functions of `parsers/*.c` but for those of `h_bits` and `h_int_range`, `collect_nts` |
| `LRTable` | `lr0.c` and `lalr.c`: automaton, table, enhanced grammar, lookaheads, conflicts |
| `LREngine` | the engine of `lr.c` that both drivers share |
| `LR` | the LALR driver of `lr.c` under `hammer.c`; EXTENDS `LREngine` |
| `GLR` | `glr.c`; EXTENDS `LREngine` |
| `CFParsers` | composes `Desugar` and `LRTable`: from a graph of parsers to a table; and what a graph means, the reference |
| `Bits` | `bitreader.c`, `bitwriter.c`, `h_bits` and `parsers/endianness.c` |
| `RVMProgram` | `h_regex_compile` and the `compile_to_rvm` functions of `parsers/*.c` |
| `RVM` | `h_rvm_run__m`, `run_trace` and the `h_svm_action_*` functions |
| `RVMShapes` | what a program lets be on the stack of `run_trace` at each address; EXTENDS `RVM` |
| `MC*` | grammars, small constants, and the properties that compare with a reference |
| `*Proofs` | theorems |

**Combinators and Packrat.** C recursion is an explicit stack: `stack[n]` is an
activation of `perform_lowlevel_parse`, `locals[n]` the local variables of the
parse function it called. `pc` says whether `h_do_parse` is being called, a
parse function runs, or one returns. One step of a parse function reaches from
one call of `h_do_parse` to the next, so each call and each return of
`h_do_parse` is a step, and each of its branches (`CallMiss`, `CallHit`,
`CallUninvolved`, `CallEval`, `CallLeftRecursion`, `ReturnPlain`, `ReturnHead`,
`GrowAgain`, ...) an action. Objects that the code shares by pointer and changes
in place (results, cache values, left recursions, heads) live in heaps that are
functions from addresses. A grammar is a record of nodes, chosen in `Init`
together with the input; `GrammarsAssumption` says that its nodes have the inner
parsers their constructors ask for. Token trees are kept; positions are byte indices. The
dictionary tables of the parse state are functions: that `HHashTable` is one is
what `HashTable` shows. `PEG` gives the meaning: a recursive evaluator, with left
recursion as the growing of a seed, without cache, heads, or stack.

**Arena.** The chain of blocks is a function from block numbers, each with its
capacity, fill and next block; `regions` is a history of what was handed out.
`h_arena_malloc` has an action for each of its three paths and for each refusal
of the underlying allocator; `h_delete_arena` frees block by block.

**HashTable.** A table is a capacity and a chain of links per bucket, with the
emptied links that `h_hashtable_del` leaves. `Hash` is a constant. The history
`entered` lists the keys in the order they were put: deletions are last in,
first out, which is how `packrat.c` (`grow`) uses them, the only place that
deletes. One round of each loop is a step: a doubling of the capacity, a link that is
rehashed, a link that `h_hashtable_update` or `h_hashtable_merge` has passed. The
history `was` keeps what the tables held when the operation began, and callers
see them (`Shown`) before and after an operation only.

**SArray.** Every word of the nodes starts with any value. `h_sarray_isset`,
`h_sarray_set` and `h_sarray_clear` are operators on that memory.

**CFGrammar and LLk.** Grammars are given after desugaring, with nonterminals,
character sets and the values a nonterminal's reshape or predicate refuses. The
memo tables of first and follow sets are threaded through the recursion,
because a set that is entered before it is complete is visible to others. The
order in which a hash table lists its entries is a parameter. One round of the
loop in `llk_parse_chunk_` is a step (`Predict`, `Close`, `Terminal`, `Success`); the
window is a stream of its own, filled by `append_win` and `save_win`. The input
is not chosen in advance: any call may bring any chunk.

**Desugar, LRTable and CFParsers.** A graph of parsers, cycles through
`h_indirect` included, is converted step by step as the code does it: a stack of open
choices, and a symbol handed out in advance (`prealloc`) that the next choice to be
opened takes. Symbols are numbered in the order they are made. `LRTable` builds
the automaton with a worklist, puts shifts and reductions, enhances the grammar
with the states, and matches each reducible item with the enhanced
productions to find its lookaheads; `terminals_put` compares actions cell by cell. A
table keeps, beside what the code has, the symbols that were shifted last whenever
the engine is in a row (`known`), which `Sane` speaks of. Hash tables list their entries in one of two orders of the
symbols.

**LREngine, LR and GLR.** An engine is a record; its stack is a sequence of pairs,
top first. `h_slist_drop` on an empty stack gives a missing value and state 0, as
the null pointer does. A step of `LR` is a round of the loop in
`h_lr_parse_chunk`; chunks are not chosen in advance. A step of `GLR` is one engine
of one round with everything it sets off: forks, the taking apart of merged
engines (`demerge`, recursive), merging, storing. A merged engine holds its ancestors as
values, since each is held by one engine only. `h_arena_malloc` gives zeroed
memory, so a forked engine has no ancestors although `fork_engine` does not say so.

**Bits.** The writer's buffer becomes the reader's input. A step is a round of a loop;
`gone`, `last`, `again` and `written` are histories: which bits of the buffer a
stream has passed (`GoneOf`), what the last read gave, and whether the reads so far are
the writes. A buffer is a function from its indices, so that a write outside
is visible.

**RVMProgram and RVM.** `h_regex_compile` gives the sequence of instructions,
with addresses counted as the code counts them. An action of `RVM` is one
instruction of one thread; the loops over characters and over threads are steps
too, with the order in which `H_SARRAY_FOREACH_KV` really visits the threads. The
history `missed` says whether that loop has passed over a thread. `run_trace` is
a step per trace entry, and each `h_svm_action_*` an action of its own; a failed
assertion, a null pointer followed, or an empty stack popped is `pc = "abort"`.

## What the runs check

| run | instance | shows |
|---|---|---|
| `packrat_small` | all 1681 grammars of two rules of sequence, choice, optional, and, not, over two letters, inputs of up to 3 bytes; the left-recursive grammars of `t_parser.c`, inputs of up to 4 | termination, the right answer, `lr_stack` matches the C stack, results stay in the cache |
| `packrat_large` | two combinators of every other kind under a third, all permutations of 2 or 3 of six parsers; all grammars choice/sequence/choice over three rules (most left-recursive in several rules at once); trees of puts, nested ones too, and gets | every cache entry, that of the root included, is right; the assertions on the cache hold, heads are listed exactly while they grow, a put that has run its parser never meets its name bound |
| `hashtable` | two tables, three keys of which two collide always and all until capacity eight | refinement of `Map`; equal sets are found equal |
| `arena` | blocks of 3 bytes, requests of 0, 1, 2, 4; three blocks; every allocation may be refused | regions in bounds and apart, each block freed exactly once, deletion frees all and ends |
| `sarray` | three elements over memory of any contents | refinement of `SparseMap`, bounds |
| `llk` | every grammar of a family with two nonterminals that compiles with k = 1, 2 or 3; inputs of up to 4 bytes in all divisions into chunks | chunks are invisible, sentences are accepted, the assertions about the window, bytes are matched in the order they were given and lookahead misses none (`BytesInOrder`), finish assertion and `bit_length` for k = 1, every call returns |
| `regex` | four outer combinators over every pair of nineteen inner ones, seven more over each of them, 1581 programs; inputs of up to 3 of three bytes | `ip_queue` in bounds, termination; of the 1310 programs of disciplined nestings (below): no abort, matches are in the language, the longest match |
| `regex_choice` | one choice | violation, see below |
| `lalr` | sequence, choice and separated repetition over pairs of seventeen inner parsers, five of them recursive, as far as `h_lalr_compile` finds no conflict; inputs of up to 3 bytes in all divisions into chunks | result and acceptance are those of the parser, a parser without conflict is unambiguous, every reduction finds the symbols of its right side, the table is sane, all assertions of `lr.c`, every call returns |
| `glr` | sequence, choice and `h_right` over pairs of eleven inner parsers, six of them recursive, and palindromes, where there is a conflict, in both orders of the hash tables; inputs of up to 5 bytes | result and acceptance are those of the parser, stacks are paths of the automaton, merged engines are at one place, the parse returns |
| `glr_stack` | E -> E + E, d on four terms | violation, see below |
| `bits` | writes and reads of 5, 11 and 16 bits of two numbers, reads signed or not, in all orders and changes of order at any place, one inside another; three bytes | no access outside, each bit read once and in its place, the writes are read, changes of order keep the bits |

**Bounds.** Grammar sets are exhaustive over two or three combinators because the
mistakes of a memoising parser need a rule that is met twice, at most once
outside and once inside another one; inputs of three or four bytes allow two
rounds of growing plus one that fails. The byte 0 is in the alphabet of
`packrat_large` because a read behind the end gives zero bits, and in
`regex` (inside a character set) because the machine runs once more at the end
with the byte 0; 200 does not fit a signed byte. In `hashtable` `MaxUsed` lets one
table grow from capacity 2 to 8 in the middle of a chain. In `arena` `MaxLinks`
allows a large block behind each of two ordinary ones and `MaxUsed` bounds the
bytes handed out; the sizes are below, at and above what is free. In `sarray` the
words reach one beyond the last index. In `llk`, inputs of four bytes are one
longer than the longest lookahead, so every window is filled, emptied and
filled again. In `lalr`, three bytes are enough for a recursive parser to shift, reduce
and shift again in each of three rows, and for every division of that into
chunks; in `glr`, five bytes let engines fork, merge, and be taken apart
while another pair is merged (`glr_stack` needs seven). In `bits` the sizes
end a read inside a byte, at its end, and in the byte after next, also over a whole
byte in between (16 bits after 5); a capacity of one byte makes the writer grow. Neither
number reads the same backwards at 5 and at 16 bits, and one is negative at 16.

**Deadlock** is checked except where the environment may stop calling: `hashtable`,
`llk`, `lalr` and `bits`, and in `glr`, which ends with its parse. Finished parses stutter by an explicit step.

**Fairness.** The library is sequential: once called, it runs. `Packrat`, `RVM` and
`GLR` have weak fairness of their steps, `LLk` and `LR` of the steps of a running call (not of the
caller, who may never bring another chunk), `Arena` of the steps of a deletion
that has begun. Nothing else is fair.

**Restrictions of the instances** that a reader should know:

* No grammar of the packrat runs repeats a parser that matches the empty string:
  `parse_many` does not end on it.
* `Correct` is asked of the grammars of `packrat_small`. On
  mutual left recursion with several alternatives the algorithm itself is
  incomplete (see below), so of those grammars `packrat_large` asks for the
  consistency of the tables only.
* `MarksKept` and `Correct` of the `regex` run are asked of disciplined parsers only. The
  actions of the stack machine find their operands by marks, and do not expect every
  inner parser: a parser leaves a token, or nothing (`h_end_p`, `h_epsilon_p`, `h_nothing_p`,
  `h_ignore`, an action that returns NULL, a choice of these), or a null token
  (`h_left`, `h_right` and `h_middle` when the chosen parser leaves nothing), and `Takes` in
  `MCRegex` lists what is coped with: `h_ignore` needs a token or a null token,
  `h_int_range` a token, all others but choice and whitespace no null token. The backend
  compiles the other nestings too: of the 1581 programs of the instance 271 are such, and 217
  of those abort on some input of up to three bytes. `MCRegexMarks.cfg` shows it.
* An `h_int_range` is compiled directly under `h_ignore` only: deeper inside the
  compilation stops halfway and what was emitted so far stays.
* A user's action that returns NULL is in the `regex` run only (`Dropping`); in the other
  models an action always makes a token.
* `Correct` of the `regex` run asks for the longest match (`Longest`) as long as no thread
  was passed over (`missed`) and the grammar has no predicate; `ChoiceFindsAMatch` shows why.
* `lalr` has no parser in which the end of the input is followed by the parser
  itself, and compiles each graph at an `h_indirect`, see below. `glr` has no parser with
  hidden left recursion or with an empty alternative but the palindromes, and asks
  of acceptance only that some prefix is accepted: the last engine that succeeds wins.
* `HeadsAreGrowing` is asked until `setupLR` has marked a rule at another position
  (`strayed`); see packrat.c:103 below. `SymbolAssert` is asked of grammars without a
  put inside a put of its name (`Unnested`).
* `CacheIsSound` leaves out left-recursive grammars, where an entry may be of an
  earlier round.

## What is proved

All theorems are for every value of the constants, so for every grammar, table,
program or input, and checked by `tlapm` (SMT, Zenon, and LS4 for temporal steps).

* `PackratProofs`, about the cache: `PackratCached`, `PackratNoImpossibleMatch`, together
  `PackratNoAbort`, and `PackratResultsStay`. The inductive invariant relates the C stack
  to the cache: a frame that is running a rule met for the first time has an entry in
  the cache under its key, a growing frame has a result there (`StackOK`), and
  entries point at cells that exist, with addresses below `next` so that a new object
  never overwrites an old one (`MemoOK`). The assertions alone are not inductive:
  a step deep inside may only be shown to respect them if every frame below is
  covered, not only the top.
* `PackratProofs`, about left recursion: `PackratLRStack`. Both stacks are ordered by the
  addresses of the left recursions, so equal sets of them have equal last elements, and
  popping one of each keeps them equal (`LRMatch`). `PackratHeads` (`HeadsAreGrowing`): `recall`
  answers for every rule that is not involved in the recursion that grows, so a rule is entered
  at that position only if it is involved and not in the cache. There is none, as every rule
  that a head lists was met at the position of the head (`Places`, with the positions
  of heads and left recursions as witnesses). That is so only as long as `setupLR` stays at its
  position, and the proof attempt showed that it need not: for `p = &p r | a o | a`, `o = p | r`,
  `r = r | &p | a` on the input `a` it walks down the whole stack (`Straying` in `MCPackrat`).
  Hence the history `strayed` in the property.
* `PackratProofs`, about symbols: `PackratSymbols` (`SymbolAssert`). A frame runs a
  parser that can be reached from each frame below it (`Chain`), so a put that binds its name
  is above no put of that name that has called its parser, and the names of those that
  have are free (`Free`). What a parse function may call is read off the node, for a repetition
  off the `HRepeat` it keeps (`LocalOK`); `GrammarsAssumption` is used here.
* `ArenaProofs`: `ArenaType`, `ArenaDisjoint` and `ArenaInBounds`, together
  `ArenaRegions`, `ArenaHead`, `ArenaStats`. A region is disjoint from older ones because those
  end before the fill of the block, and the fill stays in the block because free and used
  of the head add up to its size. `ArenaEachFreedOnce`: a dedicated block goes behind the
  head, so the chain is not in the order in which blocks were made; the invariant says that
  there is a numbering of the blocks from the end of the chain in which each points to the
  one before it (`Ordered`), and that a deletion has freed exactly those above its cursor (`Owning`).
  Assumption: sizes are natural numbers (`ArenaAssumption`), so no wrap of `size_t`.
* `LLkProofs`: `LLkFinishes`. With one byte of lookahead the window is never used,
  because the driver asks for input only at the end of a chunk; so the stream it
  reads at the end is the last chunk, which is marked as such. With two or more
  the statement is false, see below. `LLkNoAbort`, for every lookahead: while the window is
  read, what fits of the chunk is behind its old bytes, which are used up when the
  index is `kmax` (`WinInv`); when input is asked for, what is left is a proper prefix of a
  string in the row, so shorter than `kmax`, and all of the chunk is in it. That one
  result is left at the end is an invariant of the shape of the stack: a frame is a
  mark, its nonterminal and the sequence it interrupts, and the lowest frame
  interrupts the empty one (`Shape`). Assumption (`TablesAssumption`): right sides are sequences of
  symbols, rows map strings of at most `kmax` bytes to productions of their nonterminal.
  `LLkBytesInOrder` (`BytesInOrder`): the bytes that were given and not read (`Unread`), part in the
  window and part in the chunk, are consumed from the front by terminals only and
  extended at the end by calls only; leaving the driver with lookahead saved does not change
  them, and what a lookup sees is all of them or at least `kmax`. Beside `WinInv` this needs the
  content of the window: behind `kmax` are the first bytes of the running chunk (`OrderInv`), so
  that reading on from the chunk, when the old bytes are used up, is where the copy
  left off. This is the part of `ChunksInvisible` that does not depend on a
  recursive reference.
* `LRProofs`: `LRHandleOnTop` and `LRNoAbort`. `h_lrengine_step` pops without a test. If the
  table is sane (`TableSane`: a shift of x leads to a row that knows of x and at most of what
  the row before it knew of; a reduction has a right side that its row knows of; a row with one
  reduction for everything has nothing else; there is no conflict), then the shifts along the
  stack spell what the row of the engine knows of, and so they do from each row saved on the stack
  (`Deep`): the second part is what a reduction needs, which goes back to a saved row. A row
  on the stack was left by a shift, so it has no action for everything, which is what
  `nonterminal_lookup` asserts. Both theorems hold for whatever the grammar does with values.
  `[]TableSane` is their hypothesis, since the construction of a table is recursive; that the
  tables `h_lalr_compile` builds are sane is what `lalr` checks.
* `BitsProofs`: `BitsInBounds`. What is left to read never exceeds the bits
  left (`Reading`), and the bits gone at both ends of a byte never make up the
  byte (`Placed`), also when a change of the bit order exchanges them. What is left to write fits
  in the bytes that are being reserved, and in the buffer once the loop of doublings has
  ended (`Putting`); that it ends is not a part of the statement. `BitsSwitchKeepsBits`: the
  bits that are gone are the same before and after a change of order. `BitsTakesFresh`: the
  bits gone since a read began and those it still has to read are together what it was asked for,
  and once it was asked for too much, they are all that is left (`FInv`). Each round of
  its loops adds one segment of a byte to the bits that are gone, and nothing that was
  gone (`SegmentTaken`); the numbers of bits are cardinalities of these sets.
* `HashTableProofs`: `HashTableIsMap` (refinement of `Map`), `HashTableEqualSets` and the
  invariant both rest on, `HashTableInvariant`. In every chain the used links are in the order
  in which their keys were entered, each key is in one link of its own bucket, and the head
  is empty only if no link of the chain is used (`TablesInv`): that is what lets
  `h_hashtable_put` take an empty head without looking further, and what a deletion that is
  not last in, first out would break. While an array is rehashed, the new one holds
  exactly what the cursor has passed (`Copying`), and the order survives because the
  capacity is a multiple of the old one, so that what meets in a new bucket was together
  in an old one. In an update or a merge the destination holds its old map
  overlaid by what the passed keys were given (`Goal`); when the cursor is at the end this is the
  step of `Map`, and all steps before it show the old map. Equal sets: the
  heads that `hte_same_length` does not look at are used in both chains or in neither.
  Assumption (`HashTableAssumption`): `NULL` is not a key, hash values are natural numbers, a new
  table has a positive capacity.
* `SArrayProofs`: `SArrayIsMap` (refinement of `SparseMap`) and `SArrayInBounds`. The
  invariant says that the places below `used` and the elements listed there point to
  each other; that there is room when an element is not set is a
  pigeonhole argument with cardinalities.
* `RVMProofs`: `RVMQueueInBounds`. Each waiting thread was put there by a fork,
  which marked an instruction that was unmarked: the stack is never longer than
  the set of marked instructions together with the running one. Assumption on programs
  (`ProgramsAssumption`): jumps stay inside and the last instruction accepts. TLC
  evaluates it on every program the modelled compiler makes.
  `RVMShapedNoAbort`: no assertion of `run_trace` or of an action fails in a program
  that has shapes. What an action may
  pop was pushed by instructions far away, in a trace that several forks put together, so
  nothing local says that it is there. A shape (`RVMShapes`) counts the tokens below, between and above
  the marks on the stack, up to two, and says what is known of the top one. A program has
  shapes (`Shaped`) if there is a set of them for each address, the empty stack among those of
  address 0, such that an instruction finds what it asserts in each of them and leads to those of
  the addresses where a thread goes next (a match of an empty range goes
  nowhere, which is why bytes are numbers, `BytesAssumption`). That is the hypothesis of the
  theorem, in its statement (`HasShapes`) and not an assumption on all programs, because
  `h_regex_compile` makes programs that have none. The invariant has two halves. While threads run,
  each trace has a set of shapes before each of its entries, from the empty stack to the
  shapes of the address where its thread is; a fork copies such a trace and a
  jump makes the last set larger. While the trace, inverted, is replayed, the stack fits a shape of the set
  before the next entry: one lemma for each action, with both outcomes of a user's.
  `RVMMarksKept` is the corollary for disciplined parsers, from the assumption that their
  programs have shapes (`ShapesAssumption`). `MCRegex` computes the least such sets, and TLC evaluates the
  assumption on the 1310 disciplined programs of the instance; that every disciplined parser
  compiles to such a program would be an induction over parsers. Twelve undisciplined ones have
  shapes as well: there `h_ignore` takes a token of its neighbour, which no assertion
  notices and `Correct` would.

Each invariant was checked by TLC before it was proved. Only
model-checked: liveness (`Terminates`, `Returns`, `DeletionEnds`), the
comparisons with recursive references (`Correct`, `CacheIsSound`,
`ChunksInvisible`, `Complete`, `Unambiguous`,
`ReadsValue`), what sums up a history (`BitLength`), and everything about `CFGrammar`, `LRTable`, `Desugar`, `GLR`, `RVMProgram` and `PEG`, which
use RECURSIVE operators.

## Disagreements found

Two are runs that TLC must refute.

* `glr_stack`: `demerge` says that there "is enough stack before the merge point"
  (glr.c:106), but its loop counts nodes of the list, two for each symbol, up to a
  number of symbols. For `E -> E + E | d` on `d+d+d+d` a reduction pops beyond the merge
  point: values are missing from the result.
* `regex_choice`: `H_SARRAY_FOREACH_KV_` (internal.h:144) visits the first thread
  twice and the last one never; a choice of two alternatives with a common first
  letter fails on inputs that one of them matches.

Five more have a configuration of their own, `tlc -config <cfg> <module>`:

* `MCPackratStaleNone.cfg MCPackrat`: `h_permutation` (hammer.h:476, "match all parsers
  exactly once in any order") takes what a parser left at an earlier position for an
  empty optional (permutation.c:61) and succeeds although the parser does not match.
* `MCLLkFinish.cfg MCLLk`: `append_win` does not copy `last_chunk`; with k of two or
  more `h_parse_finish` fails its assertion (hammer.c:178).
* `MCLLkFollow.cfg MCLLk`: a follow set computed while another one is in progress is
  memoised unfinished (cfgrammar.c:580); sentences are rejected.
* `MCLRIndirect.cfg MCLR`: `desugar_indirect` opens no choice (indirect.c:24), so the symbol
  that `h_desugar` set aside for it goes to the next choice that is opened. When an
  `h_indirect` is first met inside the parser it is bound to, that is the
  choice of its neighbour: for `E = d | i + i` with `i` bound to `E`, compiled at
  `E`, the `i` stands for `+`. Compiled at `i` the grammar is right.

* `MCRegexMarks.cfg MCRegex`: actions of the regular backend do not find their operands in
  nestings that the backend compiles. `h_ignore` pops the top of the stack even if what it
  ignores left nothing there (ignore.c:33): at the top of a parser its assertion fails, and
  in a sequence it takes the mark of the sequence or the token of a neighbour. `h_left` and
  its kin push a null pointer when the chosen parser has no value (ignoreseq.c:85), and
  the action of a parser around them follows it (`h_svm_count_to_mark`, regex.c:313).

Observed while modelling, without a run of their own:

* packrat.c:65: a rule first met while a recursion grows counts as failed, though
  it was never tried: `x = y b | y a | a`, `y = x | a` rejects sentences.
* packrat.c:103 and 165: an involved rule leaves its left recursion in the cache
  when it returns; a later call meets it although the rule is on no stack, and
  `setupLR` ends at the bottom of the stack instead of at the rule. It marks rules as
  involved that were never met at the position; then two recursions may grow there
  at once, and the inner one removes the entry of the outer one from `recursion_heads`.
* value.c:16, datastructures.c:405: a put inside a put of the same name aborts by
  assertion, where hammer.h:692 promises a parse failure.
* value.c:59: a get that failed is memoised and keeps failing at that position
  after the name is bound (hammer.h:698).
* butnot.c:31 uses `<=` where hammer.h:504 speaks of a longer match; the lengths
  compared are those of forwarded results, which keep the length of the inner
  text (packrat.c:37).
* datastructures.c:304: deletions in an order other than last in, first out leave
  duplicates and bring old values back; datastructures.c:333: an empty set and a
  set with one element are found equal.
* cfgrammar.c:675: with k of two or more, follow sets lose strings that share a
  first byte; hammer.c:150: `bit_length` is too small once a window was used.
* lr.c:258: at the end of the input a shift of the end reads nothing and may be
  repeated; a parser such as `r = end r a` shifts forever, with a growing stack.
* glr.c:70: a respawned engine reads on from the place where it was merged, which is right
  only as long as reductions alone were made since; glr.c:39 compares buffers and not
  places; glr.c:160: the branches of a conflict are taken without a `demerge`;
  glr.c:186: of several engines that succeed in one round the last one wins, so
  `choice(optional(a), sequence(a, E, b))` accepts a prefix of what it could; hidden left
  recursion makes the parse go on without end.
* Regular backend: of several alternatives that match the same text the last one
  wins; `h_int_range` compiles under `h_ignore` only; `h_regex_compile` returns 0,
  which means success, after a `longjmp` (regex.c:374); a predicate that refuses
  rejects the whole parse (attr_bool.c:64).

## What is not modelled

* `h_bind`: parsers made while parsing, in an arena that is freed with them. The
  addresses an allocator uses again are outside the library.
* Bit offsets under the other combinators: `Bits` has `h_bits` in nested
  `h_with_endianness`; the grammars of `Packrat` are byte aligned.
* `collect_geneps` and `h_derives_epsilon` (a shortcut of `h_first`), the `isValidCF` and
  `isValidRegular` entries, which only refuse parsers, and the freeing of grammars and
  tables.
* The token type registry: unsynchronised globals that the library itself uses from
  one thread.
* Allocation failure outside the arena (the code does not test for it in most places).
* Pretty printing, benchmark, glue macros, bindings, tests: no state of their own.

## Plan

Done, in this order: packrat and combinators with their reference; the arena; the
hash table; LL(k) with the table construction; sparse arrays; the regular
backend; the conversion of parsers, LALR and GLR; bits; theorems for each but GLR.

Next:

1. A theorem for `GLR`: `MergedTogether`.
2. `h_bits` under the other combinators of `Packrat`; `h_bind` over an
   allocator that uses addresses again.
