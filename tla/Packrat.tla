------------------------------ MODULE Packrat ------------------------------
(***************************************************************************)
(* The packrat backend, src/backends/packrat.c: h_do_parse with its cache  *)
(* and the handling of left recursion (recall, setupLR, grow, lr_answer).  *)
(*                                                                         *)
(* The C recursion h_do_parse -> perform_lowlevel_parse -> vtable->parse   *)
(* -> h_do_parse is the stack of module Combinators.  A frame is one       *)
(* activation of perform_lowlevel_parse on parser p at position pos, and   *)
(* how says what runs when it returns: the rest of h_do_parse for a        *)
(* primitive ("prim") or for a rule that was not in the cache ("base"),    *)
(* the rest of recall for a rule of the eval set ("eval"), or the rest of  *)
(* grow ("grow").  Cache values, left recursions and recursion heads are   *)
(* shared by pointer and changed in place: they are heap objects too.      *)
(* The order of the rules in an involved or eval set matters to nothing,   *)
(* so these lists are sets.                                                *)
(***************************************************************************)
EXTENDS Combinators

VARIABLES
  cache,            \* state->cache: <<position, parser>> -> address of a cell
  recursion_heads,  \* state->recursion_heads: position -> address of a head
  lr_stack,         \* state->lr_stack, its top last
  cells,            \* HParserCacheValue: type, left or right, input_stream
  lrs,              \* HLeftRec: seed, rule, head
  heads,            \* HRecursionHead: head_parser, involved_set, eval_set
  strayed           \* setupLR has marked a rule at another position (history)

tables == <<cache, recursion_heads, lr_stack>>
objects == <<cells, lrs, heads>>
memo_vars == <<tables, objects, strayed>>
vars == <<grammar, input, pc, arg, ret, input_stream, frame_vars, symbol_table,
          results, next, memo_vars>>

Start == [index |-> 0, overrun |-> FALSE]

\* h_packrat_parse: a fresh parse state, and h_do_parse on the root.
Init ==
  /\ grammar \in Grammars
  /\ input \in Inputs(grammar)
  /\ pc = "call"
  /\ arg = grammar.root
  /\ ret = NULL
  /\ input_stream = Start
  /\ stack = <<>> /\ locals = <<>> /\ lr_stack = <<>>
  /\ cache = <<>> /\ recursion_heads = <<>> /\ symbol_table = <<>>
  /\ cells = <<>> /\ results = <<>> /\ lrs = <<>> /\ heads = <<>>
  /\ next = 1 /\ strayed = FALSE

-----------------------------------------------------------------------------
(* Helpers. *)

Key(p) == <<input_stream, p>>

cached_result(r, s) == [type |-> "PC_RIGHT", left |-> NULL, right |-> r,
                        input_stream |-> s]
cached_lr(lr, s) == [type |-> "PC_LEFT", left |-> lr, right |-> NULL,
                     input_stream |-> s]

\* The cache holds a result for the key, and not a left recursion.
IsResult(k) == k \in DOMAIN cache /\ cells[cache[k]].type = "PC_RIGHT"

pos_lt(s, t) == s.index < t.index

Frame(p, how, lr, head, old, old_res) ==
  [p |-> p, pos |-> input_stream, how |-> how, lr |-> lr, head |-> head,
   old |-> old, old_res |-> old_res]

\* perform_lowlevel_parse calls vtable->parse in a new activation.
Enter(frame) ==
  /\ stack' = Append(stack, frame)
  /\ locals' = Append(locals, NewLocals)
  /\ pc' = "run"

\* An activation is over, and the call of h_do_parse it belongs to with it.
Leave(r, s) ==
  /\ stack' = SubSeq(stack, 1, Len(stack) - 1)
  /\ locals' = SubSeq(locals, 1, Len(locals) - 1)
  /\ pc' = IF Len(stack) = 1 THEN "done" ELSE "run"
  /\ ret' = r
  /\ input_stream' = s
  /\ UNCHANGED arg

-----------------------------------------------------------------------------
(* h_do_parse up to the call of perform_lowlevel_parse. *)

\* A primitive is run without a look at the cache.
CallPrimitive ==
  /\ pc = "call"
  /\ ~higher(arg)
  /\ Enter(Frame(arg, "prim", NULL, NULL, NULL, NULL))
  /\ UNCHANGED <<grammar, input, arg, ret, input_stream, symbol_table, results,
                 next, memo_vars>>

\* The recursion being grown at this position, if any, and what recall finds
\* in the cache.
HeadHere == Get(recursion_heads, input_stream)

\* Mutant: the cache is not used while a recursion grows.
Cached_NotGrowing(p) == IF HeadHere # NULL THEN NULL ELSE Get(cache, Key(p))

Cached(p) == Get(cache, Key(p))

Involved(p, h) == p = heads[h].head_parser \/ p \in heads[h].involved_set

\* While a recursion grows, its involved rules are evaluated once a round.
InEvalSet(p) == HeadHere # NULL /\ p \in heads[HeadHere].eval_set

\* recall found nothing: h_do_parse caches a left recursion and parses.
CallMiss ==
  /\ pc = "call"
  /\ higher(arg)
  /\ Cached(arg) = NULL
  /\ ~InEvalSet(arg)
  /\ HeadHere # NULL => Involved(arg, HeadHere)
  /\ lrs' = Bind(lrs, next, [seed |-> NULL, rule |-> arg, head |-> NULL])
  /\ lr_stack' = Append(lr_stack, next)
  /\ cells' = Bind(cells, next + 1, cached_lr(next, input_stream))
  /\ cache' = Bind(cache, Key(arg), next + 1)
  /\ next' = next + 2
  /\ Enter(Frame(arg, "base", next, NULL, NULL, NULL))
  /\ UNCHANGED <<grammar, input, arg, ret, input_stream, symbol_table, results,
                 recursion_heads, heads, strayed>>

\* recall answers for a rule that takes no part in the growing recursion and
\* was not met before it: a failure, which is not cached.
CallUninvolved ==
  /\ pc = "call"
  /\ higher(arg)
  /\ HeadHere # NULL
  /\ Cached(arg) = NULL
  /\ ~InEvalSet(arg)
  /\ ~Involved(arg, HeadHere)
  /\ pc' = "run"
  /\ ret' = NULL
  /\ UNCHANGED <<grammar, input, arg, input_stream, frame_vars, symbol_table,
                 results, next, memo_vars>>

\* recall evaluates a rule of the eval set again.
CallEval ==
  /\ pc = "call"
  /\ higher(arg)
  /\ InEvalSet(arg)
  /\ heads' = [heads EXCEPT ![HeadHere].eval_set = @ \ {arg}]
  /\ Enter(Frame(arg, "eval", NULL, NULL, Cached(arg), NULL))
  /\ UNCHANGED <<grammar, input, arg, ret, input_stream, symbol_table, results,
                 next, tables, cells, lrs, strayed>>

\* recall found a result.
CallHit ==
  /\ pc = "call"
  /\ higher(arg)
  /\ Cached(arg) # NULL
  /\ ~InEvalSet(arg)
  /\ cells[Cached(arg)].type = "PC_RIGHT"
  /\ pc' = "run"
  /\ ret' = cells[Cached(arg)].right
  /\ input_stream' = cells[Cached(arg)].input_stream
  /\ UNCHANGED <<grammar, input, arg, frame_vars, symbol_table, results, next,
                 memo_vars>>

\* The rules that are running and were not in the cache.
BaseFrames == {n \in DOMAIN stack : stack[n].how = "base"}

setupLR_visits_None(p) == {}   \* mutant: no rule becomes involved

\* setupLR visits the left recursions on the stack from the top, until it
\* meets p: the indices above the topmost entry for p, or all of them.
setupLR_visits(p) ==
  {j \in DOMAIN lr_stack :
     \A k \in j .. Len(lr_stack) : lrs[lr_stack[k]].rule # p}

\* recall found a left recursion: p called itself without reading anything.
\* setupLR gives every rule it visits the head of that recursion.
CallLeftRecursion ==
  /\ pc = "call"
  /\ higher(arg)
  /\ Cached(arg) # NULL
  /\ ~InEvalSet(arg)
  /\ cells[Cached(arg)].type = "PC_LEFT"
  /\ LET rec == cells[Cached(arg)].left
         new == lrs[rec].head = NULL
         h == IF new THEN next ELSE lrs[rec].head
         visited == {lr_stack[j] : j \in setupLR_visits(arg)}
         rules == {lrs[l].rule : l \in visited}
         fresh == [head_parser |-> arg, involved_set |-> {}, eval_set |-> {}]
         old == IF new THEN fresh ELSE heads[h]
     IN /\ heads' = Bind(heads, h, [old EXCEPT !.involved_set = @ \cup rules])
        /\ lrs' = [l \in DOMAIN lrs |->
                     IF l \in visited \cup {rec}
                       THEN [lrs[l] EXCEPT !.head = h]
                       ELSE lrs[l]]
        /\ next' = IF new THEN next + 1 ELSE next
        /\ ret' = lrs[rec].seed
        /\ strayed' = (strayed \/ \E n \in BaseFrames : /\ stack[n].lr \in visited
                                                       /\ stack[n].pos # input_stream)
  /\ pc' = "run"
  /\ input_stream' = cells[Cached(arg)].input_stream
  /\ UNCHANGED <<grammar, input, arg, frame_vars, symbol_table, results,
                 tables, cells>>

-----------------------------------------------------------------------------
(* The rest of perform_lowlevel_parse and of its caller. *)

Outcome_Overrun == ret   \* mutant: a match beyond the end counts

\* The value perform_lowlevel_parse returns: overrun is always failure.
Outcome == IF input_stream.overrun THEN NULL ELSE ret

\* It fills in the length of a result that has none yet.
SetBitLength ==
  results' =
    IF ret = NULL THEN results
    ELSE IF input_stream.overrun
      THEN [results EXCEPT ![ret].bit_length = 0]
      ELSE IF results[ret].bit_length = 0
        THEN [results EXCEPT
                ![ret].bit_length = 8 * (input_stream.index - Top.pos.index)]
        ELSE results

TopKey == <<Top.pos, Top.p>>

\* h_do_parse caches what a primitive returned.
ReturnPrimitive ==
  /\ pc = "return"
  /\ Top.how = "prim"
  /\ SetBitLength
  /\ cells' = Bind(cells, next, cached_result(Outcome, input_stream))
  /\ cache' = Bind(cache, TopKey, next)
  /\ next' = next + 1
  /\ Leave(Outcome, input_stream)
  /\ UNCHANGED <<grammar, input, symbol_table, recursion_heads, lr_stack, lrs,
                 heads, strayed>>

\* recall updates the cache with the new answer of a rule of the eval set,
\* in place when there was one.
ReturnEval ==
  /\ pc = "return"
  /\ Top.how = "eval"
  /\ SetBitLength
  /\ LET value == cached_result(Outcome, input_stream) IN
     \/ /\ Top.old = NULL
        /\ cells' = Bind(cells, next, value)
        /\ cache' = Bind(cache, TopKey, next)
        /\ next' = next + 1
     \/ /\ Top.old # NULL
        /\ cells' = [cells EXCEPT ![Top.old] = value]
        /\ UNCHANGED <<cache, next>>
  /\ Leave(Outcome, input_stream)
  /\ UNCHANGED <<grammar, input, symbol_table, recursion_heads, lr_stack, lrs,
                 heads, strayed>>

\* The cells after h_do_parse has moved the cached left recursion to the
\* position reached.
MovedCells == [cells EXCEPT ![cache[TopKey]].input_stream = input_stream]

\* Mutant: the left recursion of a rule that failed stays on the stack.
PopLR_OnSuccess == IF ret = NULL THEN lr_stack
                   ELSE SubSeq(lr_stack, 1, Len(lr_stack) - 1)

PopLR == SubSeq(lr_stack, 1, Len(lr_stack) - 1)

BaseReturns(kind) ==
  /\ pc = "return"
  /\ Top.how = "base"
  /\ TopKey \in DOMAIN cache   \* assert(cached != NULL)
  /\ kind = CASE lrs[Top.lr].head = NULL -> "plain"
              [] heads[lrs[Top.lr].head].head_parser # Top.p -> "involved"
              [] OTHER -> "head"
  /\ SetBitLength
  /\ lr_stack' = PopLR
  /\ UNCHANGED <<grammar, input, symbol_table, strayed>>

\* No left recursion met the rule: its result is cached.
ReturnPlain ==
  /\ BaseReturns("plain")
  /\ cells' = Bind(MovedCells, next, cached_result(Outcome, input_stream))
  /\ cache' = Bind(cache, TopKey, next)
  /\ next' = next + 1
  /\ Leave(Outcome, input_stream)
  /\ UNCHANGED <<recursion_heads, lrs, heads>>

\* lr_answer for a rule inside the recursion of another one: it only keeps its
\* seed.
ReturnInvolved ==
  /\ BaseReturns("involved")
  /\ cells' = MovedCells
  /\ lrs' = [lrs EXCEPT ![Top.lr].seed = Outcome]
  /\ Leave(Outcome, input_stream)
  /\ UNCHANGED <<next, cache, recursion_heads, heads>>

\* The rules to evaluate again in a round.
EvalSet(h) == heads[h].involved_set

\* grow: the recursion head is entered at the position, the input rewound,
\* and the involved rules are to be evaluated again.  old is the cell just
\* cached for the rule.
Grow(head, old, old_res) ==
  /\ recursion_heads' = Bind(recursion_heads, Top.pos, head)
  /\ heads' = [heads EXCEPT ![head].eval_set = EvalSet(head)]
  /\ input_stream' = Top.pos
  /\ stack' = [stack EXCEPT ![Len(stack)] =
                 [p |-> Top.p, pos |-> Top.pos, how |-> "grow", lr |-> Top.lr,
                  head |-> head, old |-> old, old_res |-> old_res]]
  /\ locals' = [locals EXCEPT ![Len(locals)] =
                  [NewLocals EXCEPT !.bak = Top.pos, !.after = Top.pos]]
  /\ pc' = "run"
  /\ UNCHANGED <<arg, ret>>

\* Mutant: the seed is grown without being cached.
ReturnHead_NotCached ==
  /\ BaseReturns("head")
  /\ cells' = Bind(MovedCells, next, cached_result(Outcome, input_stream))
  /\ lrs' = [lrs EXCEPT ![Top.lr].seed = Outcome]
  /\ next' = next + 1
  /\ UNCHANGED cache
  /\ \/ /\ Outcome = NULL
        /\ Leave(NULL, input_stream)
        /\ UNCHANGED <<recursion_heads, heads>>
     \/ /\ Outcome # NULL
        /\ Grow(lrs[Top.lr].head, next, Outcome)

\* lr_answer for the head of the recursion: the seed is cached and grown.
ReturnHead ==
  /\ BaseReturns("head")
  /\ cells' = Bind(MovedCells, next, cached_result(Outcome, input_stream))
  /\ cache' = Bind(cache, TopKey, next)
  /\ lrs' = [lrs EXCEPT ![Top.lr].seed = Outcome]
  /\ next' = next + 1
  /\ \/ /\ Outcome = NULL
        /\ Leave(NULL, input_stream)
        /\ UNCHANGED <<recursion_heads, heads>>
     \/ /\ Outcome # NULL
        /\ Grow(lrs[Top.lr].head, next, Outcome)

Grows == Outcome # NULL /\ pos_lt(cells[Top.old].input_stream, input_stream)

\* The round read further than the one before it: cache that and go on.
GrowAgain ==
  /\ pc = "return"
  /\ Top.how = "grow"
  /\ Grows
  /\ SetBitLength
  /\ cells' = Bind(cells, next, cached_result(Outcome, input_stream))
  /\ cache' = Bind(cache, TopKey, next)
  /\ next' = next + 1
  /\ Grow(Top.head, next, Outcome)
  /\ UNCHANGED <<grammar, input, symbol_table, lr_stack, lrs, strayed>>

\* Mutant: the head is only removed when the last round failed.
WithoutHead_OnFailure ==
  IF Outcome # NULL THEN recursion_heads
  ELSE [s \in DOMAIN recursion_heads \ {Top.pos} |-> recursion_heads[s]]

WithoutHead ==
  [s \in DOMAIN recursion_heads \ {Top.pos} |-> recursion_heads[s]]

\* It did not: growing is over and the answer is the one before it.  A match
\* that is no longer takes it from the cache, where it has to be a result or
\* the program stops ("impossible match"); a failure takes it from the local
\* variables.
GrowEnds ==
  /\ pc = "return"
  /\ Top.how = "grow"
  /\ ~Grows
  /\ SetBitLength
  /\ recursion_heads' = WithoutHead
  /\ \/ /\ Outcome = NULL
        /\ Leave(Top.old_res, cells[Top.old].input_stream)
     \/ /\ Outcome # NULL
        /\ IsResult(TopKey)
        /\ LET c == cells[cache[TopKey]] IN Leave(c.right, c.input_stream)
  /\ UNCHANGED <<grammar, input, symbol_table, next, cache, lr_stack, objects, strayed>>

-----------------------------------------------------------------------------

HDoParse ==
  \/ CallPrimitive \/ CallMiss \/ CallUninvolved \/ CallEval \/ CallHit
  \/ CallLeftRecursion
  \/ ReturnPrimitive \/ ReturnEval \/ ReturnPlain
  \/ ReturnInvolved \/ ReturnHead \/ GrowAgain \/ GrowEnds

\* The parse is over.
Halted ==
  /\ pc = "done"
  /\ UNCHANGED vars

Next ==
  \/ Parse /\ UNCHANGED memo_vars
  \/ HDoParse
  \/ Halted

\* The parser is a sequential program: as long as it can take a step it does.
Spec == Init /\ [][Next]_vars /\ WF_vars(Next)

-----------------------------------------------------------------------------
(* Properties. *)

\* The tests of the packrat backend that end the program never do:
\* assert(cached != NULL) after h_do_parse has run a rule, and errx("impossible
\* match") when grow takes its answer back from the cache.
CachedAssert ==
  pc = "return" /\ Top.how = "base" => TopKey \in DOMAIN cache

ImpossibleMatch ==
  pc = "return" /\ Top.how = "grow" => IsResult(TopKey)

NoAbort == CachedAssert /\ ImpossibleMatch

\* The parsers a parse function may call, and those that may run below it.
Children(n) == {n.sub[j] : j \in DOMAIN n.sub}
               \cup (IF n.kind = "many" THEN {n.sep[j] : j \in DOMAIN n.sep} ELSE {})

Reaches(g, p, q) ==
  \A D \in SUBSET DOMAIN g.node :
    /\ Children(g.node[p]) \subseteq D
    /\ \A d \in D : Children(g.node[d]) \subseteq D
    => q \in D

\* No put is inside another one of its name, or inside itself.
Unnested(g) ==
  \A p, q \in DOMAIN g.node :
    g.node[p].kind = "put" /\ g.node[q].kind = "put" /\ Reaches(g, p, q)
      => g.node[p].name # g.node[q].name

\* Nor does the assertion of h_symbol_put that the name is still free, unless
\* puts are nested: h_put_value looks for the name before it runs the inner
\* parser, and binds it afterwards.
SymbolAssert ==
  pc = "run" /\ Env.kind = "put" /\ ChildMatched /\ Unnested(grammar) =>
    Env.name \notin DOMAIN symbol_table

\* The left recursions on lr_stack are those of the rules that are running
\* and were not in the cache, innermost on top: h_do_parse pops the entry it
\* pushed, whatever its parser did in between.
LRStackMatches ==
  /\ {lr_stack[j] : j \in DOMAIN lr_stack} = {stack[n].lr : n \in BaseFrames}
  /\ \A i, j \in DOMAIN lr_stack : i < j => lr_stack[i] < lr_stack[j]
  /\ \A m, n \in BaseFrames : m < n => stack[m].lr < stack[n].lr

\* recursion_heads has an entry for every recursion that is growing, and no
\* other: at most one recursion grows at a position, and its entry is gone
\* when it ends.  setupLR has to have marked rules at its own position only: it
\* goes down the whole stack when the rule it looks for has returned already,
\* and then takes rules for involved that were never met at that position.
GrowFrames == {n \in DOMAIN stack : stack[n].how = "grow"}

HeadsAreGrowing ==
  ~strayed =>
    /\ DOMAIN recursion_heads = {stack[n].pos : n \in GrowFrames}
    /\ \A n \in GrowFrames : recursion_heads[stack[n].pos] = stack[n].head
    /\ \A m, n \in GrowFrames : stack[m].pos = stack[n].pos => m = n

\* The cache never forgets a key, and a result in it is never replaced by a
\* left recursion: what has been parsed once is not parsed again.
ResultsStay ==
  [][\A k \in DOMAIN cache :
       k \in DOMAIN cache' /\ (IsResult(k) => IsResult(k)')]_vars

\* Every parse comes to an end.
Terminates == <>(pc = "done")
=============================================================================
