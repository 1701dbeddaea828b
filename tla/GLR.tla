-------------------------------- MODULE GLR --------------------------------
(* The GLR driver of glr.c: engines that fork on a conflict of the table and *)
(* merge when two of them are in the same state.  There is no suspended      *)
(* parser for GLR; h_parse gives it the whole input.                         *)
(*                                                                           *)
(* A merged engine holds the two it was made of, so an engine is a tree.  The *)
(* code updates an ancestor in place; it is held by one engine only, so here *)
(* the new value takes its place.                                            *)
EXTENDS LREngine

CONSTANTS
  Grammars,      \* the grammars, see module LRTable
  TablesOf(_),   \* the tables of a grammar, with conflicts
  Inputs(_)      \* the inputs a grammar is tried on

VARIABLES
  grammar, table, input,   \* constant
  engines, engback,        \* the lists of engines, swapped after each round
  result,                  \* <<>> for NULL
  enough,                  \* no reduction popped more than the stack held (history)
  pc                       \* "run" or "done"

vars == <<grammar, table, input, engines, engback, result, enough, pc>>

Init ==
  /\ grammar \in Grammars
  /\ table \in TablesOf(grammar)
  /\ input \in Inputs(grammar)
  /\ engines = <<h_lrengine_new(Stream(input, 0, TRUE))>> /\ engback = <<>>
  /\ result = <<>> /\ enough = TRUE /\ pc = "run"

-----------------------------------------------------------------------------
(* Engines.  out is what a step has done so far: the engines it stored, the  *)
(* result, and the history.                                                  *)

IsMerged(e) == e.merged # <<>>

\* A mutant: the merged engine keeps a stack.
_lrengine_merge(old, new) == [old EXCEPT !.merged = <<old, new>>]

lrengine_merge(old, new) == [old EXCEPT !.stack = <<>>, !.merged = <<old, new>>]

\* A mutant: the place in the input is not copied.
_fork_engine(e) == [e EXCEPT !.merged = <<>>, !.input = Stream(input, 0, TRUE)]

\* The memory of an arena is zero: the new engine has no ancestors.
fork_engine(e) == [e EXCEPT !.merged = <<>>]

\* The ancestor gets the stack on top of its own; its place in the input is
\* what it was when the engines merged.
respawn(e, stack) == [e EXCEPT !.stack = stack \o @]

\* The end of glr_step: the engine takes its step and is stored, merged with
\* the first that is in the same state.
Store(out, e) ==
  LET same == {k \in DOMAIN out.engines : out.engines[k].state = e.state}
      first == CHOOSE k \in same : \A j \in same : k <= j
  IN IF same = {} THEN [out EXCEPT !.engines = <<e>> \o @]
     ELSE [out EXCEPT !.engines[first] = lrengine_merge(@, e)]

Advance(out, e, action) ==
  LET r == h_lrengine_step(grammar, table, e, action)
      o == [out EXCEPT !.enough = @ /\ (action.type = "REDUCE" => action.length <= Len(e.stack))]
  IN IF r.run THEN Store(o, r.engine)
     ELSE IF r.engine.state = HLR_SUCCESS
     THEN [o EXCEPT !.result = h_lrengine_result(r.engine)]
     ELSE o

\* A mutant: a merged engine goes on by itself.
_demerge(out, e, action, depth) == [out |-> out, engine |-> e]

\* The list of a stack has two nodes for each pair; depth counts nodes here and
\* pairs where the stack is popped.
Nodes(stack) == 2 * Len(stack)

RECURSIVE demerge(_, _, _, _)
demerge(out, e, action, depth) ==
  IF ~IsMerged(e) \/ depth <= Nodes(e.stack) THEN [out |-> out, engine |-> e]
  ELSE LET left == depth - Nodes(e.stack)
           ra == demerge(out, respawn(e.merged[1], e.stack), action, left)
           rb == demerge(ra.out, respawn(e.merged[2], e.stack), action, left)
           again == demerge(rb.out, ra.engine, action, action.length)
       IN [out |-> Advance(again.out, again.engine, action), engine |-> rb.engine]

\* The first branch is for the engine itself, without a demerge.
handle_conflict(out, e, branches) ==
  FoldLeft(LAMBDA o, act : Advance(o, fork_engine(e), act), out, Tail(branches))

glr_step(out, e, action) ==
  IF action.type = "CONFLICT"
  THEN Advance(handle_conflict(out, e, action.branches), e, Head(action.branches))
  ELSE IF action.type = "REDUCE"
  THEN LET d == demerge(out, e, action, action.length) IN Advance(d.out, d.engine, action)
  ELSE Advance(out, e, action)

-----------------------------------------------------------------------------
(* h_glr_parse. *)

\* The next engine of this round.
StepEngine ==
  /\ pc = "run" /\ engines # <<>>
  /\ \E out \in {glr_step([engines |-> engback, result |-> result, enough |-> enough],
                         Head(engines), h_lrengine_action(table, Head(engines)))} :
       engback' = out.engines /\ result' = out.result /\ enough' = out.enough
  /\ engines' = Tail(engines)
  /\ UNCHANGED <<grammar, table, input, pc>>

\* A mutant: the old list is kept.
_Swap ==
  /\ pc = "run" /\ engines = <<>>
  /\ engines' = engback /\ UNCHANGED engback
  /\ pc' = IF result # <<>> \/ engback = <<>> THEN "done" ELSE "run"
  /\ UNCHANGED <<grammar, table, input, result, enough>>

\* The end of the round.
Swap ==
  /\ pc = "run" /\ engines = <<>>
  /\ engines' = engback /\ engback' = <<>>
  /\ pc' = IF result # <<>> \/ engback = <<>> THEN "done" ELSE "run"
  /\ UNCHANGED <<grammar, table, input, result, enough>>

Next == StepEngine \/ Swap

Spec == Init /\ [][Next]_vars /\ WF_vars(Next)

-----------------------------------------------------------------------------
(* Properties. *)

\* The stacks an engine stands for: its own, on top of those of its ancestors.
RECURSIVE Stacks(_)
Stacks(e) ==
  IF ~IsMerged(e) THEN {e.stack}
  ELSE {e.stack \o s : s \in Stacks(e.merged[1]) \cup Stacks(e.merged[2])}

\* Whatever was forked, merged and demerged: each stack an engine stands for
\* holds the states of a path of the automaton that leads to its state.
StackPath ==
  \A k \in DOMAIN engines : \A s \in Stacks(engines[k]) : IsPath(table, engines[k].state, s)

RECURSIVE Streams(_)
Streams(e) ==
  IF ~IsMerged(e) THEN {e.input}
  ELSE Streams(e.merged[1]) \cup Streams(e.merged[2])

\* Engines merge when they are in the same state, and nothing looks at their
\* places in the input: those are the same, too.
MergedTogether == \A k \in DOMAIN engines : Cardinality(Streams(engines[k])) = 1

\* h_glr_parse returns, on every grammar and input given.
Returns == <>(pc = "done")

\* "there is enough stack before the merge point": a reduction does not pop
\* more than the stack of its engine holds.
EnoughStack == enough
=============================================================================
