------------------------------ MODULE LRTable ------------------------------
(* The construction of LR tables: the characteristic automaton and the LR(0) *)
(* table (lr0.c), and the lookahead that LALR adds to inadequate states by   *)
(* "conversion to SLR" (lalr.c).                                             *)
(*                                                                           *)
(* A symbol is a pair of its type and a number: <<"choice", n>>,             *)
(* <<"charset", n>>, <<"char", c>> and <<"end", 0>>, so that h_eq_symbol is  *)
(* equality.  An item set stands for itself; states are numbered as they are *)
(* found.  order lists the symbols in the order hash tables are walked.      *)
EXTENDS Integers, SequencesExt

C == INSTANCE CFGrammar

EndMark == C!EndMark
HLR_SUCCESS == -1     \* ~0

Char(c) == <<"char", c>>
End == <<"end", 0>>
IsChoice(x) == x[1] = "choice"
IsCharset(x) == x[1] = "charset"
IsChar(x) == x[1] = "char"

\* Actions.  An action is the object of its item, which #ifndef NDEBUG holds.
NoAction == [type |-> "NULL"]
h_shift_action(next) == [type |-> "SHIFT", nextstate |-> next]
\* A mutant: one symbol too many.
_h_reduce_action(it) ==
  [type |-> "REDUCE", lhs |-> it.lhs, length |-> Len(it.rhs) + 1, rhs |-> it.rhs]

h_reduce_action(it) ==
  [type |-> "REDUCE", lhs |-> it.lhs, length |-> Len(it.rhs), rhs |-> it.rhs]

\* The newest branch comes first.
h_lr_conflict(action, new) ==
  IF action.type # "CONFLICT"
  THEN [type |-> "CONFLICT", branches |-> <<new, action>>]
  ELSE IF new \in ToSet(action.branches) THEN action
  ELSE [action EXCEPT !.branches = <<new>> \o @]

-----------------------------------------------------------------------------
(* The characteristic automaton. *)

h_lritem_new(lhs, rhs) == [lhs |-> lhs, rhs |-> rhs, mark |-> 0]
AtMarkEnd(it) == it.mark = Len(it.rhs)
AfterMark(it) == it.rhs[it.mark + 1]
advance_mark(it) == [it EXCEPT !.mark = @ + 1]

\* The right sides of a symbol; unlike for LL(k), a charset is a nonterminal.
Productions(g, x) ==
  CASE IsChoice(x) -> ToSet(g.seq[x])
    [] IsCharset(x) -> {<<Char(c)>> : c \in g.charset[x]}
    [] OTHER -> {}

RECURSIVE expand_to_closure(_, _)
expand_to_closure(g, items) ==
  LET next == {AfterMark(it) : it \in {it \in items : ~AtMarkEnd(it)}}
      new == UNION {{h_lritem_new(x, p) : p \in Productions(g, x)} : x \in next}
  IN IF new \subseteq items THEN items ELSE expand_to_closure(g, items \cup new)

\* The states that are reached from those in work, the last found first.
RECURSIVE Explore(_, _, _, _)
Explore(g, order, dfa, work) ==
  LET i == Head(work)
      open == {it \in dfa.states[i + 1] : ~AtMarkEnd(it)}
      neighbor(x) ==
        expand_to_closure(g, {advance_mark(it) : it \in {it \in open : AfterMark(it) = x}})
      index(states, s) == CHOOSE j \in DOMAIN states : states[j] = s
      reach(states, s) == IF s \in ToSet(states) THEN states ELSE Append(states, s)
      add(acc, x, s) ==
        LET states == reach(acc.states, s)
        IN [states |-> states,
            transitions |-> acc.transitions \cup {<<i, x, index(states, s) - 1>>}]
      all == FoldLeft(LAMBDA acc, x : add(acc, x, neighbor(x)), dfa,
                      SelectSeq(order, LAMBDA x : \E it \in open : AfterMark(it) = x))
      found == [k \in 1..Len(all.states) - Len(dfa.states) |-> Len(all.states) - k]
  IN IF work = <<>> THEN dfa ELSE Explore(g, order, all, found \o Tail(work))

h_lr0_dfa(g, order) ==
  LET start == {h_lritem_new(g.start, p) : p \in Productions(g, g.start)}
  IN Explore(g, order, [states |-> <<expand_to_closure(g, start)>>, transitions |-> {}], <<0>>)

-----------------------------------------------------------------------------
(* The LR(0) table.  A row has actions for nonterminals, actions for a       *)
(* lookahead of one byte or the end, and perhaps one for everything.         *)

EmptyRow == [ntmap |-> <<>>, tmap |-> <<>>, forall |-> NoAction]
RowEmpty(row) == DOMAIN row.ntmap = {} /\ DOMAIN row.tmap = {}

put_shift(rows, i, x, next) ==
  CASE x = End -> [rows EXCEPT ![i].tmap = C!SetMemo(@, EndMark, h_shift_action(next))]
    [] IsChar(x) -> [rows EXCEPT ![i].tmap = C!SetMemo(@, x[2], h_shift_action(next))]
    [] OTHER -> [rows EXCEPT ![i].ntmap = C!SetMemo(@, x, h_shift_action(next))]

\* The items of a state that can be reduced, in the order they are met.
Reducible(state, order) ==
  FlattenSeq([k \in DOMAIN order |->
    SetToSeq({it \in state : AtMarkEnd(it) /\ it.lhs = order[k]})])

Forall(state, order) ==
  LET add(action, it) ==
        IF action = NoAction THEN h_reduce_action(it)
        ELSE h_lr_conflict(action, h_reduce_action(it))
  IN FoldLeft(add, NoAction, Reducible(state, order))

\* What is before the largest mark of a state, backwards: these symbols are known
\* to have been shifted last.  (Not in the code; the proofs use it.)
Known(dfa) ==
  LET before(i) == {SubSeq(it.rhs, 1, it.mark) : it \in dfa.states[i + 1]} \cup {<<>>}
  IN [i \in 0..Len(dfa.states) - 1 |->
        Reverse(CHOOSE s \in before(i) : \A r \in before(i) : Len(r) <= Len(s))]

h_lr0_table(g, dfa, order) ==
  LET n == Len(dfa.states)
      empty == put_shift([i \in 0..n - 1 |-> EmptyRow], 0, g.start, HLR_SUCCESS)
      shifts == FoldSet(LAMBDA t, rows : put_shift(rows, t[1], t[2], t[3]),
                        empty, dfa.transitions)
      inadequate(i) ==
        LET r == Reducible(dfa.states[i + 1], order)
        IN Len(r) > 1 \/ (Len(r) = 1 /\ ~RowEmpty(shifts[i]))
  IN [nrows |-> n, start |-> g.start, known |-> Known(dfa),
      rows |-> [i \in 0..n - 1 |->
                  [shifts[i] EXCEPT !.forall = Forall(dfa.states[i + 1], order)]],
      inadeq |-> {i \in 0..n - 1 : inadequate(i)},
      abort |-> FALSE]

-----------------------------------------------------------------------------
(* The enhanced grammar: its symbols are the transitions of the automaton,   *)
(* and the start symbol.                                                     *)

lrtable_lookup(rows, i, x) ==
  LET at(map, key) == IF key \in DOMAIN map THEN map[key] ELSE NoAction
  IN IF x = End THEN at(rows[i].tmap, EndMark)
     ELSE IF IsChar(x) THEN at(rows[i].tmap, x[2])
     ELSE at(rows[i].ntmap, x)

\* A right side, traced from state i along the transitions.
transform_production(rows, i, rhs) ==
  LET step(acc, x) ==
        LET j == lrtable_lookup(rows, acc.at, x).nextstate
        IN [at |-> j, seq |-> Append(acc.seq, <<acc.at, x, j>>)]
  IN FoldLeft(step, [at |-> i, seq |-> <<>>], rhs).seq

enhance_grammar(g, dfa, table) ==
  LET start == <<0, g.start, HLR_SUCCESS>>
      symbols == dfa.transitions \cup {start}
      rhss(t) == [n \in DOMAIN g.seq[t[2]] |->
                    transform_production(table.rows, t[1], g.seq[t[2]][n])]
      bytes(x) == IF IsChar(x) THEN {x[2]} ELSE g.charset[x]
  IN [start |-> start,
      seq |-> [t \in {t \in symbols : IsChoice(t[2])} |-> rhss(t)],
      charset |-> [t \in {t \in symbols : IsChar(t[2]) \/ IsCharset(t[2])} |-> bytes(t[2])],
      ends |-> {t \in symbols : t[2] = End}]

\* The enhanced symbols, in the order hash tables are walked.
EnhancedOrder(eg, order, nrows) ==
  LET symbols == DOMAIN eg.seq \cup DOMAIN eg.charset \cup eg.ends
      at(i, x) == SetToSeq({t \in symbols : t[1] = i /\ t[2] = x})
  IN FlattenSeq([i \in 1..nrows |-> FlattenSeq([k \in DOMAIN order |-> at(i - 1, order[k])])])

-----------------------------------------------------------------------------
(* The LALR table. *)

\* A mutant: an empty right side matches nothing.
_match_production(p, rhs, endstate) ==
  p # <<>> /\ Len(p) = Len(rhs) /\ (\A k \in DOMAIN p : p[k][2] = rhs[k])
  /\ Last(p)[3] = endstate

\* An empty right side ends in every state.
match_production(p, rhs, endstate) ==
  /\ Len(p) = Len(rhs)
  /\ \A k \in DOMAIN p : p[k][2] = rhs[k]
  /\ p # <<>> => Last(p)[3] = endstate

match_any_production(table, eg, lhs, rhs, endstate) ==
  IF IsChoice(lhs[2])
  THEN \E n \in DOMAIN eg.seq[lhs] : match_production(eg.seq[lhs][n], rhs, endstate)
  ELSE /\ rhs[1][2] \in eg.charset[lhs]
       /\ lrtable_lookup(table.rows, lhs[1], rhs[1]) = h_shift_action(endstate)

\* The assertion of follow_transition: the shift that match_charset_production
\* looks up is still there.
FollowsShift(table, lhs, rhs) ==
  IsCharset(lhs[2]) => lrtable_lookup(table.rows, lhs[1], rhs[1]).type = "SHIFT"

\* A mutant: a shift wins over a reduction.
_terminals_put(tmap, fs, action) ==
  [c \in DOMAIN tmap \cup {s[1] : s \in fs} |->
     IF c \notin {s[1] : s \in fs} THEN tmap[c]
     ELSE IF c \notin DOMAIN tmap THEN action
     ELSE IF tmap[c].type = "SHIFT" \/ tmap[c] = action THEN tmap[c]
     ELSE h_lr_conflict(tmap[c], action)]

\* terminals_put: the action goes into the cells of the lookahead fs.
terminals_put(tmap, fs, action) ==
  LET cells == {s[1] : s \in fs}
  IN [c \in DOMAIN tmap \cup cells |->
        IF c \notin cells THEN tmap[c]
        ELSE IF c \in DOMAIN tmap /\ tmap[c] # action THEN h_lr_conflict(tmap[c], action)
        ELSE action]
Clash(tmap, fs, action) ==
  \E s \in fs : terminals_put(tmap, fs, action)[s[1]].type = "CONFLICT"

\* One item that can be reduced in an inadequate state, with the left sides
\* that correspond to its own.
AddLookahead(acc, state, it, eg, egorder) ==
  LET action == h_reduce_action(it)
      put(a, follow) ==
        [a EXCEPT !.memo = follow.memo,
                  !.abort = @ \/ follow.set = {},
                  !.rows[state].tmap = terminals_put(@, follow.set, action),
                  !.inadeq = IF Clash(a.rows[state].tmap, follow.set, action)
                             THEN @ \cup {state} ELSE @]
      one(a, lhs) ==
        IF ~FollowsShift(a, lhs, it.rhs) THEN [a EXCEPT !.abort = TRUE]
        ELSE IF ~match_any_production(a, eg, lhs, it.rhs, state) THEN a
        ELSE put(a, C!h_follow(1, eg, SelectSeq(egorder, LAMBDA t : IsChoice(t[2])), lhs, a.memo))
  IN FoldLeft(one, acc, SelectSeq(egorder, LAMBDA t : t[2] = it.lhs))

\* The table h_lalr_compile leaves behind; the compilation succeeds if no
\* state in it is inadequate, and no assertion failed.
h_lalr_compile(g, order) ==
  LET dfa == h_lr0_dfa(g, order)
      table == h_lr0_table(g, dfa, order)
      eg == enhance_grammar(g, dfa, table)
      egorder == EnhancedOrder(eg, order, table.nrows)
      resolve(acc, i) ==
        FoldLeft(LAMBDA a, it : AddLookahead(a, i, it, eg, egorder),
                 [acc EXCEPT !.rows[i].forall = NoAction],
                 Reducible(dfa.states[i + 1], order))
      begin == [rows |-> table.rows, inadeq |-> {}, abort |-> FALSE, memo |-> <<>>]
      down == [k \in 1..table.nrows |-> table.nrows - k]
      end == FoldLeft(resolve, begin, SelectSeq(down, LAMBDA i : i \in table.inadeq))
  IN IF table.inadeq = {} THEN table
     ELSE [nrows |-> table.nrows, start |-> g.start, known |-> table.known, rows |-> end.rows,
           inadeq |-> end.inadeq, abort |-> end.abort]
=============================================================================
