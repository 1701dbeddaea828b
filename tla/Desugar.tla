------------------------------ MODULE Desugar ------------------------------
(* From parser combinators to a context-free grammar: h_desugar, the stack   *)
(* of contextfree.h, and the desugar entries of the combinators.             *)
(*                                                                           *)
(* g is a graph of parsers as in module GrammarNodes.  d is the state of the *)
(* conversion: d.symbol[n] is the HCFChoice with number n, d.desugared maps  *)
(* parsers to the symbols they are memoised with, d.stack are the choices    *)
(* begun, the innermost first, and d.prealloc is the symbol the next choice  *)
(* will use, if any.                                                         *)
EXTENDS Integers, SequencesExt

NONE == 0     \* no prealloc

\* A symbol whose type is not set.  reshape, pred and action are functions, by
\* name, with the parser they get as user_data.
Fresh == [type |-> "invalid", seq |-> <<>>, chars |-> {}, reshape |-> "NULL",
          env |-> [kind |-> "NULL"]]

h_cfstack_new == [symbol |-> <<>>, desugared |-> <<>>, stack |-> <<>>, prealloc |-> NONE]

Top(d) == Head(d.stack)

\* The last sequence of the choice on top gets another item.
h_cfstack_add_to_seq(d, item) ==
  [d EXCEPT !.symbol[Top(d)].seq = [@ EXCEPT ![Len(@)] = Append(@, item)]]

\* h_new(HCFChoice, 1).
Preallocated(d) ==
  [d EXCEPT !.symbol = Append(@, Fresh), !.prealloc = Len(d.symbol) + 1]

h_cfstack_new_choice_raw(d, sym) ==
  LET p == IF d.prealloc = NONE THEN Preallocated(d) ELSE d
      n == p.prealloc
      e == [p EXCEPT !.prealloc = NONE, !.symbol[n] = sym]
  IN [d |-> IF e.stack = <<>> THEN e ELSE h_cfstack_add_to_seq(e, n), symbol |-> n]

h_cfstack_add_char(d, c) ==
  h_cfstack_new_choice_raw(d, [Fresh EXCEPT !.type = "char", !.chars = {c}]).d
h_cfstack_add_charset(d, S) ==
  h_cfstack_new_choice_raw(d, [Fresh EXCEPT !.type = "charset", !.chars = S]).d
h_cfstack_add_end(d) ==
  h_cfstack_new_choice_raw(d, [Fresh EXCEPT !.type = "end"]).d

h_cfstack_begin_choice(d) ==
  LET r == h_cfstack_new_choice_raw(d, [Fresh EXCEPT !.type = "choice"])
  IN [r.d EXCEPT !.stack = <<r.symbol>> \o @]
h_cfstack_begin_seq(d) == [d EXCEPT !.symbol[Top(d)].seq = Append(@, <<>>)]

\* What the entries set in the choice before they end it.
h_cfstack_end_choice(d, reshape, env) ==
  [d EXCEPT !.symbol[Top(d)].reshape = reshape, !.symbol[Top(d)].env = env,
            !.stack = Tail(@)]

-----------------------------------------------------------------------------
(* The entries of the combinators. *)

RECURSIVE h_desugar(_, _, _)

\* The parsers ps, one after the other, in the current sequence.
InSeq(g, d, ps) == FoldLeft(LAMBDA e, q : h_desugar(g, e, q), d, ps)

\* A choice with one sequence for each member of alts.
ChoiceOf(g, d, alts, reshape, env) ==
  h_cfstack_end_choice(
    FoldLeft(LAMBDA e, ps : InSeq(g, h_cfstack_begin_seq(e), ps),
             h_cfstack_begin_choice(d), alts),
    reshape, env)

desugar_ch(d, n) == h_cfstack_add_char(d, CHOOSE c \in n.chars : TRUE)
desugar_charset(d, n) == h_cfstack_add_charset(d, n.chars)
desugar_end(d) == h_cfstack_add_end(d)

\* One empty sequence, and none.
desugar_epsilon(g, d, n) == ChoiceOf(g, d, <<<<>>>>, "h_act_ignore", n)
desugar_nothing(g, d, n) == ChoiceOf(g, d, <<>>, "NULL", n)

desugar_sequence(g, d, n) == ChoiceOf(g, d, <<n.sub>>, "reshape_sequence", n)
desugar_choice(g, d, n) ==
  ChoiceOf(g, d, [i \in DOMAIN n.sub |-> <<n.sub[i]>>], "h_act_first", n)
desugar_optional(g, d, n) == ChoiceOf(g, d, <<n.sub, <<>>>>, "reshape_optional", n)
desugar_action(g, d, n) == ChoiceOf(g, d, <<n.sub>>, "h_act_first", n)
desugar_ab(g, d, n) == ChoiceOf(g, d, <<n.sub>>, "h_act_first", n)
desugar_ignore(g, d, n) == ChoiceOf(g, d, <<n.sub>>, "h_act_ignore", n)

desugar_ignoreseq(g, d, n) ==
  ChoiceOf(g, d, <<n.sub>>,
           CASE n.which = 1 -> "h_act_first"
             [] n.which = 2 -> "h_act_second"
             [] OTHER -> "h_act_last", n)

desugar_token(d, n) ==
  LET seq == h_cfstack_begin_seq(h_cfstack_begin_choice(d))
  IN h_cfstack_end_choice(FoldLeft(h_cfstack_add_char, seq, n.str), "reshape_token", n)

\* Ma -> A Mar | empty (unless there must be one); Mar -> Sep A Mar | empty.
desugar_many(g, d, n) ==
  LET ma == InSeq(g, h_cfstack_begin_seq(h_cfstack_begin_choice(d)), n.sub)
      mar == InSeq(g, h_cfstack_begin_seq(h_cfstack_begin_choice(ma)), n.sep \o n.sub)
      again == h_cfstack_begin_seq(h_cfstack_add_to_seq(mar, Top(mar)))
      rest == h_cfstack_end_choice(again, "NULL", Fresh.env)
  IN h_cfstack_end_choice(IF n.count = 0 THEN h_cfstack_begin_seq(rest) ELSE rest,
                          "reshape_many", n)

\* Ws -> Spaces A; Spaces -> space Spaces | empty.
desugar_whitespace(g, d, n) ==
  LET ws == h_cfstack_begin_seq(h_cfstack_begin_choice(d))
      space == h_cfstack_add_charset(h_cfstack_begin_seq(h_cfstack_begin_choice(ws)), n.spaces)
      spaces == h_cfstack_begin_seq(h_cfstack_add_to_seq(space, Top(space)))
  IN h_cfstack_end_choice(
       InSeq(g, h_cfstack_end_choice(spaces, "NULL", Fresh.env), n.sub), "h_act_last", n)

\* The inner parser takes the symbol that was meant for this one.
desugar_indirect(g, d, n) == h_desugar(g, d, n.sub[1])

\* parser->vtable->desugar.
Desugared(g, d, n) ==
  CASE n.kind = "ch" -> desugar_ch(d, n)
    [] n.kind = "charset" -> desugar_charset(d, n)
    [] n.kind = "end" -> desugar_end(d)
    [] n.kind = "epsilon" -> desugar_epsilon(g, d, n)
    [] n.kind = "nothing" -> desugar_nothing(g, d, n)
    [] n.kind = "sequence" -> desugar_sequence(g, d, n)
    [] n.kind = "choice" -> desugar_choice(g, d, n)
    [] n.kind = "optional" -> desugar_optional(g, d, n)
    [] n.kind = "action" -> desugar_action(g, d, n)
    [] n.kind = "attr_bool" -> desugar_ab(g, d, n)
    [] n.kind = "ignore" -> desugar_ignore(g, d, n)
    [] n.kind = "ignoreseq" -> desugar_ignoreseq(g, d, n)
    [] n.kind = "token" -> desugar_token(d, n)
    [] n.kind = "many" -> desugar_many(g, d, n)
    [] n.kind = "whitespace" -> desugar_whitespace(g, d, n)
    [] n.kind = "indirect" -> desugar_indirect(g, d, n)

\* A parser is memoised before it is converted, so that it may refer to itself.
h_desugar(g, d, p) ==
  IF p \in DOMAIN d.desugared THEN h_cfstack_add_to_seq(d, d.desugared[p])
  ELSE LET e == IF d.prealloc = NONE THEN Preallocated(d) ELSE d
           memo == [q \in DOMAIN e.desugared \cup {p} |->
                      IF q = p THEN e.prealloc ELSE e.desugared[q]]
       IN Desugared(g, [e EXCEPT !.desugared = memo], g.node[p])

\* A fresh start symbol, which occurs in no production.
h_desugar_augmented(g) ==
  ChoiceOf(g, Preallocated(h_cfstack_new), <<<<g.root>>>>, "h_act_first", [kind |-> "NULL"])

-----------------------------------------------------------------------------
(* The grammar: h_cfgrammar_. *)

\* A symbol as module LRTable names it.
Name(d, n) ==
  LET s == d.symbol[n]
  IN CASE s.type = "char" -> <<"char", CHOOSE c \in s.chars : TRUE>>
       [] s.type = "end" -> <<"end", 0>>
       [] OTHER -> <<s.type, n>>

RECURSIVE collect_nts(_, _)
collect_nts(d, seen) ==
  LET items == UNION {UNION {ToSet(p) : p \in ToSet(d.symbol[n].seq)} : n \in seen}
  IN IF items \subseteq seen THEN seen ELSE collect_nts(d, seen \cup items)

\* The grammar with start symbol number n.
h_cfgrammar_(d, start) ==
  LET seen == collect_nts(d, {start})
      named(type) == {n \in seen : d.symbol[n].type = type}
      number(x) == x[2]
      rhss(n) == [i \in DOMAIN d.symbol[n].seq |->
                    [j \in DOMAIN d.symbol[n].seq[i] |-> Name(d, d.symbol[n].seq[i][j])]]
  IN [start |-> Name(d, start),
      seq |-> [x \in {Name(d, n) : n \in named("choice")} |-> rhss(number(x))],
      charset |-> [x \in {Name(d, n) : n \in named("charset")} |-> d.symbol[number(x)].chars],
      reshape |-> [x \in {Name(d, n) : n \in named("choice")} |-> d.symbol[number(x)].reshape],
      env |-> [x \in {Name(d, n) : n \in named("choice")} |-> d.symbol[number(x)].env]]

-----------------------------------------------------------------------------
(* The functions the symbols of a grammar refer to.  Tokens are as in module *)
(* LREngine.                                                                 *)

NoToken == <<"NULL">>
SequenceToken(s) == <<"TT_SEQUENCE", s>>

Present(v) == v # NoToken

h_act_ignore(values) == NoToken
h_act_first(values) == values[1]
h_act_second(values) == values[2]
h_act_last(values) == Last(values)

\* Ignored values are left out.
reshape_sequence(values) == SequenceToken(SelectSeq(values, Present))
reshape_optional(values) ==
  IF values # <<>> /\ Present(values[1]) THEN values[1] ELSE <<"TT_NONE">>
reshape_token(values) == <<"TT_BYTES", [i \in DOMAIN values |-> values[i][2]]>>

\* (_ x (_ y (_ z ()))) becomes (x y z).
RECURSIVE Flat(_)
Flat(values) ==
  IF values = <<>> THEN <<>> ELSE <<values[Len(values) - 1]>> \o Flat(Last(values)[2])
reshape_many(values) == SequenceToken(Flat(values))

\* symbol->reshape; a charset is reduced to its only value.
Reshaped(g, x, values) ==
  LET f == IF x[1] = "charset" THEN "h_act_first" ELSE g.reshape[x]
  IN CASE f = "NULL" -> SequenceToken(values)
       [] f = "h_act_ignore" -> h_act_ignore(values)
       [] f = "h_act_first" -> h_act_first(values)
       [] f = "h_act_second" -> h_act_second(values)
       [] f = "h_act_last" -> h_act_last(values)
       [] f = "reshape_sequence" -> reshape_sequence(values)
       [] f = "reshape_optional" -> reshape_optional(values)
       [] f = "reshape_token" -> reshape_token(values)
       [] f = "reshape_many" -> reshape_many(values)

\* symbol->pred and symbol->action, with the user_data they are given.
Env(g, x) == IF x[1] = "charset" THEN Fresh.env ELSE g.env[x]
Accepted(g, x, value) == Env(g, x).kind = "attr_bool" => value \in Env(g, x).accept
Acted(g, x, value) ==
  IF Env(g, x).kind = "action" THEN <<Env(g, x).tag, value>> ELSE value
=============================================================================
