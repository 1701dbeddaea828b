------------------------------ MODULE CFParsers ------------------------------
(* Graphs of parsers for the LALR and the GLR backend: their conversion to a *)
(* grammar, orders in which the hash tables of the grammar may be walked,    *)
(* and what a parser means.                                                  *)
EXTENDS GrammarNodes, FiniteSets, SequencesExt

D == INSTANCE Desugar
T == INSTANCE LRTable

\* The grammar of a graph, which it keeps as the parser it was made from.
GrammarOf(g) ==
  LET c == D!h_cfgrammar_(D!h_desugar_augmented(g), 1)
  IN [start |-> c.start, seq |-> c.seq, charset |-> c.charset, reshape |-> c.reshape,
      env |-> c.env, graph |-> g]

ReshapeOf(g, x, values) == D!Reshaped(g, x, values)
PredOf(g, x, value) == D!Accepted(g, x, value)
ActionOf(g, x, value) == D!Acted(g, x, value)

Letters == {1, 2}
SymbolsOf(g) ==
  DOMAIN g.seq \cup DOMAIN g.charset \cup {T!Char(c) : c \in Letters} \cup {T!End}
Rank(x) == IF x[1] \in {"choice", "charset"} THEN x[2] + 3 ELSE x[2] + 1
MaxRank(g) == CHOOSE n \in {Rank(x) : x \in SymbolsOf(g)} : \A x \in SymbolsOf(g) : Rank(x) <= n
Up(g) == FlattenSeq([n \in 1..MaxRank(g) |-> SetToSeq({x \in SymbolsOf(g) : Rank(x) = n})])
Orders(g) == {Up(g), Reverse(Up(g))}

a == 1
b == 2
Graph(r, x, y) ==
  [root |-> "i", node |-> [r |-> r, x |-> x, y |-> y, i |-> Indirect("r"), a |-> Ch({a}),
                           b |-> Ch({b}), c |-> Charset({a, b}), e |-> Leaf("epsilon"),
                           end |-> Leaf("end")]]

-----------------------------------------------------------------------------
(* What a parser means: the facts <<p, i, j, v>>, parser p matches the input *)
(* s from i to j with token v.                                               *)

Absent == D!NoToken
Seq_(s) == D!SequenceToken(s)
AddTo(s, v) == IF v = Absent THEN s ELSE Append(s, v)
Skip_(s, v) == s

\* Matches of parser q after those of ms, which are <<i, j, tokens>>.
Then(facts, ms, q, add(_, _)) ==
  UNION {{<<m[1], f[3], add(m[3], f[4])>> : f \in {f \in facts : f[1] = q /\ f[2] = m[2]}} : m \in ms}
All(facts, q) == {<<f[2], f[3], f[4]>> : f \in {f \in facts : f[1] = q}}

NodeFacts(facts, s, n, p) ==
  LET k == n.kind
      at == 0..Len(s)
      empty == {<<i, i, <<>>>> : i \in at}
      mapped(ms, f(_)) == {<<m[1], m[2], f(m[3])>> : m \in ms}
      sub == All(facts, n.sub[1])
      seq(add(_, _)) == FoldLeft(LAMBDA ms, q : Then(facts, ms, q, add), empty, n.sub)
      sep(ms) == FoldLeft(LAMBDA all, q : Then(facts, all, q, Skip_), ms, n.sep)
      sofar == mapped({m \in All(facts, p) : Len(m[3][2]) > 0}, LAMBDA v : v[2])
      blank(i, j) == \A l \in i + 1..j : s[l] \in n.spaces
  IN CASE k \in {"ch", "charset"} ->
            {<<i - 1, i, <<"TT_UINT", s[i]>>>> : i \in {i \in DOMAIN s : s[i] \in n.chars}}
       [] k = "token" ->
            {<<i, i + Len(n.str), <<"TT_BYTES", n.str>>>> :
               i \in {i \in at : i + Len(n.str) \in at /\ SubSeq(s, i + 1, i + Len(n.str)) = n.str}}
       [] k = "end" -> {<<Len(s), Len(s), Absent>>}
       [] k = "epsilon" -> mapped(empty, LAMBDA v : Absent)
       [] k = "nothing" -> {}
       [] k = "sequence" -> mapped(seq(AddTo), Seq_)
       [] k = "choice" -> UNION {All(facts, q) : q \in ToSet(n.sub)}
       [] k = "optional" ->
            mapped(sub, LAMBDA v : IF v = Absent THEN <<"TT_NONE">> ELSE v)
            \cup mapped(empty, LAMBDA v : <<"TT_NONE">>)
       [] k = "action" -> mapped(sub, LAMBDA v : <<n.tag, v>>)
       [] k = "attr_bool" -> {m \in sub : m[3] \in n.accept}
       [] k = "ignore" -> mapped(sub, LAMBDA v : Absent)
       [] k = "ignoreseq" -> mapped(seq(Append), LAMBDA l : l[n.which])
       [] k = "indirect" -> sub
       [] k = "whitespace" ->
            UNION {{<<i, m[2], m[3]>> : i \in {i \in 0..m[1] : blank(i, m[1])}} : m \in sub}
       [] k = "many" ->
            mapped({m \in empty : n.count = 0} \cup Then(facts, empty, n.sub[1], Append)
                   \cup Then(facts, sep(sofar), n.sub[1], Append), Seq_)

\* A parser may have infinitely many matches; of those with the same beginning
\* and end no more are looked for when cap are known.
RECURSIVE Closure(_, _, _, _)
Closure(g, s, cap, facts) ==
  LET known(f) == {h \in facts : h[1] = f[1] /\ h[2] = f[2] /\ h[3] = f[3]}
      all == UNION {{<<p, m[1], m[2], m[3]>> : m \in NodeFacts(facts, s, g.node[p], p)} :
                      p \in DOMAIN g.node}
      new == {f \in all \ facts : Cardinality(known(f)) < cap}
  IN IF new = {} THEN facts ELSE Closure(g, s, cap, facts \cup new)

\* What the whole parser matches at the beginning of s.
Matches(g, s, cap) ==
  {[ast |-> f[4], bit_length |-> 8 * f[3]] :
     f \in {f \in Closure(g, s, cap, {}) : f[1] = g.root /\ f[2] = 0}}
==============================================================================
