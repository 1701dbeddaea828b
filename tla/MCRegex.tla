------------------------------- MODULE MCRegex ------------------------------
(* Grammars to check the regular expression backend with, from their code in *)
(* module RVMProgram to the machines of module RVM, and what they match.     *)
EXTENDS RVMShapes, GrammarNodes

P == INSTANCE RVMProgram

CONSTANT Grammars

-----------------------------------------------------------------------------
(* Which parsers the actions of the machine can be nested in.                *)

\* What the code of a parser may leave on the stack: a token, nothing, or a null token.
RECURSIVE Leaves(_, _)
Leaves(g, p) ==
  LET n == g.node[p]
  IN CASE n.kind \in {"ch", "charset", "token", "bits", "sequence", "many", "optional", "int_range"} ->
            {"token"}
       [] n.kind \in {"end", "epsilon", "nothing", "ignore"} -> {"none"}
       [] n.kind = "action" -> {"token"} \cup {"none" : v \in n.nulls}
       [] n.kind \in {"choice", "whitespace", "attr_bool"} ->
            UNION {Leaves(g, q) : q \in Range(n.sub)}
       [] n.kind = "ignoreseq" ->
            {IF l = "none" THEN "null" ELSE l : l \in Leaves(g, n.sub[n.which])}

\* What a parser copes with from those inside it.
Takes(n) ==
  CASE n.kind = "ignore" -> {"token", "null"}
    [] n.kind = "int_range" -> {"token"}
    [] n.kind \in {"choice", "whitespace"} -> {"token", "none", "null"}
    [] OTHER -> {"token", "none"}

RECURSIVE Disciplined(_, _)
Disciplined(g, p) ==
  \A q \in P!Inner(g.node[p]) : Leaves(g, q) \subseteq Takes(g.node[p]) /\ Disciplined(g, q)

Compiled ==
  {[grammar |-> g, insns |-> P!h_regex_compile(g), disciplined |-> Disciplined(g, g.root)] :
     g \in {g \in Grammars : P!Compiles(g, g.root)}}

-----------------------------------------------------------------------------
(* The grammars. *)

a == 200
b == 2
Blank == 32

\* A root r over the parsers x and y, which may use the letters.
GrammarOf(r, x, y) ==
  [root |-> "r",
   node |-> [r |-> r, x |-> x, y |-> y, a |-> Ch({a}), b |-> Ch({b}),
             e |-> Leaf("epsilon")]]

Inner ==
  {Ch({a}), Charset({0, b, Blank}), Token(<<a, b>>), Leaf("end"), Leaf("epsilon"),
    Leaf("nothing"), Optional("a"), Choice(<<"a", "b">>),
    Choice(<<"e", "a">>), Repeats("a", 0, TRUE, <<>>), Repeats("b", 1, TRUE, <<"a">>),
    White("a"), Ignore("b"), Where("a", {}), Tagged("a", "tag"), InRange("a", {b}), Bits(1, TRUE),
    Dropping("a", "tag", {<<"TT_UINT", a>>}), Ignore("e"), Pick(<<"e", "a">>, 1)}
Outer ==
  {Sequence(<<"x", "y">>), Choice(<<"x", "y">>), Pick(<<"x", "y">>, 1),
   Repeats("x", 0, TRUE, <<"y">>)}
Wrapped ==
  {Repeats("x", 0, TRUE, <<>>), Repeats("x", 2, FALSE, <<"b">>), Optional("x"), White("x"),
   Dropping("x", "tag", {<<"TT_UINT", a>>}), Where("x", {<<"TT_UINT", a>>}), Ignore("x")}

\* Every outer parser with every two inner ones, every wrapper with one, and a
\* range that only h_ignore gets compiled; the undisciplined ones are among them.
AllGrammars ==
  {GrammarOf(r, x, y) : r \in Outer, x, y \in Inner}
  \cup {GrammarOf(r, x, Leaf("end")) : r \in Wrapped, x \in Inner}
  \cup {GrammarOf(Ignore("x"), InRange("a", {a}), Leaf("end"))}
  \cup {GrammarOf(Bits(2, s), Leaf("end"), Leaf("end")) : s \in BOOLEAN}

-----------------------------------------------------------------------------
(* The shapes of the stack, from the first address on. *)

Steps(p, ip, sh) ==
  LET i == p[ip + 1]
  IN {<<j, sh>> : j \in Jumps(i, ip)}
     \cup {<<ip + 1, r>> : r \in IF i.op \in Recorded /\ Ready(i, sh) THEN Results(i, sh) ELSE {}}

RECURSIVE Reached(_, _, _)
Reached(p, old, new) ==
  IF new = {} THEN old
  ELSE LET all == old \cup new
       IN Reached(p, all, UNION {Steps(p, x[1], x[2]) : x \in new} \ all)

ShapesOf(n) ==
  LET R == Reached(n.insns, {}, {<<0, Start>>})
  IN [ip \in 0..Len(n.insns) - 1 |-> {x[2] : x \in {y \in R : y[1] = ip}}]

-----------------------------------------------------------------------------
\* Parsers whose actions do not find what they look for.
Undisciplined == {g \in AllGrammars : ~Disciplined(g, g.root)}

\* The first two bytes may be those of a token or of a sequence of letters.
TwoThreads ==
  {GrammarOf(Choice(<<"x", "y">>), Token(<<a, b>>), Sequence(<<"a", "a">>))}

-----------------------------------------------------------------------------
(* What a grammar matches: every way to match, as the position reached and   *)
(* the tokens made, of which there is at most one.                           *)

Made(end, toks) == [end |-> end, toks |-> toks]
Token1(m) == IF m.toks = <<>> THEN NULL ELSE m.toks[1]
Spaces == (9..13) \cup {Blank}

RECURSIVE Matches(_, _, _), More(_, _, _)

\* A match of parser q after each match of ms, its tokens made by f.
Then(g, ms, q, f(_, _)) ==
  UNION {{Made(n.end, f(m.toks, n.toks)) : n \in Matches(g, q, m.end)} : m \in ms}
Both(s, t) == s \o t
First_(s, t) == s

\* Repetitions after each match of ms; one of them at a position is empty at most.
More(g, n, ms) ==
  LET sep == FoldLeft(LAMBDA all, q : Then(g, all, q, First_), ms, n.sep)
      new == {m \in Then(g, sep, n.sub[1], Both) : Len(m.toks) <= 2 * Len(input) + 2}
  IN IF new \subseteq ms THEN ms ELSE More(g, n, ms \cup new)

InSequence(m) == Made(m.end, <<<<"TT_SEQUENCE", m.toks>>>>)

Matches(g, p, i) ==
  LET n == g.node[p]
      k == n.kind
      inner == Matches(g, n.sub[1], i)
      none == Made(i, <<>>)
      once == Then(g, {none}, n.sub[1], Both)
  IN CASE k \in {"ch", "charset"} ->
            IF i < Len(input) /\ input[i + 1] \in n.chars
            THEN {Made(i + 1, <<<<"TT_UINT", input[i + 1]>>>>)} ELSE {}
       [] k = "token" ->
            LET to == i + Len(n.str)
            IN IF to <= Len(input) /\ SubSeq(input, i + 1, to) = n.str
               THEN {Made(to, <<<<"TT_BYTES", n.str>>>>)} ELSE {}
       [] k = "bits" ->
            LET to == i + n.length \div 8
                u == FoldLeft(LAMBDA v, c : 256 * v + c, 0, SubSeq(input, i + 1, to))
                wraps == n.signedp /\ u >= 2 ^ (n.length - 1)
                type == IF n.signedp THEN "TT_SINT" ELSE "TT_UINT"
            IN IF to > Len(input) THEN {}
               ELSE {Made(to, <<<<type, IF wraps THEN u - 2 ^ n.length ELSE u>>>>)}
       [] k = "end" -> {m \in {none} : i = Len(input)}
       [] k = "epsilon" -> {none}
       [] k = "nothing" -> {}
       [] k = "sequence" ->
            {InSequence(m) : m \in FoldLeft(LAMBDA ms, q : Then(g, ms, q, Both), {none}, n.sub)}
       [] k = "choice" -> UNION {Matches(g, q, i) : q \in Range(n.sub)}
       [] k = "optional" ->
            {Made(m.end, IF m.toks = <<>> THEN <<<<"TT_NONE">>>> ELSE m.toks) : m \in inner \cup {none}}
       [] k = "ignoreseq" ->
            LET all == FoldLeft(LAMBDA ms, q : Then(g, ms, q, LAMBDA s, t : Append(s, t)), {none}, n.sub)
            IN {Made(m.end, IF m.toks[n.which] = <<>> THEN <<NULL>> ELSE m.toks[n.which]) : m \in all}
       [] k = "many" /\ n.min_p ->
            {InSequence(m) : m \in More(g, n, once) \cup {m \in {none} : n.count = 0}}
       [] k = "many" /\ ~n.min_p ->
            {InSequence(m) :
               m \in FoldLeft(LAMBDA ms, j : Then(g, FoldLeft(LAMBDA all, q : Then(g, all, q, First_), ms, n.sep),
                                                  n.sub[1], Both),
                              once, [j \in 1..n.count - 1 |-> j])}
       [] k = "whitespace" ->
            UNION {Matches(g, n.sub[1], j) :
                     j \in {j \in i..Len(input) : \A l \in i + 1..j : input[l] \in Spaces}}
       [] k = "action" ->
            {Made(m.end, IF Token1(m) \in n.nulls THEN <<>> ELSE <<<<n.tag, Token1(m)>>>>) : m \in inner}
       [] k = "attr_bool" -> {m \in inner : Token1(m) \in n.accept}
       [] k = "ignore" -> {Made(m.end, <<>>) : m \in inner}
       [] k = "int_range" -> {m \in inner : m.toks # <<>> /\ m.toks[1][2] \in n.range}

Meaning == Matches(prog.grammar, "r", 0)

\* The grammar validates tokens: the machine learns only afterwards that the
\* match it chose is refused.
RECURSIVE Validates(_, _)
Validates(g, p) ==
  \/ g.node[p].kind \in {"attr_bool", "int_range"}
  \/ \E q \in P!Inner(g.node[p]) : Validates(g, q)

-----------------------------------------------------------------------------
(* Properties. *)

\* A result ends where some match of the grammar ends, and its tree is built
\* of the tokens of that match.
OnlyMatches ==
  \A i \in DOMAIN result :
    \E m \in Meaning : result[i] = [ast |-> Token1(m), bit_length |-> 8 * m.end]

\* As long as no byte leaves more than one thread, the machine finds a match
\* if there is one, and the longest, unless a predicate is asked.
Longest ==
  pc = "done" /\ ~missed /\ ~Validates(prog.grammar, "r") =>
    \A m \in Meaning : \E i \in DOMAIN result : result[i].bit_length >= 8 * m.end

\* What the machine answers is what the grammar means, if its parsers are nested so
\* that their actions find their operands: a result is one the grammar has, and none is
\* left out for a shorter one or for nothing.
Correct == prog.disciplined => OnlyMatches /\ Longest

\* hammer.h, of h_choice: "The first parser to succeed is the result; if no
\* parsers succeed, the parse fails", and so if one does, the parse does not.
ChoiceFindsAMatch ==
  pc = "done" /\ prog.grammar.node["r"].kind = "choice" /\ Meaning # {} => result # <<>>
=============================================================================
