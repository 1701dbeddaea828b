----------------------------- MODULE MCPackrat -----------------------------
(* Grammars and inputs to model-check the packrat backend with, and the      *)
(* properties that compare it with module PEG.                               *)
EXTENDS Packrat, PEG, GrammarNodes

CONSTANT MaxLen    \* bound on the length of an input

\* Two letters, which are also the lengths one and two; zero is the space.
A == 1
B == 2
Strings(letters, n) == UNION {[1..k -> letters] : k \in 0..n}

Letters == [a |-> Ch({A}), b |-> Ch({B}), ab |-> Token(<<A, B>>),
            z |-> Ch({0}), eof |-> Leaf("end"), eps |-> Leaf("epsilon"),
            no |-> Leaf("nothing")]

\* A grammar, and the name of the family it is in.
GrammarIn(family, root, rules) ==
  [root |-> root, family |-> family,
   node |-> [p \in DOMAIN rules \cup DOMAIN Letters |->
               IF p \in DOMAIN rules THEN rules[p] ELSE Letters[p]]]
Grammar(root, rules) == GrammarIn("plain", root, rules)

-----------------------------------------------------------------------------
(* All grammars of two combinators, left recursion included. *)

PairNames == {"r", "s", "a", "b"}
PairRules ==
  {Op(k, <<p, q>>) : k \in {"sequence", "choice"},
                     p \in PairNames, q \in PairNames}
  \cup {Op(k, <<p>>) : k \in {"optional", "and", "not"}, p \in PairNames}
AllPairs ==
  {Grammar("r", [r |-> x, s |-> y]) : x \in PairRules, y \in PairRules}

\* All grammars of two choices and a sequence between them: most of them are
\* left recursive, in several rules at once.
TripleRules(k) == {Op(k, <<p, q>>) : p \in {"r", "s", "t", "a"},
                                     q \in {"r", "s", "t", "a"}}
AllTriples ==
  {GrammarIn("stress", "r", [r |-> x, s |-> y, t |-> w]) :
     x \in TripleRules("choice"), y \in TripleRules("sequence"),
     w \in TripleRules("choice")}

-----------------------------------------------------------------------------
(* Grammars with the other combinators. *)

\* Two of the combinators under a third, over the primitives.
One(p) == {Op(k, <<p>>) : k \in {"optional", "and", "not", "ignore", "indirect"}}
          \cup {Repeats(p, 0, TRUE, <<>>), Repeats(p, 2, FALSE, <<>>),
                Repeats(p, 1, TRUE, <<"z">>), Tagged(p, "tag"),
                Where(p, {<<"TT_UINT", A>>, <<"TT_BYTES", <<A, B>>>>}),
                InRange(p, {A})}
Both(p, q) == {Op(k, <<p, q>>) : k \in {"butnot", "difference", "xor", "choice"}}
              \cup {Sequence(<<p, q, "eof">>)}
Inner == {Indirect(p) : p \in {"a", "ab", "z", "no"}}
         \cup {Choice(<<"ab", "z">>)}
Mixed ==
  {Grammar("r", [r |-> x, s |-> y, t |-> w]) :
     x \in Both("s", "t"), y \in Inner,
     w \in UNION {One(p) : p \in {"a", "ab", "b"}}}
  \cup {Grammar("r", [r |-> x, s |-> y]) : x \in One("s"), y \in Inner}
  \cup {Grammar("r", [r |-> Pick(<<"s", "t", "eps">>, n), s |-> y, t |-> White("b")]) :
          y \in Inner, n \in 1..2}
  \cup {Grammar("r", [r |-> Op(k, <<"s", "b">>), s |-> White(p)]) :
          k \in {"choice", "xor"}, p \in {"ab", "eof"}}
  \cup {Grammar("r", [r |-> Sequence(<<"s", "eof">>),
                      s |-> Op("length_value", <<"t", p>>),
                      t |-> Ch({0, A, B})]) : p \in {"a", "z", "eps"}}

\* Permutations of two or three parsers, empty optionals among them.
Parts == {"a", "b", "ab", "oa", "oab", "eps"}
Permutations ==
  {Grammar("r", [r |-> Permutation(s), oa |-> Optional("a"),
                 oab |-> Optional("ab")]) :
     s \in UNION {[1..n -> Parts] : n \in 2..3}}

\* The first parser reads a letter and then, perhaps, another one.
StaleNone ==
  {Grammar("r", [r |-> Permutation(<<"s", "ab">>),
                 s |-> Pick(<<"a", "oa">>, 2), oa |-> Optional("a")])}

-----------------------------------------------------------------------------
(* Left recursion: the grammars of t_parser.c (leftrec, leftrec-ne,          *)
(* rightrec, ambiguous), a mutual recursion and one inside a sequence.       *)
LeftGrammar(root, rules) == GrammarIn("leftrec", root, rules)
LeftRec == LeftGrammar("r", [r |-> Indirect("c"),
                             c |-> Choice(<<"s", "eps">>),
                             s |-> Sequence(<<"r", "a">>)])
LeftRecNe == LeftGrammar("r", [r |-> Indirect("c"),
                               c |-> Choice(<<"s", "a">>),
                               s |-> Sequence(<<"r", "a">>)])
RightRec == LeftGrammar("r", [r |-> Indirect("c"),
                              c |-> Choice(<<"s", "eps">>),
                              s |-> Sequence(<<"a", "r">>)])
Ambiguous == LeftGrammar("x", [x |-> Tagged("e", "flatten"),
                               e |-> Indirect("c"),
                               c |-> Choice(<<"s", "a">>),
                               s |-> Sequence(<<"e", "b", "e">>)])
Mutual == LeftGrammar("x", [x |-> Choice(<<"s", "a">>),
                            s |-> Sequence(<<"y", "b">>),
                            y |-> Choice(<<"t", "a">>),
                            t |-> Sequence(<<"x", "a">>)])
Nested == LeftGrammar("top", [top |-> Sequence(<<"l", "e", "eof">>),
                              l |-> Repeats("b", 0, TRUE, <<>>),
                              e |-> Choice(<<"s", "t", "a">>),
                              s |-> Sequence(<<"e", "b", "a">>),
                              t |-> Sequence(<<"e", "a">>)])
LeftRecursive == {LeftRec, LeftRecNe, RightRec, Ambiguous, Mutual, Nested}

\* x = y b | y a | a and y = x | a: the second alternative is not tried until
\* the recursion grows.
Alternatives ==
  {GrammarIn("stress", "x", [x |-> Choice(<<"s", "t", "a">>),
                             s |-> Sequence(<<"y", "b">>),
                             t |-> Sequence(<<"y", "a">>),
                             y |-> Choice(<<"x", "a">>)])}

\* p = &p r | a o | a with o = p | r and r = r | &p | a: the failure of p after
\* the first letter leaves &p a left recursion, and when r meets it there
\* setupLR marks p at the beginning of the input as well.
Straying ==
  {GrammarIn("stress", "p", [p |-> Choice(<<"s", "t", "a">>),
                             s |-> Sequence(<<"n", "r">>), n |-> Op("and", <<"p">>),
                             t |-> Sequence(<<"a", "o">>), o |-> Choice(<<"p", "r">>),
                             r |-> Choice(<<"r", "n", "a">>)])}
Growing == AllTriples \cup Alternatives \cup Straying

-----------------------------------------------------------------------------
(* Symbols: every tree of two sequences or choices over puts and gets; the   *)
(* puts are apart and of one name, or one is inside the other.               *)
SymbolRules == {Op(k, <<p, q>>) : k \in {"sequence", "choice"},
                                  p \in {"p", "q", "g"}, q \in {"p", "q", "g"}}
Symbols ==
  {GrammarIn("stress", "r", [r |-> Op(k, <<"s", "t">>), s |-> x, t |-> y,
                             p |-> w, q |-> Put("ab", "x"), g |-> GetOf("x")]) :
     k \in {"sequence", "choice"}, x \in SymbolRules, y \in SymbolRules,
     w \in {Put("a", "x"), Put("q", "y")}}

-----------------------------------------------------------------------------
(* The sets of two runs.  What several left recursions in one another mean,  *)
(* and what a get means whose answer is memoised, PEG does not say: those    *)
(* grammars are there to put the tables of the parser under stress.          *)
Small == AllPairs \cup LeftRecursive
Large == Mixed \cup Permutations \cup Growing \cup Symbols

SmallInputs(g) ==
  Strings({A, B}, IF g.family = "leftrec" THEN MaxLen + 1 ELSE MaxLen)
LargeInputs(g) ==
  IF g.family = "stress" THEN Strings({A, B}, MaxLen - 1)
  ELSE Strings({A, B}, MaxLen) \cup Strings({0, A, B}, MaxLen - 1)

-----------------------------------------------------------------------------
(* Properties. *)

\* The match h_packrat_parse found: its end and its tree.
Answer == IF ret = NULL THEN Fail ELSE Match(input_stream.index, Ast(ret))

\* h_packrat_parse answers what the grammar means: the cache, the backing up
\* of the combinators and the growing of left recursions are invisible.
Correct == pc = "done" => Answer = MeaningOf(grammar, input)

\* So does every entry of the cache, that of the root included and whether it
\* was used or not; only inside a left recursion may an entry be that of an
\* earlier round.
CacheIsSound ==
  pc = "done" /\ grammar.family = "plain" =>
    \A k \in DOMAIN cache : IsResult(k) =>
      LET c == cells[cache[k]]
          m == Meaning(grammar, input, k[2], k[1].index, <<>>)
      IN IF c.right = NULL THEN ~m.ok
                           ELSE m = Match(c.input_stream.index, Ast(c.right))
=============================================================================
