------------------------------- MODULE MCGLR -------------------------------
(* The GLR backend on tables with conflicts: ambiguous grammars, and grammars *)
(* that need more lookahead than LALR has.                                   *)
EXTENDS GLR, CFParsers

CONSTANTS
  Graphs,     \* the parsers
  MaxInput    \* bound on the length of the input

Converted == {GrammarOf(g) : g \in Graphs}

\* h_glr_compile keeps the tables that have conflicts; on one without any the
\* driver does what that of module LR does.
Compiled(g) ==
  {t \in {T!h_lalr_compile(g, o) : o \in Orders(g)} : ~t.abort /\ t.inadeq # {}}

AllInputs(g) == UNION {[1..n -> Letters] : n \in 0..MaxInput}

Inner ==
  {Ch({a}), Ch({b}), Token(<<a, b>>), Charset({a, b}), Where("c", {<<"TT_UINT", b>>}),
   Sequence(<<"a", "i">>), Sequence(<<"i", "a">>), Sequence(<<"i", "a", "i">>),
   Sequence(<<"a", "i", "b">>), Sequence(<<"a", "i", "a">>), Sequence(<<"b", "i", "b">>)}
Outer == {Sequence(<<"x", "y">>), Choice(<<"x", "y">>), Pick(<<"x", "y">>, 2)}
Palindromes ==
  {Graph(Choice(<<"x", "y">>), x, Leaf("epsilon")) :
     x \in {Sequence(<<"a", "i", "a">>), Sequence(<<"b", "i", "b">>)}}
AllGraphs == {Graph(r, x, y) : r \in Outer, x, y \in Inner} \cup Palindromes

\* E -> E b E | a, on a b a b a b a.
Plus == {Graph(Choice(<<"x", "a">>), Sequence(<<"i", "b", "i">>), Leaf("end"))}
FourTerms(g) == {<<a, b, a, b, a, b, a>>}

-----------------------------------------------------------------------------
Meaning == Matches(grammar.graph, input, 100)

\* A result is one of those the parser has on this input, with its length.
Sound == \A k \in DOMAIN result : result[k] \in Meaning

\* An input that the parser matches to its end is accepted: of the engines that
\* fork one gets to the end, unless another succeeds before it does.
Complete ==
  pc = "done" /\ (\E m \in Meaning : m.bit_length = 8 * Len(input)) => result # <<>>

\* Both: forking, merging and taking apart again give what the parser means.
Correct == Sound /\ Complete
============================================================================
