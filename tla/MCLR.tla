-------------------------------- MODULE MCLR --------------------------------
(* The LALR backend, from graphs of parsers through their conversion to a    *)
(* grammar and the table of module LRTable to the driver of module LR.       *)
EXTENDS LR, CFParsers

CONSTANT Graphs     \* the parsers, each with the parser it begins with

Converted == {GrammarOf(g) : g \in Graphs}

\* One order for each grammar; either for some.
Order(g) == IF g.graph.node.r.kind = "sequence" THEN Up(g) ELSE Reverse(Up(g))
Compiled(g) == {t \in {T!h_lalr_compile(g, Order(g))} : ~t.abort /\ t.inadeq = {}}

Inner ==
  {Token(<<a, b>>), Leaf("end"), Leaf("epsilon"), Leaf("nothing"), Optional("a"),
   [White("a") EXCEPT !.spaces = {b}], Repeats("a", 0, TRUE, <<>>),
   Repeats("b", 1, TRUE, <<"a">>), Ignore("b"), Where("c", {<<"TT_UINT", a>>}),
   Tagged("a", "tag"), Pick(<<"b", "a">>, 2), Sequence(<<"a", "i">>), Sequence(<<"i", "a">>),
   Sequence(<<"i", "a", "i">>), Sequence(<<"a", "i", "b">>), Optional("i")}
Outer == {Sequence(<<"x", "y">>), Choice(<<"x", "y">>), Repeats("x", 0, TRUE, <<"y">>)}

\* An end that is followed by the parser itself, as in r = end r a, is matched
\* again and again at the end of the input: the engine never stops.
EndsOnce(x, y) == x.kind = "end" => "i" \notin ToSet(y.sub)
AllGraphs ==
  {Graph(r, z[1], z[2]) :
     r \in Outer, z \in {z \in Inner \X Inner : EndsOnce(z[1], z[2]) /\ EndsOnce(z[2], z[1])}}

\* r = a | i b i where i is bound to r, compiled at r and not at i: the symbol
\* meant for i is taken by b, and i becomes another b.
BoundInside ==
  {[Graph(Choice(<<"a", "x">>), Sequence(<<"i", "b", "i">>), Leaf("end")) EXCEPT !.root = "r"]}

-----------------------------------------------------------------------------
(* Properties. *)

Meaning == Matches(grammar.graph, input, 2)

\* A result is one the parser has on the bytes of all chunks, with its length.
Sound == \A i \in DOMAIN result : result[i] \in Meaning

\* An input the parser matches to its end is accepted to its end, however it is
\* divided into chunks.
Complete ==
  pc = "done" => \A m \in Meaning : m.bit_length = 8 * Len(input) =>
    result # <<>> /\ result[1].bit_length = 8 * Len(input)

\* Both: the table, the engine and the chunks give what the parser means.
Correct == Sound /\ Complete

\* A parser that h_lalr_compile finds no conflict in is not ambiguous.
Unambiguous ==
  pc = "done" => \A m, n \in Meaning : m.bit_length = n.bit_length => m = n
=============================================================================
