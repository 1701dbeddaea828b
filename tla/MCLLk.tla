------------------------------- MODULE MCLLk -------------------------------
(* Grammars to check the LL(k) backend with, from the construction of the    *)
(* parse table in module CFGrammar to the driver in module LLk.              *)
EXTENDS LLk

CONSTANT KMaxs      \* the params of h_compile

C == INSTANCE CFGrammar

Uses(ps, x) == \E n \in DOMAIN ps : \E i \in DOMAIN ps[n] : ps[n][i] = x

GrammarOf(s, t, refused) ==
  [start |-> "S", seq |-> [S |-> s, T |-> t],
   charset |-> [a |-> {1}, b |-> {2}, c |-> {3}], ends |-> {END},
   refused |-> [S |-> {}, T |-> refused, a |-> {}, b |-> {}, c |-> {}, end |-> {}]]

\* Nonterminals with two productions each.
Twos(P) == {<<p, q>> : p, q \in P} \ {<<p, p>> : p \in P}
ForS == {<<>>, <<"T">>, <<"a", "S">>, <<"T", "b">>, <<"a", "T", "end">>, <<"T", "T">>}
ForT == {<<>>, <<"a">>, <<"b", "T">>, <<"a", "b">>, <<"b", "S">>}
TwoRules ==
  {GrammarOf(s, t, {}) : s \in {p \in Twos(ForS) : Uses(p, "T")}, t \in Twos(ForT)}
  \cup {GrammarOf(<<<<"T", "T">>>>, <<<<"a">>, <<"b">>>>, {Node(<<Leaf(2)>>)}),
        GrammarOf(<<<<"a", "a", "T">>, <<"a", "a", "a">>>>, <<<<"b">>, <<"end">>>>, {})}

\* S -> T and T -> c S | a S b | empty: what follows S follows T, and what
\* follows T follows S.
FollowCycle ==
  {GrammarOf(<<<<"T">>>>, <<<<"c", "S">>, <<"a", "S", "b">>, <<>>>>, {})}

Orders == {<<"S", "T">>, <<"T", "S">>}
Compiled(g) == UNION {C!h_llk_compile(k, g, o) : k \in KMaxs, o \in Orders}

-----------------------------------------------------------------------------
(* What the grammar means. *)

\* A recursive descent over the whole input that follows the table.
Whole(i) == [Stream(input, 0, TRUE) EXCEPT !.index = i]
Fail == [ok |-> FALSE]
RECURSIVE Descend(_, _), DescendAll(_, _, _)
Descend(x, i) ==
  IF x = END THEN IF i = Len(input) THEN [ok |-> TRUE, end |-> i, ast |-> NoToken] ELSE Fail
  ELSE IF ~IsNT(x)
  THEN IF i < Len(input) /\ input[i + 1] \in grammar.charset[x]
       THEN [ok |-> TRUE, end |-> i + 1, ast |-> Leaf(input[i + 1])] ELSE Fail
  ELSE LET p == h_llk_lookup(x, Whole(i))
           r == DescendAll(grammar.seq[x][p], i, <<>>)
       IN IF p = NoProduction \/ ~r.ok \/ r.ast \in grammar.refused[x] THEN Fail ELSE r
DescendAll(s, i, acc) ==
  IF s = <<>> THEN [ok |-> TRUE, end |-> i, ast |-> Node(acc)]
  ELSE LET r == Descend(s[1], i)
       IN IF r.ok THEN DescendAll(Tail(s), r.end, Append(acc, r.ast)) ELSE Fail

\* The parts <<x, i, j>> of the input that symbol x derives.
RECURSIVE Ends(_, _, _)
Ends(s, i, spans) ==
  IF s = <<>> THEN {i}
  ELSE UNION {Ends(Tail(s), t[3], spans) : t \in {t \in spans : t[1] = s[1] /\ t[2] = i}}
RECURSIVE Closure(_)
Closure(spans) ==
  LET new == UNION {{<<x, i, j>> : j \in Ends(grammar.seq[x][n], i, spans)} :
                      <<x, n, i>> \in {<<x, n, i>> \in {"S", "T"} \X (1..3) \X (0..Len(input)) :
                                         n \in DOMAIN grammar.seq[x]}}
  IN IF new \subseteq spans THEN spans ELSE Closure(spans \cup new)
Derives ==
  <<"S", 0, Len(input)>> \in
    Closure({<<END, Len(input), Len(input)>>}
            \cup {<<x, i - 1, i>> : <<x, i>> \in {<<x, i>> \in {"a", "b", "c"} \X (1..Len(input)) :
                                                   input[i] \in grammar.charset[x]}})

-----------------------------------------------------------------------------
(* Properties. *)

\* The answer does not depend on the chunks the input came in, nor on the
\* window that lookahead was kept in: it is that of a recursive descent over
\* the whole input.
ChunksInvisible ==
  pc = "done" => LET d == Descend(table.start, 0)
                 IN IF d.ok THEN result # <<>> /\ result[1].ast = d.ast
                            ELSE result = <<>>

\* A sentence of the grammar is accepted.
Complete ==
  pc = "done" /\ Derives /\ (\A x \in DOMAIN grammar.refused : grammar.refused[x] = {}) =>
    result # <<>>

\* cfgrammar.c on h_follow: "the follow set of X is the union of: {$} if X is
\* the start symbol; given a production A -> alpha X tail:
\* first_k(tail follow_k(A))".
FollowIsUnion ==
  \A o \in Orders :
    LET follow(x) == C!h_follow(1, grammar, o, x, C!h_follow(1, grammar, o, "S", <<>>).memo).set
        given(oc) == LET first == C!h_first_seq(1, grammar, o, oc.tail, <<>>).set
                     IN (first \ {<<>>}) \cup (IF <<>> \in first THEN follow(oc.nt) ELSE {})
    IN \A x \in {"S", "T"} :
         follow(x) = UNION {given(oc) : oc \in ToSet(C!Occurrences(grammar, o, x))}
                       \cup (IF x = grammar.start THEN {<<EndMark>>} ELSE {})

\* With one byte of lookahead the length of the result is that of the text.
RECURSIVE Size(_)
Size(ast) == IF ast.type = "TT_UINT" THEN 1
             ELSE IF ast.type = "NULL" THEN 0
             ELSE FoldLeft(LAMBDA n, t : n + Size(t), 0, ast.seq)
BitLength == kmax = 1 /\ result # <<>> => result[1].bit_length = 8 * Size(result[1].ast)
=============================================================================
