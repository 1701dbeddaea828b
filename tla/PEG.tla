-------------------------------- MODULE PEG --------------------------------
(***************************************************************************)
(* What a grammar means, as a function of the input: the semantics of      *)
(* parsing expressions, with no cache, no stack and no streams.  It is the *)
(* reference the packrat backend is compared with.                         *)
(*                                                                         *)
(* A left-recursive rule means the longest match its iteration reaches     *)
(* from failure: the rule is evaluated with itself bound to fail at the    *)
(* position, then bound to what that gave, and so on as long as the match  *)
(* grows.  bounds holds those matches for the rules under evaluation.      *)
(*                                                                         *)
(* Only for TLC: the definitions are RECURSIVE.                            *)
(***************************************************************************)
EXTENDS Integers, Sequences

Fail == [ok |-> FALSE, end |-> 0, ast |-> <<"NULL">>]
Match(end, ast) == [ok |-> TRUE, end |-> end, ast |-> ast]

Push(acc, ast) == IF ast = <<"NULL">> THEN acc ELSE Append(acc, ast)
With(f, k, v) == [x \in DOMAIN f \cup {k} |-> IF x = k THEN v ELSE f[x]]

\* The parsers p calls.
Calls(g, p) ==
  {g.node[p].sub[i] : i \in DOMAIN g.node[p].sub} \cup
  (IF g.node[p].kind = "many"
     THEN {g.node[p].sep[i] : i \in DOMAIN g.node[p].sep} ELSE {})

RECURSIVE Reach(_, _)
Reach(g, S) ==
  LET T == S \cup UNION {Calls(g, p) : p \in S}
  IN IF T = S THEN S ELSE Reach(g, T)

Recursive(g, p) == p \in Reach(g, Calls(g, p))

RECURSIVE Meaning(_, _, _, _, _), Iteration(_, _, _, _, _, _),
          Body(_, _, _, _, _), InOrder(_, _, _, _, _, _, _),
          FirstOf(_, _, _, _, _, _), Repeat(_, _, _, _, _, _, _),
          Permute(_, _, _, _, _, _, _)

\* What p matches in input from position i (0-based).
Meaning(g, input, p, i, bounds) ==
  IF <<p, i>> \in DOMAIN bounds THEN bounds[<<p, i>>]
  ELSE IF Recursive(g, p) THEN Iteration(g, input, p, i, bounds, Fail)
  ELSE Body(g, input, p, i, bounds)

Iteration(g, input, p, i, bounds, seed) ==
  LET m == Body(g, input, p, i, With(bounds, <<p, i>>, seed)) IN
  IF m.ok /\ (~seed.ok \/ m.end > seed.end)
    THEN Iteration(g, input, p, i, bounds, m)
    ELSE seed

\* Parsers k and following of a sequence.
InOrder(g, input, subs, k, i, acc, bounds) ==
  IF k > Len(subs) THEN Match(i, acc)
  ELSE LET m == Meaning(g, input, subs[k], i, bounds) IN
       IF m.ok THEN InOrder(g, input, subs, k + 1, m.end, Append(acc, m.ast),
                            bounds)
               ELSE Fail

FirstOf(g, input, subs, k, i, bounds) ==
  IF k > Len(subs) THEN Fail
  ELSE LET m == Meaning(g, input, subs[k], i, bounds) IN
       IF m.ok THEN m ELSE FirstOf(g, input, subs, k + 1, i, bounds)

\* Elements read from i on, count of them so far.
Repeat(g, input, n, i, count, acc, bounds) ==
  LET sep == IF count > 0 THEN n.sep ELSE <<>>
      m == InOrder(g, input, sep \o n.sub, 1, i, <<>>, bounds)
  IN IF ~n.min_p /\ count = n.count THEN Match(i, <<"TT_SEQUENCE", acc>>)
     ELSE IF m.ok THEN Repeat(g, input, n, m.end, count + 1,
                              Push(acc, m.ast[Len(m.ast)]), bounds)
     ELSE IF count >= n.count THEN Match(i, <<"TT_SEQUENCE", acc>>)
     ELSE Fail

\* The parsers left, each exactly once, in the smallest order that matches.
\* A result of TT_NONE is no match as long as there is any other.
Permute(g, input, subs, left, i, acc, bounds) ==
  LET m(j) == Meaning(g, input, subs[j], i, bounds)
      rest(j) == Permute(g, input, subs, left \ {j}, m(j).end,
                         [acc EXCEPT ![j] = m(j).ast], bounds)
      some == {j \in left : m(j).ok /\ m(j).ast # <<"TT_NONE">>}
      good == {j \in some : rest(j).ok}
  IN IF good # {} THEN rest(CHOOSE j \in good : \A k \in good : j <= k)
     ELSE IF \A j \in left : m(j).ok /\ m(j).ast = <<"TT_NONE">>
       THEN Match(i, <<"TT_SEQUENCE",
                       [j \in DOMAIN acc |-> IF j \in left THEN <<"TT_NONE">>
                                             ELSE acc[j]]>>)
     ELSE Fail

Body(g, input, p, i, bounds) ==
  LET n == g.node[p]
      kind == n.kind
      m1 == Meaning(g, input, n.sub[1], i, bounds)
      m2 == Meaning(g, input, n.sub[2], i, bounds)
      all == InOrder(g, input, n.sub, 1, i, <<>>, bounds)
      present == SelectSeq(all.ast, LAMBDA a : a # <<"NULL">>)
  IN CASE kind = "ch" ->
            IF i < Len(input) /\ input[i + 1] \in n.chars
              THEN Match(i + 1, <<"TT_UINT", input[i + 1]>>) ELSE Fail
       [] kind = "token" ->
            IF /\ i + Len(n.str) <= Len(input)
               /\ SubSeq(input, i + 1, i + Len(n.str)) = n.str
              THEN Match(i + Len(n.str), <<"TT_BYTES", n.str>>) ELSE Fail
       [] kind = "end" -> IF i = Len(input) THEN Match(i, <<"NULL">>) ELSE Fail
       [] kind = "epsilon" -> Match(i, <<"NULL">>)
       [] kind = "nothing" -> Fail
       [] kind = "whitespace" ->
            LET skip == CHOOSE k \in i .. Len(input) :
                          /\ \A j \in i + 1 .. k : input[j] \in n.spaces
                          /\ k = Len(input) \/ input[k + 1] \notin n.spaces
            IN Meaning(g, input, n.sub[1], skip, bounds)
       [] kind = "sequence" ->
            IF all.ok THEN Match(all.end, <<"TT_SEQUENCE", present>>) ELSE Fail
       [] kind = "ignoreseq" ->
            IF all.ok THEN Match(all.end, all.ast[n.which]) ELSE Fail
       [] kind = "choice" -> FirstOf(g, input, n.sub, 1, i, bounds)
       [] kind = "many" -> Repeat(g, input, n, i, 0, <<>>, bounds)
       [] kind = "int_range" ->
            IF m1.ok /\ \E v \in n.range : m1.ast = <<"TT_UINT", v>>
              THEN m1 ELSE Fail
       [] kind = "length_value" ->
            IF m1.ok
              THEN Repeat(g, input, [sub |-> <<n.sub[2]>>, sep |-> <<>>,
                                     count |-> m1.ast[2], min_p |-> FALSE],
                          m1.end, 0, <<>>, bounds)
              ELSE Fail
       [] kind = "permutation" ->
            Permute(g, input, n.sub, DOMAIN n.sub, i,
                    [j \in DOMAIN n.sub |-> <<"NULL">>], bounds)
       [] kind = "optional" -> IF m1.ok THEN m1 ELSE Match(i, <<"TT_NONE">>)
       [] kind = "and" -> IF m1.ok THEN Match(i, <<"NULL">>) ELSE Fail
       [] kind = "not" -> IF m1.ok THEN Fail ELSE Match(i, <<"NULL">>)
       [] kind = "butnot" ->
            IF m1.ok /\ ~(m2.ok /\ m1.end <= m2.end) THEN m1 ELSE Fail
       [] kind = "difference" ->
            IF m1.ok /\ ~(m2.ok /\ m1.end < m2.end) THEN m1 ELSE Fail
       [] kind = "xor" -> IF m1.ok = m2.ok THEN Fail
                          ELSE IF m1.ok THEN m1 ELSE m2
       [] kind = "indirect" -> m1
       [] kind = "ignore" -> IF m1.ok THEN Match(m1.end, <<"NULL">>) ELSE Fail
       [] kind = "action" ->
            IF m1.ok THEN Match(m1.end, <<n.tag, m1.ast>>) ELSE Fail
       [] kind = "attr_bool" ->
            IF m1.ok /\ m1.ast # <<"NULL">> /\ m1.ast \in n.accept
              THEN m1 ELSE Fail

\* What the grammar matches at the beginning of the input.
MeaningOf(g, input) == Meaning(g, input, g.root, 0, <<>>)
=============================================================================
