----------------------------- MODULE CFGrammar -----------------------------
(* Context-free grammars and their lookahead sets (cfgrammar.c), and the     *)
(* LL(k) parse table built from them (llk.c).                                *)
(*                                                                           *)
(* A grammar g has a start symbol, productions g.seq[A] for every            *)
(* nonterminal A, each a sequence of symbols, the set of bytes g.charset[x]  *)
(* for every terminal x, and the set g.ends of symbols of type HCF_END.      *)
(* A string of lookahead is a sequence of bytes that may end in the end      *)
(* marker; a HStringMap is the function from its strings to their values,    *)
(* and a string set is the set of them.                                      *)
(*                                                                           *)
(* The sets are memoised in g->first and g->follow.  A set is entered before *)
(* it is complete, and the computation may come back to it: the operators    *)
(* below pass the memo along.                                                *)
EXTENDS Integers, SequencesExt

EndMark == 256     \* the end_branch of a HStringMap; bytes are smaller

\* Productions are numbered from one; these are the other values of a map.
NULL == 0
CONFLICT == -1
NEED_INPUT == -1

IsNT(g, x) == x \in DOMAIN g.seq

SetMemo(memo, key, v) ==
  [k \in DOMAIN memo \cup {key} |-> IF k = key THEN v ELSE memo[k]]

AtEnd(s) == s # <<>> /\ Last(s) = EndMark

\* "$" counts as a string of every length.
any_string_shorter_Fewer(k, m) == \E s \in m : ~AtEnd(s) /\ Len(s) < k - 1
any_string_shorter(k, m) == \E s \in m : ~AtEnd(s) /\ Len(s) < k
remove_all_shorter(k, m) == {s \in m : AtEnd(s) \/ Len(s) >= k}

\* What was there behind c is replaced.
h_stringmap_put_after(m, c, ends) ==
  {s \in m : s = <<>> \/ Head(s) # c} \cup {<<c>> \o e : e \in ends}

\* The first bytes of the strings of a set, in ascending order.
Heads(m) ==
  SetToSortSeq({Head(s) : s \in m \ {<<>>, <<EndMark>>}}, LAMBDA c, d : c < d)

With(set, memo) == [set |-> set, memo |-> memo]
Memoised(key, memo) == With(memo[key], memo)

RECURSIVE StringSet(_, _, _, _, _, _), stringset_extend(_, _, _, _, _, _, _, _)

\* first_k(x).
h_first(k, g, order, x, memo) ==
  LET key == <<"first", k, x>>
      more(m, p) == LET r == StringSet("first_seq", k, g, order, p, m)
                    IN SetMemo(r.memo, key, r.memo[key] \cup r.set)
  IN IF k = 0 THEN With({<<>>}, memo)
     ELSE IF x \in g.ends THEN With({<<EndMark>>}, memo)
     ELSE IF ~IsNT(g, x) THEN With({<<c>> : c \in g.charset[x]}, memo)
     ELSE IF key \in DOMAIN memo THEN Memoised(key, memo)
     ELSE Memoised(key, FoldLeft(more, SetMemo(memo, key, {}), g.seq[x]))

\* first_k of a sentential form.
h_first_seq(k, g, order, s, memo) ==
  IF s = <<>> THEN With({<<>>}, memo)
  ELSE LET x == StringSet("first", k, g, order, s[1], memo)
       IN IF x.set = {<<>>} THEN StringSet("first_seq", k, g, order, Tail(s), x.memo)
          ELSE IF ~any_string_shorter(k, x.set) THEN x
          ELSE stringset_extend(g, order, {}, k, x.set, "first_seq", Tail(s), x.memo)

\* Adds the set {a b : a \in as, b \in f_l(tail), l = k - |a|} to ret, where f
\* is first_seq, or follow of the symbol tail.
stringset_extend(g, order, ret, k, as, f, tail, memo) ==
  LET f_k == IF <<>> \in as THEN StringSet(f, k, g, order, tail, memo) ELSE With({}, memo)
      branch(r, c) ==
        LET r_ == stringset_extend(g, order, {}, k - 1,
                    {Tail(s) : s \in {t \in as \ {<<>>} : Head(t) = c}},
                    f, tail, r.memo)
        IN With(h_stringmap_put_after(r.set, c, r_.set), r_.memo)
      added(r) == With(ret \cup r.set \cup (as \cap {<<EndMark>>}), r.memo)
  IN FoldLeft(branch, added(f_k), Heads(as))

\* The occurrences of x, each with the left side and the tail of its
\* production; order is the order of the loop over g->nts.
Occurrences(g, order, x) ==
  LET inProduction(A, p) ==
        FlattenSeq([i \in DOMAIN p |->
          IF p[i] = x THEN <<[nt |-> A, tail |-> SubSeq(p, i + 1, Len(p))]>> ELSE <<>>])
      ofNT(A) == FlattenSeq([n \in DOMAIN g.seq[A] |-> inProduction(A, g.seq[A][n])])
  IN FlattenSeq([j \in DOMAIN order |-> ofNT(order[j])])

\* follow_k(x).
h_follow(k, g, order, x, memo) ==
  LET key == <<"follow", k, x>>
      start == IF x = g.start THEN {<<EndMark>>} ELSE {}
      extend(nt, first_tail) ==
        stringset_extend(g, order, first_tail.memo[key], k, first_tail.set,
                         "follow", nt, first_tail.memo)
      put(r) == SetMemo(r.memo, key, r.set)
      more(m, o) == put(extend(o.nt, StringSet("first_seq", k, g, order, o.tail, m)))
  IN IF k = 0 THEN With({<<>>}, memo)
     ELSE IF key \in DOMAIN memo THEN Memoised(key, memo)
     ELSE Memoised(key, FoldLeft(more, SetMemo(memo, key, start), Occurrences(g, order, x)))

\* What a StringSetFun computes.
StringSet(f, k, g, order, arg, memo) ==
  CASE f = "first" -> h_first(k, g, order, arg, memo)
    [] f = "first_seq" -> h_first_seq(k, g, order, arg, memo)
    [] f = "follow" -> h_follow(k, g, order, arg, memo)

\* predict_k(A -> rhs), the strings of length k that may follow when the
\* production is to be applied.
h_predict(k, g, order, A, rhs, memo) ==
  LET extended(r) == stringset_extend(g, order, {}, k, r.set, "follow", A, r.memo)
      long(r) == With(remove_all_shorter(k, r.set), r.memo)
  IN long(extended(StringSet("first_seq", k, g, order, rhs, memo)))

-----------------------------------------------------------------------------
(* The parse table: a row maps strings of lookahead to the number of the     *)
(* production to apply.                                                      *)

\* A string is dropped if a shorter one decides already.
Decided(row, s) ==
  \E n \in 0..Len(s) - 1 :
    SubSeq(s, 1, n) \in DOMAIN row /\ row[SubSeq(s, 1, n)] # CONFLICT

\* stringmap_merge with a map whose values are all rhs: combine_entries marks
\* the conflicts and collects the productions in them.
stringmap_merge(r, strings, rhs) ==
  LET new == {s \in strings : ~Decided(r.row, s)}
      clash == {s \in new \cap DOMAIN r.row : r.row[s] # rhs}
  IN [row |-> [s \in DOMAIN r.row \cup new |->
                 IF s \in clash THEN CONFLICT
                 ELSE IF s \in new THEN rhs ELSE r.row[s]],
      workset |-> UNION {r.workset, {r.row[s] : s \in clash} \ {CONFLICT},
                         IF clash = {} THEN {} ELSE {rhs}}]

RECURSIVE FillRow(_, _, _, _, _, _, _)

\* fill_table_row from lookahead k on; no row if conflicts are left at kmax.
FillRow(k, kmax, g, order, A, r, memo) ==
  LET merge(acc, n, p) == [r |-> stringmap_merge(acc.r, p.set, n), memo |-> p.memo]
      add(acc, n) == merge(acc, n, h_predict(k, g, order, A, g.seq[A][n], acc.memo))
      unclear(row) == [s \in {t \in DOMAIN row : row[t] # CONFLICT} |-> row[s]]
      rest(round) ==
        IF round.r.workset = {} THEN With({round.r.row}, round.memo)
        ELSE FillRow(k + 1, kmax, g, order, A,
               [row |-> unclear(round.r.row), workset |-> round.r.workset], round.memo)
  IN IF k > kmax THEN With({}, memo)
     ELSE rest(FoldLeft(add, [r |-> [row |-> r.row, workset |-> {}], memo |-> memo],
                        SetToSortSeq(r.workset, LAMBDA i, j : i < j)))

fill_table_row(kmax, g, order, A, memo) ==
  FillRow(1, kmax, g, order, A,
          [row |-> <<>>, workset |-> DOMAIN g.seq[A]], memo)

\* The tables h_llk_compile may build: none if there are conflicts left.
h_llk_compile(kmax, g, order) ==
  LET put(acc, A, r) ==
        With({SetMemo(rows, A, row) : rows \in acc.set, row \in r.set}, r.memo)
      add(acc, A) == put(acc, A, fill_table_row(kmax, g, order, A, acc.memo))
  IN {[kmax |-> kmax, start |-> g.start, rows |-> rows] :
        rows \in FoldLeft(add, With({<<>>}, <<>>), order).set}
=============================================================================
