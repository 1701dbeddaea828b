----------------------------- MODULE RVMProgram -----------------------------
(* The compiler of the regular expression backend: the compile_to_rvm        *)
(* entries of the combinators, which emit instructions for module RVM.       *)
(*                                                                           *)
(* Code(g, p, ip) is the code of parser p, emitted from address ip on; jumps *)
(* hold absolute addresses.  An action is the function and the node it gets  *)
(* as env, instead of a number in prog->actions.                             *)
EXTENDS Integers, SequencesExt

PUSH == [op |-> "RVM_PUSH"]
STEP == [op |-> "RVM_STEP"]
CAPTURE == [op |-> "RVM_CAPTURE"]
ENDED == [op |-> "RVM_EOF"]
ACCEPT == [op |-> "RVM_ACCEPT"]
GOTO(ip) == [op |-> "RVM_GOTO", arg |-> ip]
FORK(ip) == [op |-> "RVM_FORK", arg |-> ip]
MATCH(from, to) == [op |-> "RVM_MATCH", lo |-> from, hi |-> to]
ACT(f, n) == [op |-> "RVM_ACTION", action |-> f, env |-> n]

FAIL == MATCH(255, 0)      \* 0x00FF: no byte is in the range

\* A jump whose target is filled in by h_rvm_patch_arg.
OPEN == GOTO(65535)
Patched(code, ip) == [i \in DOMAIN code |-> IF code[i] = OPEN THEN GOTO(ip) ELSE code[i]]

\* Whitespace: \t to \r, and the blank.
WhiteRanges == <<<<9, 13>>, <<32, 32>>>>

\* The ranges of a charset, in ascending order.
Ranges(S) ==
  LET starts == {c \in S : c - 1 \notin S}
      end(c) == CHOOSE d \in S : d >= c /\ c..d \subseteq S /\ d + 1 \notin S
  IN [i \in DOMAIN SetToSortSeq(starts, LAMBDA c, d : c < d) |->
        LET c == SetToSortSeq(starts, LAMBDA d, e : d < e)[i] IN <<c, end(c)>>]

RECURSIVE Code(_, _, _)

\* The code of several parsers, one after the other, each preceded by pre.
Codes(g, ps, pre, ip) ==
  FoldLeft(LAMBDA c, q : c \o pre \o Code(g, q, ip + Len(c) + Len(pre)), <<>>, ps)

ch_ctrvm(n) ==
  LET c == CHOOSE c \in n.chars : TRUE
  IN <<PUSH, MATCH(c, c), STEP, CAPTURE, ACT("h_svm_action_ch", n)>>

cs_ctrvm(n, ip) ==
  LET r == Ranges(n.chars)
      jump == ip + 3 * Len(r) + 2
      one(i) == <<FORK(ip + 3 * i + 1), MATCH(r[i][1], r[i][2]), GOTO(jump)>>
  IN <<PUSH>> \o FlattenSeq([i \in DOMAIN r |-> one(i)])
       \o <<FAIL, STEP, CAPTURE, ACT("h_svm_action_ch", n)>>

token_ctrvm(n) ==
  <<PUSH>> \o FlattenSeq([i \in DOMAIN n.str |-> <<MATCH(n.str[i], n.str[i]), STEP>>])
    \o <<CAPTURE>>

\* Whole bytes only.
bits_ctrvm(n) ==
  <<PUSH>> \o FlattenSeq([i \in 1..n.length \div 8 |-> <<MATCH(0, 255), STEP>>])
    \o <<CAPTURE, ACT("h_svm_action_bits", n)>>

sequence_ctrvm(g, n, ip) ==
  <<PUSH>> \o Codes(g, n.sub, <<>>, ip + 1) \o <<ACT("h_svm_action_make_sequence", n)>>

\* Every alternative is entered by a fork to the next one.
choice_ctrvm(g, n, ip) ==
  LET forked(c, q) ==
        LET body(b) == <<FORK(ip + Len(c) + Len(b) + 2)>> \o b \o <<OPEN>>
        IN c \o body(Code(g, q, ip + Len(c) + 1))
      closed(c) == Patched(Append(c, FAIL), ip + Len(c) + 1)
  IN closed(FoldLeft(forked, <<>>, n.sub))

opt_ctrvm(g, n, ip) ==
  LET all(c) == <<PUSH, FORK(ip + 2 + Len(c))>> \o c \o <<ACT("h_svm_action_optional", n)>>
  IN all(Code(g, n.sub[1], ip + 2))

is_ctrvm(g, n, ip) ==
  Codes(g, n.sub, <<PUSH>>, ip) \o <<ACT("h_svm_action_ignoreseq", n)>>

\* A separator, whose results are dropped.
SepCode(g, n, ip) ==
  IF n.sep = <<>> THEN <<>>
  ELSE <<PUSH>> \o Code(g, n.sep[1], ip + 1) \o <<ACT("h_svm_action_clear_to_mark", n)>>

\* min_p: one element, or none if count is zero, and more of them; otherwise
\* count elements.
many_ctrvm(g, n, ip) ==
  LET open == IF n.count = 0 THEN <<PUSH, FORK(65535), OPEN>> ELSE <<PUSH, OPEN>>
      nxt == ip + Len(open)
      loop(sep) == LET c == Patched(open, nxt + Len(sep)) \o sep
                   IN c \o Code(g, n.sub[1], ip + Len(c)) \o <<FORK(nxt)>>
      ended(c) == [i \in DOMAIN c |-> IF c[i] = FORK(65535) THEN FORK(ip + Len(c)) ELSE c[i]]
      next(c, i) == LET s == c \o IF i = 1 THEN <<>> ELSE SepCode(g, n, ip + Len(c))
                    IN s \o Code(g, n.sub[1], ip + Len(s))
  IN Append(IF n.min_p THEN ended(loop(SepCode(g, n, nxt)))
            ELSE FoldLeft(next, <<PUSH>>, [i \in 1..n.count |-> i]),
            ACT("h_svm_action_make_sequence", n))

ws_ctrvm(g, n, ip) ==
  LET skip(i) == <<FORK(ip + 4 * i), MATCH(WhiteRanges[i][1], WhiteRanges[i][2]), STEP, GOTO(ip)>>
  IN skip(1) \o skip(2) \o Code(g, n.sub[1], ip + 8)

Code(g, p, ip) ==
  LET n == g.node[p]
      k == n.kind
      wrapped(f) == <<PUSH>> \o Code(g, n.sub[1], ip + 1) \o <<ACT(f, n)>>
      followed(f) == Append(Code(g, n.sub[1], ip), ACT(f, n))
  IN CASE k = "ch" -> ch_ctrvm(n)
       [] k = "charset" -> cs_ctrvm(n, ip)
       [] k = "token" -> token_ctrvm(n)
       [] k = "bits" -> bits_ctrvm(n)
       [] k = "end" -> <<ENDED>>
       [] k = "epsilon" -> <<>>
       [] k = "nothing" -> <<MATCH(0, 0), MATCH(255, 255)>>
       [] k = "sequence" -> sequence_ctrvm(g, n, ip)
       [] k = "choice" -> choice_ctrvm(g, n, ip)
       [] k = "optional" -> opt_ctrvm(g, n, ip)
       [] k = "ignoreseq" -> is_ctrvm(g, n, ip)
       [] k = "many" -> many_ctrvm(g, n, ip)
       [] k = "whitespace" -> ws_ctrvm(g, n, ip)
       [] k = "action" -> wrapped("h_svm_action_action")
       [] k = "attr_bool" -> wrapped("h_svm_action_attr_bool")
       [] k = "ignore" -> followed("h_svm_action_pop")
       [] k = "int_range" -> followed("h_svm_action_validate_int_range")

\* The parsers that compile_to_rvm compiles for a node.
Inner(n) == Range(n.sub) \cup (IF n.kind = "many" THEN Range(n.sep) ELSE {})

\* compile_to_rvm reports success: never for an int_range, but h_ignore does
\* not ask.
RECURSIVE Compiles(_, _)
Compiles(g, p) ==
  LET n == g.node[p]
  IN \/ n.kind = "ignore"
     \/ /\ n.kind # "int_range"
        /\ \A q \in Inner(n) : Compiles(g, q)

\* h_regex_compile: the program of a grammar, empty if it is refused.
h_regex_compile(g) ==
  IF Compiles(g, g.root) THEN Append(Code(g, g.root, 0), ACCEPT) ELSE <<>>
=============================================================================
