----------------------------- MODULE RVMShapes -----------------------------
(* What the code that the compile_to_rvm functions emit lets be on the stack *)
(* of run_trace: at each address of a program a set of shapes of the stack,  *)
(* closed under the instructions.  A program that has such sets is one whose *)
(* instructions find what they assert, see RVMShapedNoAbort in RVMProofs;    *)
(* h_regex_compile makes programs that have none, see NoAbort in module RVM. *)
EXTENDS RVM

CONSTANT Shapes(_)   \* of a program, by address

\* How many tokens there are below the lowest mark, and above each of the marks,
\* 2 for two or more; and what is known of the top of the stack: it is "bytes", it
\* is not NULL, or perhaps it is.  Below the top there is no NULL.
Shape == [segs : Seq(0..2) \ {<<>>}, top : {"bytes", "some", "null"}]

Start == [segs |-> <<0>>, top |-> "some"]

Count(sh) == sh.segs[Len(sh.segs)]
HasMark(sh) == Len(sh.segs) > 1
Known(sh) == sh.top # "null"

OneMore(c) == IF c = 0 THEN 1 ELSE 2

\* With a mark on the top; with a token on the top, of which t is known; cut off at
\* the mark above segment k; and without the token on the top.
Opened(sh) == [segs |-> Append(sh.segs, 0), top |-> "some"]
Plus(sh, t) == [segs |-> [sh.segs EXCEPT ![Len(sh.segs)] = OneMore(@)], top |-> t]
Cut(sh, k) == [segs |-> SubSeq(sh.segs, 1, k), top |-> "some"]
Closed(sh) == Cut(sh, Len(sh.segs) - 1)
WithCount(sh, c) == [segs |-> [sh.segs EXCEPT ![Len(sh.segs)] = c], top |-> "some"]
Minus(sh) == {WithCount(sh, c) : c \in {c \in 0..2 : OneMore(c) = Count(sh)}}

\* The segment of an ignoreseq that is below its first mark.
Lowest(i, sh) == Len(sh.segs) - Len(i.env.sub)

\* What an action asserts of the stack, or reads there.
ActionReady(i, sh) ==
  LET f == i.action
  IN \/ /\ f \in {"h_svm_action_make_sequence", "h_svm_action_clear_to_mark"}
        /\ HasMark(sh) /\ Known(sh)
     \/ /\ f \in {"h_svm_action_action", "h_svm_action_attr_bool", "h_svm_action_optional"}
        /\ HasMark(sh) /\ Known(sh) /\ Count(sh) <= 1
        /\ f = "h_svm_action_action" => i.env.tag # "TT_MARK"
     \/ f \in {"h_svm_action_ch", "h_svm_action_bits"} /\ sh.top = "bytes"
     \/ f = "h_svm_action_pop" /\ (HasMark(sh) \/ Count(sh) > 0)
     \/ /\ f = "h_svm_action_validate_int_range"
        /\ Known(sh) /\ (HasMark(sh) \/ Count(sh) > 0)
     \/ /\ f = "h_svm_action_ignoreseq"
        /\ Known(sh) /\ Lowest(i, sh) > 0
        /\ Len(i.env.sub) \in Nat /\ i.env.which \in 1..Len(i.env.sub)

\* What it leaves, if it does not end the parse.
ActionResults(i, sh) ==
  LET f == i.action
  IN CASE f \in {"h_svm_action_make_sequence", "h_svm_action_optional"} ->
            {Plus(Closed(sh), "some")}
       [] f = "h_svm_action_action" ->
            {Plus(Closed(sh), "some")} \cup {Closed(sh) : x \in i.env.nulls}
       [] f = "h_svm_action_clear_to_mark" -> {Closed(sh)}
       [] f = "h_svm_action_attr_bool" ->
            {IF Count(sh) = 0 THEN Closed(sh) ELSE Plus(Closed(sh), "some")}
       [] f \in {"h_svm_action_ch", "h_svm_action_bits"} -> {[segs |-> sh.segs, top |-> "some"]}
       [] f = "h_svm_action_pop" -> IF Count(sh) = 0 THEN {Closed(sh)} ELSE Minus(sh)
       [] f = "h_svm_action_validate_int_range" -> {sh}
       [] f = "h_svm_action_ignoreseq" ->
            {Plus(Cut(sh, Lowest(i, sh)),
                  IF sh.segs[Lowest(i, sh) + i.env.which] = 0 THEN "null" ELSE "some")}

Ready(i, sh) ==
  \/ i.op = "RVM_PUSH" /\ Known(sh)
  \/ i.op = "RVM_CAPTURE" /\ HasMark(sh) /\ Count(sh) = 0
  \/ i.op = "RVM_ACTION" /\ ActionReady(i, sh)
  \/ i.op = "RVM_ACCEPT" /\ ~HasMark(sh) /\ Count(sh) <= 1

Results(i, sh) ==
  CASE i.op = "RVM_PUSH" -> {Opened(sh)}
    [] i.op = "RVM_CAPTURE" -> {Plus(Closed(sh), "bytes")}
    [] i.op = "RVM_ACTION" -> ActionResults(i, sh)
    [] i.op = "RVM_ACCEPT" -> {}

\* The instructions that a trace records, and where a thread goes by the others:
\* not beyond a match of an empty range.
Recorded == {"RVM_PUSH", "RVM_CAPTURE", "RVM_ACTION"}
Jumps(i, ip) ==
  (IF i.op \in {"RVM_GOTO", "RVM_FORK"} THEN {i.arg} ELSE {})
  \cup (IF i.op \in {"RVM_FORK", "RVM_EOF", "RVM_STEP"} \/ (i.op = "RVM_MATCH" /\ i.lo <= i.hi)
        THEN {ip + 1} ELSE {})

Shaped(p, S) ==
  /\ S \in [0..Len(p) - 1 -> SUBSET Shape]
  /\ Start \in S[0]
  /\ \A ip \in 0..Len(p) - 1 :
       LET i == p[ip + 1]
       IN /\ i.op = "RVM_MATCH" => i.lo \in Int /\ i.hi \in Int
          /\ \A j \in Jumps(i, ip) : S[ip] \subseteq S[j]
          /\ \A sh \in S[ip] :
               /\ i.op \in Recorded \cup {"RVM_ACCEPT"} => Ready(i, sh)
               /\ i.op \in Recorded => Results(i, sh) \subseteq S[ip + 1]

ASSUME BytesAssumption == Bytes \subseteq Nat

\* A program of a disciplined nesting has such shapes; others may have none.
ASSUME ShapesAssumption ==
  \A n \in Programs : n.disciplined \in BOOLEAN /\ (n.disciplined => Shaped(n.insns, Shapes(n)))
=============================================================================
