------------------------------ MODULE Combinators --------------------------
(***************************************************************************)
(* The parse functions of the combinators (the vtable->parse entries of    *)
(* src/parsers), as steps between two calls of h_do_parse.                 *)
(*                                                                         *)
(* A parse function runs on top of an explicit stack: stack[n] is an       *)
(* activation of perform_lowlevel_parse (see module Packrat), locals[n]    *)
(* holds the local variables of the parse function it called.  A step      *)
(* either calls h_do_parse on an inner parser (pc = "call") and is resumed *)
(* with its result in ret (pc = "run"), or returns (pc = "return").        *)
(* Results are shared by pointer and their bit_length is updated in place, *)
(* so they live in a heap addressed by positive numbers; 0 is NULL.        *)
(*                                                                         *)
(* Grammars are byte aligned: a stream position is a byte index.           *)
(***************************************************************************)
EXTENDS Integers, Sequences

CONSTANTS Grammars,   \* records [root, node]: node maps parsers to their env
          Inputs(_)   \* the byte strings to parse with a grammar

\* What the constructors of hammer.h store in a node: inner parsers that
\* exist, one for the combinators that run one and two for those that run two.
WithOne == {"whitespace", "many", "optional", "and", "not", "int_range",
            "indirect", "ignore", "action", "attr_bool", "put"}
WithTwo == {"length_value", "butnot", "difference", "xor"}

NodeOK(n, parsers) ==
  /\ n.sub \in Seq(parsers)
  /\ n.kind \in WithOne => Len(n.sub) = 1
  /\ n.kind \in WithTwo => Len(n.sub) = 2
  /\ n.kind = "many" => n.sep \in Seq(parsers)

ASSUME GrammarsAssumption ==
  \A g \in Grammars :
    /\ g.root \in DOMAIN g.node
    /\ \A p \in DOMAIN g.node : NodeOK(g.node[p], DOMAIN g.node)

VARIABLES
  grammar, input,   \* chosen once
  pc,               \* "call" | "run" | "return" | "done"
  arg,              \* the parser h_do_parse is called on
  ret,              \* the HParseResult returned last
  input_stream,     \* state->input_stream
  stack, locals,    \* activations, and the local variables of each
  symbol_table,     \* state->symbol_table
  results,          \* the HParseResults in the arena
  next              \* the next free address of the arena

frame_vars == <<stack, locals>>

-----------------------------------------------------------------------------
(* Data. *)

NULL == 0
NoAst == <<"NULL">>         \* a result whose ast is NULL
TTNone == <<"TT_NONE">>     \* the token of an optional that was absent
Uint(c) == <<"TT_UINT", c>>
Seq_(s) == <<"TT_SEQUENCE", s>>
Bytes(s) == <<"TT_BYTES", s>>

\* f with the pair k, v added or replaced.
Bind(f, k, v) == [x \in DOMAIN f \cup {k} |-> IF x = k THEN v ELSE f[x]]

Get(f, k) == IF k \in DOMAIN f THEN f[k] ELSE NULL

Node(p) == grammar.node[p]

\* vtable->higher: every parser but the primitives below.  Three of them are
\* primitives in the code although they call h_do_parse themselves.
Primitives == {"ch", "token", "end", "epsilon", "nothing",
               "whitespace", "int_range", "length_value"}
higher(p) == Node(p).kind \notin Primitives

Top == stack[Len(stack)]
Local == locals[Len(locals)]
Env == Node(Top.p)

\* h_read_bits(stream, 8, false) on a byte aligned stream, k bytes ahead: 0
\* beyond the end of the input.
ByteAt(s, k) ==
  IF s.index + k <= Len(input) THEN input[s.index + k] ELSE 0

\* The stream after n such reads: a read beyond the end only sets overrun.
After(s, n) ==
  IF s.index + n <= Len(input)
    THEN [s EXCEPT !.index = @ + n]
    ELSE [s EXCEPT !.index = Len(input), !.overrun = TRUE]

-----------------------------------------------------------------------------
(* Control: what the code running on top of the stack does next. *)

\* It calls h_do_parse(q, state) with the stream at s.
CallParse(q, s, loc) ==
  /\ pc' = "call"
  /\ arg' = q
  /\ input_stream' = s
  /\ locals' = [locals EXCEPT ![Len(locals)] = loc]
  /\ UNCHANGED <<ret, stack, results, next>>

\* It returns r, a result that exists already or NULL.
Return(r, s) ==
  /\ pc' = "return"
  /\ ret' = r
  /\ input_stream' = s
  /\ UNCHANGED <<arg, frame_vars, results, next>>

\* It returns make_result(arena, ast).
ReturnNew(ast, s) ==
  /\ pc' = "return"
  /\ ret' = next
  /\ results' = Bind(results, next, [ast |-> ast, bit_length |-> 0])
  /\ next' = next + 1
  /\ input_stream' = s
  /\ UNCHANGED <<arg, frame_vars>>

\* The parse function of this kind is running.
Running(kind) == pc = "run" /\ Env.kind = kind

\* The i-th call it made came back with nothing, or with a result.
ChildFailed == Local.i > 0 /\ ret = NULL
ChildMatched == Local.i > 0 /\ ret # NULL

Ast(r) == results[r].ast
token_length(r) == IF r = NULL THEN 0 ELSE results[r].bit_length
PushAst(acc, r) == IF Ast(r) = NoAst THEN acc ELSE Append(acc, Ast(r))

NewLocals == [i |-> 0, acc |-> <<>>, bak |-> input_stream, r1 |-> NULL,
              after |-> input_stream, in_sep |-> FALSE, repeat |-> <<>>,
              path |-> <<>>]

-----------------------------------------------------------------------------
(* Primitive parsers. *)

ParseCh ==   \* parse_ch and parse_charset
  /\ Running("ch")
  /\ LET c == ByteAt(input_stream, 1) IN
     \/ /\ c \in Env.chars
        /\ ReturnNew(Uint(c), After(input_stream, 1))
     \/ /\ c \notin Env.chars
        /\ Return(NULL, After(input_stream, 1))

ParseToken ==
  /\ Running("token")
  /\ LET wrong == {k \in DOMAIN Env.str : Env.str[k] # ByteAt(input_stream, k)}
     IN \/ /\ wrong = {}
           /\ ReturnNew(Bytes(Env.str), After(input_stream, Len(Env.str)))
        \/ \E k \in wrong :
             /\ \A j \in wrong : k <= j
             /\ Return(NULL, After(input_stream, k))

ParseEnd ==
  /\ Running("end")
  /\ \/ /\ input_stream.index = Len(input)
        /\ ReturnNew(NoAst, input_stream)
     \/ /\ input_stream.index # Len(input)
        /\ Return(NULL, input_stream)

ParseEpsilon == Running("epsilon") /\ ReturnNew(NoAst, input_stream)

ParseNothing == Running("nothing") /\ Return(NULL, input_stream)

\* Reads bytes until one is no space (or the input ends), steps back over it
\* and runs the inner parser there.
ParseWhitespace ==
  /\ Running("whitespace")
  /\ \/ /\ Local.i = 0
        /\ \E n \in 0 .. Len(input) - input_stream.index :
             /\ \A k \in 1..n : ByteAt(input_stream, k) \in Env.spaces
             /\ \/ input_stream.index + n = Len(input)
                \/ ByteAt(input_stream, n + 1) \notin Env.spaces
             /\ CallParse(Env.sub[1], [input_stream EXCEPT !.index = @ + n],
                          [Local EXCEPT !.i = 1])
     \/ /\ Local.i = 1
        /\ Return(ret, input_stream)

-----------------------------------------------------------------------------
(* Combinators that run their parsers one after the other. *)

ParseSequence ==
  /\ Running("sequence")
  /\ LET acc == IF ChildMatched THEN PushAst(Local.acc, ret) ELSE Local.acc IN
     \/ /\ ChildFailed
        /\ Return(NULL, input_stream)
     \/ /\ ~ChildFailed
        /\ Local.i < Len(Env.sub)
        /\ CallParse(Env.sub[Local.i + 1], input_stream,
                     [Local EXCEPT !.i = @ + 1, !.acc = acc])
     \/ /\ ~ChildFailed
        /\ Local.i = Len(Env.sub)
        /\ ReturnNew(Seq_(acc), input_stream)

\* h_left, h_right and h_middle: the result of one parser is forwarded.
ParseIgnoreSeq ==
  /\ Running("ignoreseq")
  /\ LET res == IF Local.i = Env.which THEN ret ELSE Local.r1 IN
     \/ /\ ChildFailed
        /\ Return(NULL, input_stream)
     \/ /\ ~ChildFailed
        /\ Local.i < Len(Env.sub)
        /\ CallParse(Env.sub[Local.i + 1], input_stream,
                     [Local EXCEPT !.i = @ + 1, !.r1 = res])
     \/ /\ ~ChildFailed
        /\ Local.i = Len(Env.sub)
        /\ Return(res, input_stream)

\* An HRepeat: the element p, an optional separator, and how often.
HRepeat(p, sep, count, min_p) ==
  [p |-> p, sep |-> sep, count |-> count, min_p |-> min_p]

\* The loop of parse_many, with count elements read and the stream at s.
Iterate(env, count, acc, s) ==
  \/ /\ env.min_p \/ env.count > count
     /\ LET in_sep == count > 0 /\ env.sep # <<>> IN
        CallParse(IF in_sep THEN env.sep[1] ELSE env.p, s,
                  [Local EXCEPT !.i = count + 1, !.acc = acc, !.bak = s,
                                !.in_sep = in_sep, !.repeat = <<env>>])
  \/ /\ ~env.min_p /\ env.count <= count
     /\ ReturnNew(Seq_(acc), s)

\* A call it made has returned; i - 1 elements were read before that call.
RepeatReturns ==
  LET env == Local.repeat[1] IN
  \/ /\ ChildMatched /\ Local.in_sep
     /\ CallParse(env.p, input_stream, [Local EXCEPT !.in_sep = FALSE])
  \/ /\ ChildMatched /\ ~Local.in_sep
     /\ Iterate(env, Local.i, PushAst(Local.acc, ret), input_stream)
  \/ /\ ChildFailed /\ Local.i - 1 >= env.count
     /\ ReturnNew(Seq_(Local.acc), Local.bak)
  \/ /\ ChildFailed /\ Local.i - 1 < env.count
     /\ Return(NULL, Local.bak)

ParseMany ==
  /\ Running("many")
  /\ \/ /\ Local.i = 0
        /\ Iterate(HRepeat(Env.sub[1], Env.sep, Env.count, Env.min_p), 0, <<>>,
                   input_stream)
     \/ Local.i > 0 /\ RepeatReturns

-----------------------------------------------------------------------------
(* Combinators that back up and try again. *)

\* Mutant: the index of the alternative is not advanced.
ParseChoice_Stuck ==
  /\ Running("choice")
  /\ \/ /\ ChildMatched
        /\ Return(ret, input_stream)
     \/ /\ ~ChildMatched
        /\ CallParse(Env.sub[Local.i + 1], Local.bak, [Local EXCEPT !.i = 1])

ParseChoice ==
  /\ Running("choice")
  /\ \/ /\ ChildMatched
        /\ Return(ret, input_stream)
     \/ /\ ~ChildMatched
        /\ Local.i < Len(Env.sub)
        /\ CallParse(Env.sub[Local.i + 1],
                     IF Local.i = 0 THEN input_stream ELSE Local.bak,
                     [Local EXCEPT !.i = @ + 1])
     \/ /\ ~ChildMatched
        /\ Local.i = Len(Env.sub)
        /\ Return(NULL, input_stream)

\* Combinators with one parser start by calling it.
CallOnly == /\ Local.i = 0
            /\ CallParse(Env.sub[1], input_stream, [Local EXCEPT !.i = 1])

\* length_value: the first parser reads how often the second one is run.  A
\* length that is no unsigned number stops the program.
ParseLengthValue ==
  /\ Running("length_value")
  /\ \/ CallOnly
     \/ /\ Local.repeat = <<>> /\ ChildFailed
        /\ Return(NULL, input_stream)
     \/ /\ Local.repeat = <<>> /\ ChildMatched
        /\ Ast(ret)[1] = "TT_UINT"
        /\ Iterate(HRepeat(Env.sub[2], <<>>, Ast(ret)[2], FALSE), 0, <<>>,
                   input_stream)
     \/ Local.repeat # <<>> /\ RepeatReturns

\* parse_permutation_tail.  path has one entry per activation, the innermost
\* last: the parser it is trying, and the stream it began with.  The parsers
\* that path names above the innermost activation are the ones taken.
Available(path) ==
  {j \in DOMAIN Env.sub : \A k \in 1 .. Len(path) - 1 : path[k].i # j}

\* The innermost activation tries the next available parser, or it is over:
\* with success if all those left were empty optionals, and otherwise with a
\* failure that its caller goes on from (or that parse_permutation returns).
PermutationTail(path, elements) ==
  LET level == path[Len(path)]
      left == Available(path)
      untried == {j \in left : j > level.i}
      empty == \A j \in left : elements[j] = TTNone
  IN \/ \E j \in untried :
          /\ \A k \in untried : j <= k
          /\ CallParse(Env.sub[j], level.bak,
                       [Local EXCEPT !.i = 1, !.acc = elements,
                          !.path = [path EXCEPT ![Len(path)].i = j]])
     \/ /\ untried = {} /\ empty
        /\ ReturnNew(Seq_(elements), level.bak)
     \/ /\ untried = {} /\ ~empty /\ Len(path) = 1
        /\ Return(NULL, level.bak)
     \/ /\ untried = {} /\ ~empty /\ Len(path) > 1
        /\ locals' = [locals EXCEPT ![Len(locals)] =
                        [Local EXCEPT !.i = 2, !.acc = elements,
                           !.path = SubSeq(path, 1, Len(path) - 1)]]
        /\ UNCHANGED <<pc, arg, ret, input_stream, stack, results, next>>

ParsePermutation ==
  /\ Running("permutation")
  /\ LET path == Local.path
         begin == [i |-> 0, bak |-> input_stream]
         elements == IF ret = NULL THEN Local.acc
                     ELSE [Local.acc EXCEPT ![path[Len(path)].i] = Ast(ret)]
         match == ret # NULL /\ Ast(ret) # TTNone
     IN \/ /\ Local.i = 0
           /\ PermutationTail(<<begin>>, [j \in DOMAIN Env.sub |-> NoAst])
        \/ /\ Local.i = 1 /\ match /\ Len(path) = Len(Env.sub)
           /\ ReturnNew(Seq_(elements), input_stream)
        \/ /\ Local.i = 1 /\ match /\ Len(path) < Len(Env.sub)
           /\ PermutationTail(Append(path, begin), elements)
        \/ /\ Local.i = 1 /\ ~match
           /\ PermutationTail(path, elements)
        \/ /\ Local.i = 2
           /\ PermutationTail(path, Local.acc)

ParseOptional ==
  /\ Running("optional")
  /\ \/ CallOnly
     \/ ChildMatched /\ Return(ret, input_stream)
     \/ ChildFailed /\ ReturnNew(TTNone, Local.bak)

ParseAnd ==
  /\ Running("and")
  /\ \/ CallOnly
     \/ ChildMatched /\ ReturnNew(NoAst, Local.bak)
     \/ ChildFailed /\ Return(NULL, Local.bak)

ParseNot ==
  /\ Running("not")
  /\ \/ CallOnly
     \/ ChildMatched /\ Return(NULL, input_stream)
     \/ ChildFailed /\ ReturnNew(NoAst, Local.bak)

\* butnot and difference: p1 is kept unless p2 also matches from the start and
\* p1's text is too short, which is all that tells the two apart.
TooShort(r1, r2) ==
  IF Env.kind = "butnot" THEN token_length(r1) <= token_length(r2)
                         ELSE token_length(r1) < token_length(r2)

ParseButNot ==
  /\ Running("butnot") \/ Running("difference")
  /\ \/ CallOnly
     \/ /\ Local.i = 1 /\ ChildFailed
        /\ Return(NULL, input_stream)
     \/ /\ Local.i = 1 /\ ChildMatched
        /\ CallParse(Env.sub[2], Local.bak,
                     [Local EXCEPT !.i = 2, !.r1 = ret, !.after = input_stream])
     \/ /\ Local.i = 2
        /\ Return(IF ChildMatched /\ TooShort(Local.r1, ret)
                    THEN NULL ELSE Local.r1, Local.after)

ParseXor ==
  /\ Running("xor")
  /\ \/ CallOnly
     \/ /\ Local.i = 1
        /\ CallParse(Env.sub[2], Local.bak,
                     [Local EXCEPT !.i = 2, !.r1 = ret, !.after = input_stream])
     \/ /\ Local.i = 2 /\ Local.r1 = NULL
        /\ Return(ret, input_stream)
     \/ /\ Local.i = 2 /\ Local.r1 # NULL /\ ChildFailed
        /\ Return(Local.r1, Local.after)
     \/ /\ Local.i = 2 /\ Local.r1 # NULL /\ ChildMatched
        /\ Return(NULL, input_stream)

-----------------------------------------------------------------------------
(* Combinators that pass on, filter or replace one result. *)

\* int_range passes on an unsigned number within its range.
ParseIntRange ==
  /\ Running("int_range")
  /\ LET holds == ChildMatched /\ \E v \in Env.range : Ast(ret) = Uint(v) IN
     \/ CallOnly
     \/ Local.i = 1 /\ holds /\ Return(ret, input_stream)
     \/ Local.i = 1 /\ ~holds /\ Return(NULL, input_stream)

ParseIndirect ==
  /\ Running("indirect")
  /\ \/ CallOnly
     \/ Local.i = 1 /\ Return(ret, input_stream)

ParseIgnore ==
  /\ Running("ignore")
  /\ \/ CallOnly
     \/ ChildMatched /\ ReturnNew(NoAst, input_stream)
     \/ ChildFailed /\ Return(NULL, input_stream)

\* The user's action is a function of the matched tree.
ParseAction ==
  /\ Running("action")
  /\ \/ CallOnly
     \/ ChildMatched /\ ReturnNew(<<Env.tag, Ast(ret)>>, input_stream)
     \/ ChildFailed /\ Return(NULL, input_stream)

\* The user's predicate is the set of trees it accepts.
ParseAttrBool ==
  /\ Running("attr_bool")
  /\ LET holds == ChildMatched /\ Ast(ret) # NoAst /\ Ast(ret) \in Env.accept IN
     \/ CallOnly
     \/ Local.i = 1 /\ holds /\ Return(ret, input_stream)
     \/ Local.i = 1 /\ ~holds /\ Return(NULL, input_stream)

\* Mutant: a name can be bound again.
ParsePut_Rename ==
  /\ Running("put")
  /\ \/ CallOnly /\ UNCHANGED symbol_table
     \/ /\ ChildFailed
        /\ Return(NULL, input_stream)
        /\ UNCHANGED symbol_table
     \/ /\ ChildMatched
        /\ symbol_table' = Bind(symbol_table, Env.name, ret)
        /\ Return(ret, input_stream)

\* h_put_value: fails when the name is bound already.  h_symbol_put asserts
\* that it is still free after the inner parser has run; where the assertion
\* fails the program stops (see SymbolAssert in module Packrat).
ParsePut ==
  /\ Running("put")
  /\ \/ /\ Local.i = 0 /\ Env.name \in DOMAIN symbol_table
        /\ Return(NULL, input_stream)
        /\ UNCHANGED symbol_table
     \/ /\ Env.name \notin DOMAIN symbol_table
        /\ CallOnly
        /\ UNCHANGED symbol_table
     \/ /\ ChildFailed
        /\ Return(NULL, input_stream)
        /\ UNCHANGED symbol_table
     \/ /\ ChildMatched /\ Env.name \notin DOMAIN symbol_table
        /\ symbol_table' = Bind(symbol_table, Env.name, ret)
        /\ Return(ret, input_stream)

ParseGet ==
  /\ Running("get")
  /\ Return(Get(symbol_table, Env.name), input_stream)

ParsePrimitive ==
  \/ ParseCh \/ ParseToken \/ ParseEnd \/ ParseEpsilon \/ ParseNothing
  \/ ParseWhitespace \/ ParseIntRange \/ ParseLengthValue

ParseHigher ==
  \/ ParseSequence \/ ParseIgnoreSeq \/ ParseMany \/ ParseChoice
  \/ ParseOptional \/ ParseAnd \/ ParseNot \/ ParseButNot \/ ParseXor
  \/ ParseIndirect \/ ParseIgnore \/ ParseAction \/ ParseAttrBool \/ ParseGet
  \/ ParsePermutation

\* One step of vtable->parse.
Parse ==
  /\ \/ (ParsePrimitive \/ ParseHigher) /\ UNCHANGED symbol_table
     \/ ParsePut
  /\ UNCHANGED <<grammar, input>>

=============================================================================
