-------------------------------- MODULE LLk --------------------------------
(* The LL(k) driver of llk.c under the suspended parser of hammer.c: input   *)
(* comes in chunks, the driver stops when a chunk ends, and lookahead that   *)
(* spans chunks is kept in a window, s->win over s->buf.                     *)
(*                                                                           *)
(* One round of the loop in llk_parse_chunk_ is one step.  The parse table   *)
(* is a constant of a behaviour, whoever built it.                           *)
EXTENDS Integers, SequencesExt

CONSTANTS
  Grammars,      \* the grammars, see module CFGrammar
  TablesOf(_),   \* the parse tables of a grammar
  Bytes,         \* bytes of the input
  MaxInput       \* bound on the length of the input

ASSUME BytesAssumption == Bytes \subseteq 0..255 /\ MaxInput \in Nat

END == "end"

\* The right sides are sequences of symbols.  The rows of a table map strings
\* of at most kmax bytes, the end marker counted, to productions.
SymbolsOf(g) == DOMAIN g.seq \cup DOMAIN g.charset \cup {END}
ASSUME TablesAssumption ==
  \A g \in Grammars : \A t \in TablesOf(g) :
    /\ t.kmax \in Nat \ {0}
    /\ \A x \in DOMAIN g.seq :
         /\ \A p \in DOMAIN g.seq[x] : p \in Nat \ {0} /\ g.seq[x][p] \in Seq(SymbolsOf(g))
         /\ \A r \in DOMAIN t.rows[x] : /\ r \in Seq(0..256) /\ Len(r) \in 1..t.kmax
                                        /\ t.rows[x][r] \in DOMAIN g.seq[x]

VARIABLES
  grammar, table,  \* constant
  input,     \* the bytes given so far (history)
  done, pos, \* s->done and s->pos of the HSuspendedParser
  stack,     \* state->stack, the top first
  seq,       \* state->seq
  failed,    \* state->seq is NULL
  win, buf,  \* state->win and state->buf
  chunk,     \* the stream of the running call of llk_parse_chunk_
  stream,    \* which of the two is read, "win" or "chunk"
  pc,        \* "idle", or the running call: "chunk", "finish" or "parse";
             \* "done" when there is a result, "abort" after a failed assertion
  result     \* what h_parse_finish or h_parse returned: <<>> for NULL

vars == <<grammar, table, input, done, pos, stack, seq, failed, win, buf, chunk,
          stream, pc, result>>
front == <<grammar, table, input, done, pos, pc, result>>
back == <<stack, seq, failed>>

EndMark == 256
NoProduction == 0
NEED_INPUT == -1

kmax == table.kmax

\* Elements of the stack: symbols, delimiters, nonterminals and sequences that
\* were put aside.
Symbol(x) == [is |-> "symbol", symbol |-> x]
MARK == [is |-> "MARK"]
Saved(s) == [is |-> "seq", seq |-> s]
IsNT(x) == x \in DOMAIN grammar.seq

\* Result tokens.
Leaf(c) == [type |-> "TT_UINT", uint |-> c]
Node(s) == [type |-> "TT_SEQUENCE", seq |-> s]
NoToken == [type |-> "NULL"]

Stream(bytes, p, last) ==
  [input |-> bytes, index |-> 0, length |-> Len(bytes), pos |-> p,
   overrun |-> FALSE, last_chunk |-> last]

NoChunk == Stream(<<>>, 0, FALSE)     \* between calls

Init ==
  /\ grammar \in Grammars
  /\ table \in TablesOf(grammar)
  /\ input = <<>> /\ done = FALSE /\ pos = 0
  /\ stack = <<Symbol(table.start)>>
  /\ seq = <<>> /\ failed = FALSE
  /\ win = NoChunk /\ buf = [i \in 1..2 * table.kmax |-> 0]
  /\ chunk = NoChunk /\ stream = "chunk"
  /\ pc = "idle" /\ result = <<>>

-----------------------------------------------------------------------------
(* The window. *)

Slice(s, from, n) == SubSeq(s, from + 1, from + n)

\* append_win: up to kmax bytes of the new chunk go behind the old ones.
Appended(c) == LET n == IF c.length - c.index > kmax THEN kmax ELSE c.length - c.index
               IN Slice(c.input, c.index, n)
append_win(c) ==
  /\ buf' = SubSeq(buf, 1, kmax) \o Appended(c)
              \o SubSeq(buf, kmax + Len(Appended(c)) + 1, 2 * kmax)
  /\ win' = [win EXCEPT !.length = @ + Len(Appended(c))]

\* save_win: what is left of the old bytes and the chunk moves down to end at
\* kmax.  The other fields are those of the chunk.
Left(c) == c.length - c.index
Kept_New(c) == Slice(c.input, c.index, Left(c))
Kept(c) == IF win.length > 0 THEN Slice(buf, win.index, win.length - win.index)
                             ELSE Slice(c.input, c.index, Left(c))
save_win_Length(c) ==
  IF Left(c) = 0 THEN UNCHANGED <<win, buf>>
  ELSE /\ buf' = SubSeq(buf, 1, kmax - Len(Kept(c))) \o Kept(c)
                   \o SubSeq(buf, kmax + 1, 2 * kmax)
       /\ win' = [c EXCEPT !.input = <<>>, !.index = kmax - Len(Kept(c))]
save_win(c) ==
  IF Left(c) = 0 THEN UNCHANGED <<win, buf>>
  ELSE /\ buf' = SubSeq(buf, 1, kmax - Len(Kept(c))) \o Kept(c)
                   \o SubSeq(buf, kmax + 1, 2 * kmax)
       /\ win' = [c EXCEPT !.input = <<>>, !.index = kmax - Len(Kept(c)), !.length = kmax]

\* The stream that is read; the bytes of the window are in buf.
Current == IF stream = "win" THEN [win EXCEPT !.input = buf] ELSE chunk
Ahead(s) == Slice(s.input, s.index, s.length - s.index)

-----------------------------------------------------------------------------
(* Lookahead. *)

\* The production that the row of x gives for the bytes of a stream.
h_llk_lookup(x, s) ==
  LET row == table.rows[x]
      w == Ahead(s)
      upTo(n) == SubSeq(w, 1, n)
      hits == {n \in 0..Len(w) : upTo(n) \in DOMAIN row}
      known(p) == \E r \in DOMAIN row : IsPrefix(p, r)
  IN IF hits # {} THEN row[upTo(CHOOSE n \in hits : \A m \in hits : n <= m)]
     ELSE IF ~known(w) THEN NoProduction
     ELSE IF ~s.last_chunk THEN NEED_INPUT
     ELSE IF Append(w, EndMark) \in DOMAIN row THEN row[Append(w, EndMark)]
     ELSE NoProduction

-----------------------------------------------------------------------------
(* The calls of the user. *)

\* The beginning of llk_parse_chunk_: the window is read first, if there is one.
Run(call, c) ==
  /\ pc = "idle" /\ ~done
  /\ pc' = call
  /\ chunk' = c
  /\ IF win.length > 0
     THEN append_win(c) /\ stream' = "win"
     ELSE stream' = "chunk" /\ UNCHANGED <<win, buf>>
  /\ UNCHANGED <<grammar, table, done, pos, result>>
  /\ UNCHANGED back

h_parse_chunk(bytes) ==
  /\ Run("chunk", Stream(bytes, pos, FALSE))
  /\ input' = input \o bytes

\* The end of the input is an empty chunk.
h_parse_finish == Run("finish", Stream(<<>>, pos, TRUE)) /\ UNCHANGED input

\* Everything in one call.
h_parse(bytes) ==
  /\ input = <<>>
  /\ Run("parse", Stream(bytes, 0, TRUE))
  /\ input' = bytes

\* llk_parse_finish_.
ResultOf(sq, bits) == <<[ast |-> sq[1], bit_length |-> bits]>>

\* h_parse_finish when the parser is done already.
FinishDone ==
  /\ pc = "idle" /\ done
  /\ pc' = "done"
  /\ result' = IF failed THEN <<>> ELSE ResultOf(seq, pos * 8)
  /\ UNCHANGED <<grammar, table, input, done, pos, stack, seq, failed, win, buf,
                 chunk, stream>>

-----------------------------------------------------------------------------
(* Returning from llk_parse_chunk_. *)

\* st and sq are the stack and the sequence, f says that there is no parse, c
\* is the chunk as it was left.
Leave_Reset(st, sq, f, c) ==
  /\ stack' = st /\ seq' = sq /\ failed' = f
  /\ chunk' = NoChunk
  /\ done' = (f \/ st = <<>>)
  /\ pos' = IF pc = "chunk" THEN c.index ELSE pos
  /\ pc' = CASE pc = "chunk" -> "idle"
             [] pc = "finish" /\ ~done' -> "abort"
             [] OTHER -> "done"
  /\ result' = IF f \/ pc' # "done" THEN <<>>
               ELSE ResultOf(sq, 8 * IF pc = "finish" THEN pos ELSE c.index)
  /\ UNCHANGED <<grammar, table, input>>

Leave(st, sq, f, c) ==
  /\ stack' = st /\ seq' = sq /\ failed' = f
  /\ chunk' = NoChunk
  /\ done' = (f \/ st = <<>>)
  /\ pos' = IF pc = "chunk" THEN pos + c.index ELSE pos
  /\ pc' = CASE pc = "chunk" -> "idle"
             [] pc = "finish" /\ ~done' -> "abort"     \* assert(s->done)
             [] OTHER -> "done"
  /\ result' = IF f \/ pc' # "done" THEN <<>>
               ELSE ResultOf(sq, 8 * IF pc = "finish" THEN pos ELSE c.index)
  /\ UNCHANGED <<grammar, table, input>>

no_parse(c) == Leave(stack, seq, TRUE, c)

\* The symbol is tried again with the next chunk; last is the last_chunk of
\* the stream that was read.
need_input_Always(last, c) == Leave(stack, seq, FALSE, c)
need_input_Again(last, c) ==
  IF last THEN no_parse(c)
  ELSE chunk' = c /\ UNCHANGED back /\ UNCHANGED front
need_input(last, c) == IF last THEN no_parse(c) ELSE Leave(stack, seq, FALSE, c)

-----------------------------------------------------------------------------
(* The rounds of the loop. *)

Running == pc \in {"chunk", "finish", "parse"}
Top == Head(stack)
OnSymbol == Running /\ stack # <<>> /\ Top.is = "symbol"

\* An empty stack ends the parse.
Success ==
  /\ Running /\ stack = <<>>
  /\ Leave(stack, seq, FALSE, chunk)
  /\ UNCHANGED <<win, buf, stream>>

\* A nonterminal is replaced by the right side of a production, in a frame of
\* its own.
Predict ==
  /\ OnSymbol /\ IsNT(Top.symbol)
  /\ LET x == Top.symbol
         p == h_llk_lookup(x, Current)
     IN \/ /\ p = NoProduction
           /\ no_parse(chunk)
           /\ UNCHANGED <<win, buf, stream>>
        \/ /\ p = NEED_INPUT
           /\ save_win(chunk)
           /\ need_input(IF stream = "win" THEN win'.last_chunk
                                           ELSE chunk.last_chunk, chunk)
           /\ UNCHANGED stream
        \/ /\ p > 0
           /\ stack' = [i \in DOMAIN grammar.seq[x][p] |-> Symbol(grammar.seq[x][p][i])]
                         \o <<MARK, Top, Saved(seq)>> \o Tail(stack)
           /\ seq' = <<>>
           /\ UNCHANGED <<failed, win, buf, chunk, stream>>
           /\ UNCHANGED front

\* The result of a symbol is validated and appended to the sequence of its
\* frame; reshape and action only exchange the token.
Record(x, tok, st, sq, c) ==
  IF tok \in grammar.refused[x] THEN no_parse(c)
  ELSE /\ stack' = st /\ seq' = Append(sq, tok) /\ chunk' = c
       /\ UNCHANGED failed /\ UNCHANGED front

\* The frame is complete: its sequence is a token of the surrounding one.
Close ==
  /\ Running /\ stack # <<>> /\ Top = MARK
  /\ Record(stack[2].symbol, Node(seq), SubSeq(stack, 4, Len(stack)), stack[3].seq, chunk)
  /\ UNCHANGED <<win, buf, stream>>

\* h_read_bits(stream, 8, false), and the change from the window to the chunk
\* when the old bytes are used up.
Read_Late ==
  /\ buf' = buf
  /\ IF stream = "win"
     THEN LET n == win.index + 1
          IN /\ win' = [win EXCEPT !.index = n, !.length = IF n >= @ THEN 0 ELSE @]
             /\ stream' = IF n >= win.length THEN "chunk" ELSE "win"
     ELSE UNCHANGED <<win, stream>>
Read ==
  /\ buf' = buf
  /\ IF stream = "win"
     THEN LET n == win.index + 1
          IN /\ win' = [win EXCEPT !.index = n, !.length = IF n >= kmax THEN 0 ELSE @]
             /\ stream' = IF n >= kmax THEN "chunk" ELSE "win"
     ELSE UNCHANGED <<win, stream>>
AfterRead == IF stream = "win" THEN chunk
             ELSE IF chunk.index = chunk.length THEN [chunk EXCEPT !.overrun = TRUE]
             ELSE [chunk EXCEPT !.index = @ + 1]

\* A terminal is matched with the next byte.
Terminal ==
  /\ OnSymbol /\ ~IsNT(Top.symbol)
  /\ Read
  /\ LET x == Top.symbol
         c == AfterRead
         now == IF stream' = "win" THEN win' ELSE c    \* the stream from here on
         byte == Ahead(Current)[1]
         wants == IF x = END THEN {} ELSE grammar.charset[x]
     IN \/ /\ now.overrun /\ x = END /\ now.last_chunk
           /\ Record(x, NoToken, Tail(stack), seq, c)
        \/ /\ now.overrun /\ ~(x = END /\ now.last_chunk)
           /\ need_input(now.last_chunk, c)
        \/ /\ ~now.overrun /\ byte \notin wants
           /\ no_parse(c)
        \/ /\ ~now.overrun /\ byte \in wants
           /\ Record(x, Leaf(byte), Tail(stack), seq, c)

-----------------------------------------------------------------------------
\* All inputs up to the bound.
Room == MaxInput - Len(input)
Chunks == UNION {[1..n -> Bytes] : n \in 0..Room}

Next ==
  \/ \E bytes \in Chunks : h_parse_chunk(bytes) \/ h_parse(bytes)
  \/ h_parse_finish \/ FinishDone
  \/ Success \/ Predict \/ Close \/ Terminal

\* A call that was begun is carried on until it returns.
Fairness == WF_vars(Success \/ Predict \/ Close \/ Terminal)

Spec == Init /\ [][Next]_vars /\ Fairness

-----------------------------------------------------------------------------
(* Properties. *)

\* The assertions of append_win and save_win: between chunks an active window
\* is full up to kmax and has bytes left to read, and when the driver asks for
\* input the rest of the chunk fits behind them.
WindowAsserts ==
  /\ pc = "idle" /\ ~done /\ win.length > 0 => win.length = kmax /\ win.index < kmax
  /\ OnSymbol /\ IsNT(Top.symbol) /\ h_llk_lookup(Top.symbol, Current) = NEED_INPUT =>
       /\ Left(chunk) < kmax
       /\ Left(chunk) > 0 /\ win.length > 0 =>
            /\ win.length = kmax + Left(chunk)
            /\ win.index <= kmax
            /\ Len(Kept(chunk)) <= kmax

\* The assertion of llk_parse_chunk_ and llk_parse_finish_: a parse that ends
\* well has exactly one result.
OneResult == (stack = <<>> \/ result # <<>>) /\ ~failed => Len(seq) = 1

\* Both hold, whatever chunks the input came in.
NoAbort == WindowAsserts /\ OneResult

\* The assertion of h_parse_finish: the parser is done after the last, empty
\* chunk.
FinishAssert == pc # "abort"

\* With one byte of lookahead, the default, it holds.
FinishAssertLL1 == kmax = 1 => FinishAssert

\* The bytes that were given and are not read yet: the old ones in the window,
\* then those of the chunk.
Unread ==
  (IF win.length > 0 THEN Slice(buf, win.index, kmax - win.index) ELSE <<>>) \o Ahead(chunk)

\* The stream that h_llk_lookup looks at has the next kmax bytes, or all there are.
SeesNext ==
  LET a == Ahead(Current) IN IsPrefix(a, Unread) /\ (a = Unread \/ Len(a) >= kmax)

\* A terminal is matched.
Matched == OnSymbol /\ ~IsNT(Top.symbol) /\ Top.symbol # END /\ stack' # stack

InOrderStep ==
  ~done' =>
    IF input' # input
    THEN Unread' = Unread \o SubSeq(input', Len(input) + 1, Len(input'))
    ELSE IF Matched
    THEN /\ Unread # <<>> /\ Unread' = Tail(Unread)
         /\ seq' = Append(seq, Leaf(Head(Unread)))
    ELSE Unread' = Unread

\* As long as the parse goes on, the chunks and the window between them are one stream:
\* no byte is lost, read twice or read out of order, wherever a chunk ends and
\* lookahead was saved, and lookahead never misses bytes that are there.
BytesInOrder == [][(Running => SeesNext) /\ InOrderStep]_vars

\* A call of h_parse or h_parse_chunk returns.
Returns == Running ~> ~Running
=============================================================================
