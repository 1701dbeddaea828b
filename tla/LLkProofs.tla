----------------------------- MODULE LLkProofs -----------------------------
(* Proofs about module LLk, for every grammar, table, input and division of  *)
(* the input into chunks: the assertions on the lookahead window and on the  *)
(* result hold, and with one byte of lookahead that of h_parse_finish too;   *)
(* and the chunks with the window between them are read as one stream.       *)
EXTENDS LLk, SequenceTheorems, WellFoundedInduction, TLAPS

\* The running call reads bytes of the chunk.
ChunkOK == /\ chunk.input \in Seq(0..256)
           /\ chunk.length = Len(chunk.input)
           /\ chunk.index \in 0..chunk.length

\* The behaviour has a table of its grammar.
TableOK == grammar \in Grammars /\ table \in TablesOf(grammar)

\* With one byte of lookahead the window is never used: the driver asks for
\* input only at the end of a chunk.  So the stream that is read when the end
\* of the input is given is the last chunk.
OnChunk == kmax = 1 => /\ win.length = 0
                       /\ Running => stream = "chunk"
                       /\ pc = "finish" => chunk.last_chunk
                       /\ pc # "abort"

IInv == TableOK /\ ChunkOK /\ OnChunk

-----------------------------------------------------------------------------

\* A part of a string of lookahead.
LEMMA Part ==
  ASSUME NEW S, NEW s \in Seq(S), NEW m \in 1..Len(s) + 1, NEW n \in m - 1..Len(s)
  PROVE  SubSeq(s, m, n) \in Seq(S) /\ Len(SubSeq(s, m, n)) = n - m + 1
<1>1. Len(s) \in Nat /\ \A j \in 1..Len(s) : s[j] \in S
  OBVIOUS
<1> DEFINE L == Len(s)
<1>2. L \in Nat /\ m \in 1..L + 1 /\ n \in m - 1..L
  BY <1>1
<1>3. m \in Int /\ n \in Int /\ m \in Nat /\ m >= 1 /\ n <= L /\ m - 1 <= n
  <2> HIDE DEF L
  <2> QED
    BY <1>2
<1>4. \A j \in m..n : j \in 1..L
  <2> HIDE DEF L
  <2> QED
    BY <1>2, <1>3
<1>5. \A j \in m..n : s[j] \in S
  BY <1>1, <1>4
<1>6. n - m + 1 = IF m <= n THEN n - m + 1 ELSE 0
  BY <1>3
<1>7. QED
  BY <1>3, <1>5, <1>6, SubSeqProperties

\* A set of natural numbers has a least element.
LEMMA Least ==
  ASSUME NEW S \in SUBSET Nat, S # {}
  PROVE  \E m \in S : \A n \in S : m <= n
<1> DEFINE R == OpToRel(<, Nat)
<1>1. \A x, y \in Nat : y < x => <<y, x>> \in R
  BY DEF OpToRel
<1>2. IsWellFoundedOn(R, Nat)
  BY NatLessThanWellFounded
<1> HIDE DEF R
<1>3. PICK m \in S : \A n \in S : ~(<<n, m>> \in R)
  BY <1>2, WFMin
<1>4. ASSUME NEW n \in S PROVE m <= n
  <2>1. n \in Nat /\ m \in Nat /\ ~(n < m)
    BY <1>1, <1>3
  <2>2. QED
    BY <2>1
<1>5. QED
  BY <1>4

\* The bytes of a stream that are not read yet.
StreamOK(s) == /\ s.input \in Seq(0..256)
               /\ s.length \in 0..Len(s.input)
               /\ s.index \in 0..s.length

LEMMA AheadOf ==
  ASSUME NEW s, StreamOK(s)
  PROVE  Ahead(s) \in Seq(0..256) /\ Len(Ahead(s)) = s.length - s.index
<1> DEFINE b == s.input
           i == s.index
           l == s.length
<1>1. b \in Seq(0..256) /\ l \in 0..Len(b) /\ i \in 0..l /\ Len(b) \in Nat
  BY DEF StreamOK
<1>2. Ahead(s) = SubSeq(b, i + 1, i + (l - i))
  BY DEF Ahead, Slice
<1> HIDE DEF b, i, l
<1>3. i + (l - i) = l /\ i + 1 \in 1..Len(b) + 1 /\ l \in (i + 1) - 1..Len(b) /\ l - (i + 1) + 1 = l - i
  BY <1>1
<1>4. SubSeq(b, i + 1, l) \in Seq(0..256) /\ Len(SubSeq(b, i + 1, l)) = l - (i + 1) + 1
  BY <1>1, <1>3, Part
<1>5. QED
  BY <1>2, <1>3, <1>4 DEF i, l

\* What a row says.  The driver asks for input when the bytes it has are a
\* proper prefix of a string of the row, so there are less than kmax of them.
LEMMA Lookup ==
  ASSUME TableOK, NEW x, IsNT(x), NEW s, StreamOK(s)
  PROVE  /\ h_llk_lookup(x, s) \in {NoProduction, NEED_INPUT} \cup DOMAIN grammar.seq[x]
         /\ h_llk_lookup(x, s) = NEED_INPUT => s.length - s.index < kmax /\ ~s.last_chunk
<1> DEFINE row == table.rows[x]
           w == Ahead(s)
           hits == {n \in 0..Len(w) : SubSeq(w, 1, n) \in DOMAIN row}
           first == CHOOSE n \in hits : \A m \in hits : n <= m
<1>1. /\ kmax \in Nat \ {0}
      /\ \A p \in DOMAIN grammar.seq[x] : p \in Nat \ {0}
      /\ \A r \in DOMAIN row : /\ r \in Seq(0..256) /\ Len(r) \in 1..kmax
                               /\ row[r] \in DOMAIN grammar.seq[x]
  <2>1. grammar \in Grammars /\ table \in TablesOf(grammar) /\ x \in DOMAIN grammar.seq
    BY DEF TableOK, IsNT
  <2>2. QED
    BY <2>1, TablesAssumption DEF kmax
<1>2. w \in Seq(0..256) /\ Len(w) = s.length - s.index /\ Len(w) \in Nat
  BY AheadOf
<1> HIDE DEF w, row
<1>3. hits # {} => SubSeq(w, 1, first) \in DOMAIN row
  <2> SUFFICES ASSUME hits # {} PROVE SubSeq(w, 1, first) \in DOMAIN row
    OBVIOUS
  <2>1. hits \in SUBSET Nat
    BY <1>2
  <2> HIDE DEF hits
  <2>2. \E m \in hits : \A n \in hits : m <= n
    BY <2>1, Least
  <2>3. first \in hits
    BY <2>2
  <2>4. QED
    BY <2>3 DEF hits
<1>4. CASE hits # {}
  <2>1. h_llk_lookup(x, s) = row[SubSeq(w, 1, first)]
    BY <1>4 DEF h_llk_lookup, w, row
  <2> HIDE DEF hits, first
  <2>2. row[SubSeq(w, 1, first)] \in DOMAIN grammar.seq[x]
    BY <1>1, <1>3, <1>4
  <2>3. row[SubSeq(w, 1, first)] # NEED_INPUT
    BY <1>1, <2>2 DEF NEED_INPUT
  <2>4. QED
    BY <2>1, <2>2, <2>3
<1>5. CASE hits = {}
  <2>1. h_llk_lookup(x, s) =
          IF ~(\E r \in DOMAIN row : IsPrefix(w, r)) THEN NoProduction
          ELSE IF ~s.last_chunk THEN NEED_INPUT
          ELSE IF Append(w, EndMark) \in DOMAIN row THEN row[Append(w, EndMark)]
          ELSE NoProduction
    BY <1>5 DEF h_llk_lookup, w, row
  <2>2. Append(w, EndMark) \in DOMAIN row =>
          row[Append(w, EndMark)] \in DOMAIN grammar.seq[x] /\ row[Append(w, EndMark)] # NEED_INPUT
    BY <1>1 DEF NEED_INPUT
  <2>3. NoProduction # NEED_INPUT
    BY DEF NoProduction, NEED_INPUT
  <2>4. ASSUME NEW r \in DOMAIN row, IsPrefix(w, r)
        PROVE  Len(w) < kmax
    <3>1. r \in Seq(0..256) /\ Len(r) \in 1..kmax
      BY <1>1
    <3>2. Len(w) <= Len(r) /\ SubSeq(w, 1, Len(w)) = SubSeq(r, 1, Len(w))
      BY <2>4 DEF IsPrefix
    <3>3. CASE Len(w) = Len(r)
      <4>1. SubSeq(w, 1, Len(w)) = r
        BY <3>1, <3>2, <3>3, SubSeqFull
      <4>2. Len(w) \in 0..Len(w)
        BY <1>2
      <4>3. Len(w) \in hits
        BY <4>1, <4>2
      <4>4. QED
        BY <1>5, <4>3
    <3>4. CASE Len(w) # Len(r)
      <4>1. Len(r) \in Nat /\ Len(r) <= kmax
        BY <1>1, <3>1
      <4>2. QED
        BY <1>1, <1>2, <3>2, <3>4, <4>1
    <3>5. QED
      BY <3>3, <3>4
  <2> HIDE DEF hits
  <2>5. QED
    BY <1>2, <2>1, <2>2, <2>3, <2>4
<1>6. QED
  BY <1>4, <1>5

\* With one byte of lookahead a byte that is there decides.
LEMMA AsksAtEnd ==
  ASSUME IInv, kmax = 1, NEW x, IsNT(x), h_llk_lookup(x, chunk) = NEED_INPUT
  PROVE  Left(chunk) = 0 /\ ~chunk.last_chunk
<1>1. chunk.length = Len(chunk.input) /\ chunk.length \in Nat /\ chunk.index \in 0..chunk.length
  BY DEF IInv, ChunkOK
<1>2. StreamOK(chunk)
  <2>1. chunk.length \in 0..chunk.length
    BY <1>1
  <2>2. QED
    BY <1>1, <2>1 DEF StreamOK, IInv, ChunkOK
<1>3. chunk.length - chunk.index < 1 /\ ~chunk.last_chunk
  BY <1>2, Lookup DEF IInv
<1>4. QED
  BY <1>1, <1>3 DEF Left

-----------------------------------------------------------------------------

\* The window stays closed when a chunk is given.
LEMMA RunKeeps ==
  ASSUME IInv, NEW call \in {"chunk", "finish", "parse"}, NEW c,
         Run(call, c),
         c.input \in Seq(0..256), c.length = Len(c.input), c.index \in 0..c.length,
         call = "finish" => c.last_chunk
  PROVE  IInv'
<1>1. TableOK'
  BY DEF Run, IInv, TableOK
<1>2. ChunkOK'
  BY DEF Run, ChunkOK
<1>3. OnChunk'
  <2>1. SUFFICES ASSUME kmax' = 1 PROVE OnChunk'
    BY DEF OnChunk
  <2>2. kmax = 1
    BY <2>1 DEF kmax, Run
  <2>3. win.length = 0
    BY <2>2 DEF IInv, OnChunk
  <2>4. ~(win.length > 0)
    BY <2>3
  <2>5. stream' = "chunk" /\ win' = win /\ chunk' = c /\ pc' = call
    BY <2>4 DEF Run
  <2>6. QED
    BY <2>3, <2>5 DEF OnChunk
<1>4. QED
  BY <1>1, <1>2, <1>3 DEF IInv

\* So it does when a call returns, unless the end of the input leaves the
\* parser undone.
LEMMA LeaveKeeps ==
  ASSUME IInv, NEW st, NEW sq, NEW f \in BOOLEAN, NEW c,
         Leave(st, sq, f, c),
         kmax = 1 => win'.length = 0,
         kmax = 1 /\ pc = "finish" => f \/ st = <<>>
  PROVE  IInv'
<1>1. TableOK'
  BY DEF Leave, IInv, TableOK
<1>2. ChunkOK'
  BY DEF Leave, ChunkOK, NoChunk, Stream
<1>3. OnChunk'
  <2>1. SUFFICES ASSUME kmax' = 1 PROVE OnChunk'
    BY DEF OnChunk
  <2>2. kmax = 1
    BY <2>1 DEF kmax, Leave
  <2>3. pc' \in {"idle", "done", "abort"}
    BY DEF Leave
  <2>4. pc' # "abort"
    BY <2>2 DEF Leave
  <2>5. QED
    BY <2>2, <2>3, <2>4 DEF OnChunk, Running
<1>4. QED
  BY <1>1, <1>2, <1>3 DEF IInv

\* And when the parse goes on with another stack.
LEMMA GoesOn ==
  ASSUME IInv, NEW c, chunk' = c, UNCHANGED front,
         c.input \in Seq(0..256), c.length = Len(c.input), c.index \in 0..c.length,
         c.last_chunk = chunk.last_chunk,
         kmax = 1 => win'.length = 0 /\ stream' = stream
  PROVE  IInv'
<1>1. TableOK'
  BY DEF front, IInv, TableOK
<1>2. ChunkOK'
  BY DEF ChunkOK
<1>3. OnChunk'
  BY DEF front, IInv, OnChunk, kmax, Running
<1>4. QED
  BY <1>1, <1>2, <1>3 DEF IInv

\* A result that is recorded, or refused.
LEMMA RecordKeeps ==
  ASSUME IInv, NEW x, NEW tok, NEW st, NEW sq, NEW c,
         Record(x, tok, st, sq, c),
         c.input \in Seq(0..256), c.length = Len(c.input), c.index \in 0..c.length,
         c.last_chunk = chunk.last_chunk,
         kmax = 1 => win'.length = 0 /\ stream' = stream
  PROVE  IInv'
<1>1. CASE tok \in grammar.refused[x]
  BY <1>1, LeaveKeeps DEF Record, no_parse
<1>2. CASE tok \notin grammar.refused[x]
  BY <1>2, GoesOn DEF Record
<1>3. QED
  BY <1>1, <1>2

\* What the driver reads when there is no window.
LEMMA ReadsChunk ==
  ASSUME IInv, kmax = 1, Running
  PROVE  stream = "chunk" /\ win.length = 0 /\ Current = chunk
BY DEF IInv, OnChunk, Current

\* The chunk after a byte of it was read.
LEMMA ChunkAfterRead ==
  ASSUME IInv
  PROVE  /\ AfterRead.input \in Seq(0..256) /\ AfterRead.length = Len(AfterRead.input)
         /\ AfterRead.index \in 0..AfterRead.length
         /\ AfterRead.last_chunk = chunk.last_chunk
<1> DEFINE i == chunk.index
           l == chunk.length
<1>1. chunk.input \in Seq(0..256) /\ l = Len(chunk.input) /\ i \in 0..l
  BY DEF IInv, ChunkOK
<1>2. l \in Nat
  BY <1>1
<1>3. i # l => i + 1 \in 0..l
  <2> HIDE DEF i, l
  <2> QED
    BY <1>1, <1>2
<1>4. CASE stream # "win" /\ i # l
  <2>1. /\ AfterRead.input = chunk.input /\ AfterRead.length = l
        /\ AfterRead.index = i + 1 /\ AfterRead.last_chunk = chunk.last_chunk
    BY <1>4 DEF AfterRead
  <2>2. QED
    BY <1>1, <1>3, <1>4, <2>1
<1>5. CASE ~(stream # "win" /\ i # l)
  <2>1. /\ AfterRead.input = chunk.input /\ AfterRead.length = l
        /\ AfterRead.index = i /\ AfterRead.last_chunk = chunk.last_chunk
    BY <1>5 DEF AfterRead
  <2>2. QED
    BY <1>1, <2>1
<1>6. QED
  BY <1>4, <1>5

\* A new suspended parser has no window (h_llk_parse_start).
LEMMA InitOK == Init => IInv
<1>1. SUFFICES ASSUME Init PROVE IInv
  OBVIOUS
<1>2. TableOK
  BY <1>1 DEF Init, TableOK
<1>3. ChunkOK
  BY <1>1 DEF Init, ChunkOK, NoChunk, Stream
<1>4. OnChunk
  BY <1>1 DEF Init, OnChunk, NoChunk, Stream, Running
<1>5. QED
  BY <1>2, <1>3, <1>4 DEF IInv

\* The bytes of a chunk.
LEMMA ChunkOfBytes ==
  ASSUME NEW bytes \in Chunks
  PROVE  bytes \in Seq(0..256)
<1>1. PICK n \in 0..Room : bytes \in [1..n -> Bytes]
  BY DEF Chunks
<1>2. n \in Nat
  OBVIOUS
<1>3. bytes \in [1..n -> 0..256]
  <2>1. Bytes \subseteq 0..256
    BY BytesAssumption
  <2>2. QED
    BY <1>1, <2>1
<1>4. QED
  BY <1>2, <1>3

\* Looking up a production opens no window with one byte of lookahead, and asks
\* for input only if there is more to come.
LEMMA PredictKeeps ==
  ASSUME IInv, Predict
  PROVE  IInv'
<1> DEFINE x == Top.symbol
           p == h_llk_lookup(x, Current)
           last == IF stream = "win" THEN win'.last_chunk ELSE chunk.last_chunk
<1>1. Running /\ IsNT(x)
  BY DEF Predict, OnSymbol
<1>2. CASE no_parse(chunk) /\ UNCHANGED <<win, buf, stream>>
  <2>1. kmax = 1 => win'.length = 0
    BY <1>2 DEF IInv, OnChunk
  <2>2. QED
    BY <1>2, <2>1, LeaveKeeps DEF no_parse
<1>3. CASE p = NEED_INPUT /\ save_win(chunk) /\ need_input(last, chunk)
  <2>1. kmax = 1 => win'.length = 0 /\ ~last /\ pc # "finish"
    <3>1. SUFFICES ASSUME kmax = 1 PROVE win'.length = 0 /\ ~last /\ pc # "finish"
      OBVIOUS
    <3>2. stream = "chunk" /\ win.length = 0 /\ Current = chunk
      BY <1>1, <3>1, ReadsChunk
    <3>3. h_llk_lookup(x, chunk) = NEED_INPUT
      BY <1>3, <3>2
    <3>4. Left(chunk) = 0 /\ ~chunk.last_chunk
      BY <1>1, <3>1, <3>3, AsksAtEnd
    <3>5. win' = win
      BY <1>3, <3>4 DEF save_win
    <3>6. pc # "finish"
      BY <3>1, <3>4 DEF IInv, OnChunk
    <3>7. QED
      BY <3>2, <3>4, <3>5, <3>6
  <2>2. CASE last
    BY <1>3, <2>1, <2>2, LeaveKeeps DEF need_input, no_parse
  <2>3. CASE ~last
    BY <1>3, <2>1, <2>3, LeaveKeeps DEF need_input
  <2>4. QED
    BY <2>2, <2>3
<1>4. CASE UNCHANGED <<failed, win, buf, chunk, stream>> /\ UNCHANGED front
  <2>1. kmax = 1 => win'.length = 0 /\ stream' = stream
    BY <1>4 DEF IInv, OnChunk
  <2>2. chunk' = chunk /\ UNCHANGED front
    BY <1>4
  <2>3. QED
    BY <2>1, <2>2, GoesOn DEF IInv, ChunkOK
<1>5. QED
  BY <1>2, <1>3, <1>4 DEF Predict

\* A terminal that overruns the last chunk ends the parse.
LEMMA TerminalKeeps ==
  ASSUME IInv, Terminal
  PROVE  IInv'
<1> DEFINE x == Top.symbol
           c == AfterRead
           now == IF stream' = "win" THEN win' ELSE c
<1>1. Running /\ Read
  BY DEF Terminal, OnSymbol
<1>2. /\ c.input \in Seq(0..256) /\ c.length = Len(c.input) /\ c.index \in 0..c.length
      /\ c.last_chunk = chunk.last_chunk
  BY ChunkAfterRead
<1>3. kmax = 1 => win'.length = 0 /\ stream' = stream /\ stream = "chunk"
  BY <1>1, ReadsChunk DEF Read
<1>4. \/ no_parse(c)
      \/ need_input(now.last_chunk, c)
      \/ \E tok : Record(x, tok, Tail(stack), seq, c)
  BY DEF Terminal
<1> HIDE DEF c, x
<1>5. CASE no_parse(c)
  BY <1>3, <1>5, LeaveKeeps DEF no_parse
<1>6. CASE need_input(now.last_chunk, c)
  <2>1. CASE now.last_chunk
    BY <1>3, <1>6, <2>1, LeaveKeeps DEF need_input, no_parse
  <2>2. CASE ~now.last_chunk
    <3>1. kmax = 1 => pc # "finish"
      BY <1>2, <1>3, <2>2 DEF IInv, OnChunk
    <3>2. QED
      BY <1>3, <1>6, <2>2, <3>1, LeaveKeeps DEF need_input
  <2>3. QED
    BY <2>1, <2>2
<1>7. CASE \E tok : Record(x, tok, Tail(stack), seq, c)
  BY <1>2, <1>3, <1>7, RecordKeeps
<1>8. QED
  BY <1>4, <1>5, <1>6, <1>7

\* The invariant is inductive.
LEMMA StepOK == IInv /\ [Next]_vars => IInv'
<1>1. SUFFICES ASSUME IInv, [Next]_vars PROVE IInv'
  OBVIOUS
<1>2. ASSUME NEW bytes \in Chunks, h_parse_chunk(bytes) PROVE IInv'
  <2> DEFINE c == Stream(bytes, pos, FALSE)
  <2>1. bytes \in Seq(0..256) /\ Run("chunk", c)
    BY <1>2, ChunkOfBytes DEF h_parse_chunk
  <2>2. c.input \in Seq(0..256) /\ c.length = Len(c.input) /\ c.index \in 0..c.length
    BY <2>1 DEF Stream
  <2>3. QED
    BY <1>1, <2>1, <2>2, RunKeeps
<1>3. ASSUME NEW bytes \in Chunks, h_parse(bytes) PROVE IInv'
  <2> DEFINE c == Stream(bytes, 0, TRUE)
  <2>1. bytes \in Seq(0..256) /\ Run("parse", c)
    BY <1>3, ChunkOfBytes DEF h_parse
  <2>2. c.input \in Seq(0..256) /\ c.length = Len(c.input) /\ c.index \in 0..c.length
    BY <2>1 DEF Stream
  <2>3. QED
    BY <1>1, <2>1, <2>2, RunKeeps
<1>4. CASE h_parse_finish
  <2> DEFINE c == Stream(<<>>, pos, TRUE)
  <2>1. Run("finish", c)
    BY <1>4 DEF h_parse_finish
  <2>2. /\ c.input \in Seq(0..256) /\ c.length = Len(c.input) /\ c.index \in 0..c.length
        /\ c.last_chunk
    BY DEF Stream
  <2>3. QED
    BY <1>1, <2>1, <2>2, RunKeeps
<1>5. CASE FinishDone
  BY <1>1, <1>5 DEF FinishDone, IInv, TableOK, ChunkOK, OnChunk, kmax, Running
<1>6. CASE Success
  <2>1. kmax = 1 => win'.length = 0
    BY <1>1, <1>6 DEF Success, IInv, OnChunk
  <2>2. Leave(stack, seq, FALSE, chunk) /\ stack = <<>>
    BY <1>6 DEF Success
  <2>3. QED
    BY <1>1, <2>1, <2>2, LeaveKeeps
<1>7. CASE Predict
  BY <1>1, <1>7, PredictKeeps
<1>8. CASE Close
  <2>1. Record(stack[2].symbol, Node(seq), SubSeq(stack, 4, Len(stack)), stack[3].seq, chunk)
    BY <1>8 DEF Close
  <2>2. kmax = 1 => win'.length = 0 /\ stream' = stream
    BY <1>1, <1>8 DEF Close, IInv, OnChunk
  <2>3. /\ chunk.input \in Seq(0..256) /\ chunk.length = Len(chunk.input)
        /\ chunk.index \in 0..chunk.length
    BY <1>1 DEF IInv, ChunkOK
  <2>4. QED
    BY <1>1, <2>1, <2>2, <2>3, RecordKeeps
<1>9. CASE Terminal
  BY <1>1, <1>9, TerminalKeeps
<1>10. CASE UNCHANGED vars
  BY <1>1, <1>10 DEF vars, IInv, TableOK, ChunkOK, OnChunk, kmax, Running
<1>11. QED
  BY <1>1, <1>2, <1>3, <1>4, <1>5, <1>6, <1>7, <1>8, <1>9, <1>10 DEF Next

\* With one byte of lookahead the parser is done when h_parse_finish has given
\* the driver its last, empty chunk: the assertion hammer.c makes there holds
\* for every grammar, table, input and division of the input into chunks.
THEOREM LLkFinishes == Spec => []FinishAssertLL1
<1>1. IInv => FinishAssertLL1
  BY DEF IInv, OnChunk, FinishAssertLL1, FinishAssert
<1>2. QED
  BY <1>1, InitOK, StepOK, PTL DEF Spec

-----------------------------------------------------------------------------
(* One result.  A frame on the stack is delimited by a MARK, followed by the *)
(* nonterminal it is for and the sequence it interrupts.  The lowest frame   *)
(* interrupts the empty sequence: what is left when it is closed is a        *)
(* sequence with one token.                                                  *)

IsSequence(s) == \E S : s \in Seq(S)

Framed(st) ==
  \A i \in DOMAIN st : st[i].is = "MARK" =>
    i + 2 <= Len(st) /\ st[i + 1].is = "symbol" /\ st[i + 2].is = "seq"

Shape(st, sq) ==
  /\ IsSequence(st)
  /\ Framed(st)
  /\ \/ Len(st) = 0 /\ Len(sq) = 1
     \/ Len(st) = 1 /\ sq = <<>>
     \/ Len(st) >= 3 /\ st[Len(st) - 2].is = "MARK" /\ st[Len(st)] = Saved(<<>>)

LEMMA ShapeSymbol ==
  ASSUME NEW st, NEW sq, NEW tok, Shape(st, sq), st # <<>>, st[1].is = "symbol"
  PROVE  Shape(Tail(st), Append(sq, tok))
<1> DEFINE t == Tail(st)
           n == Len(st)
<1>1. PICK S : st \in Seq(S)
  BY DEF Shape, IsSequence
<1>2. /\ n \in Nat \ {0} /\ DOMAIN st = 1..n /\ t \in Seq(S) /\ Len(t) = n - 1
      /\ DOMAIN t = 1 .. n - 1
      /\ \A i \in 1 .. n - 1 : t[i] = st[i + 1]
  BY <1>1
<1> HIDE DEF t, n
<1>3. Framed(t)
  <2>1. ASSUME NEW i \in DOMAIN t, t[i].is = "MARK"
        PROVE  i + 2 <= Len(t) /\ t[i + 1].is = "symbol" /\ t[i + 2].is = "seq"
    <3>1. i \in 1 .. n - 1 /\ i + 1 \in DOMAIN st /\ st[i + 1].is = "MARK"
      BY <1>2, <2>1
    <3>2. i + 1 + 2 <= n /\ st[i + 1 + 1].is = "symbol" /\ st[i + 1 + 2].is = "seq"
      BY <3>1 DEF Shape, Framed, n
    <3>3. i + 1 \in 1 .. n - 1 /\ i + 2 \in 1 .. n - 1 /\ i + 2 + 1 = i + 1 + 2
      BY <1>2, <3>1, <3>2
    <3>4. t[i + 1] = st[i + 1 + 1] /\ t[i + 2] = st[i + 1 + 2]
      BY <1>2, <3>3
    <3>5. QED
      BY <1>2, <3>2, <3>3, <3>4
  <2>2. QED
    BY <2>1 DEF Framed
<1>4. CASE n = 1
  <2>1. sq = <<>> /\ Len(Append(<<>>, tok)) = 1
    BY <1>4 DEF Shape, n
  <2>2. Len(t) = 0
    BY <1>2, <1>4
  <2>3. QED
    BY <1>2, <1>3, <2>1, <2>2 DEF Shape, IsSequence, t
<1>5. CASE n # 1
  <2>1. n >= 3 /\ st[n - 2].is = "MARK" /\ st[n] = Saved(<<>>)
    BY <1>2, <1>5 DEF Shape, n
  <2>2. n - 2 # 1
    BY <2>1
  <2>3. n - 1 >= 3 /\ n - 3 \in 1 .. n - 1 /\ n - 1 \in 1 .. n - 1
    BY <1>2, <2>1, <2>2
  <2>4. n - 1 - 2 = n - 3 /\ n - 3 + 1 = n - 2 /\ n - 1 + 1 = n
    BY <1>2
  <2>5. t[n - 1 - 2].is = "MARK" /\ t[n - 1] = Saved(<<>>)
    BY <1>2, <2>1, <2>3, <2>4
  <2>6. QED
    BY <1>2, <1>3, <2>3, <2>5 DEF Shape, IsSequence, t
<1>6. QED
  BY <1>4, <1>5

LEMMA ShapeClose ==
  ASSUME NEW st, NEW sq, NEW tok, Shape(st, sq), st # <<>>, st[1].is = "MARK"
  PROVE  Shape(SubSeq(st, 4, Len(st)), Append(st[3].seq, tok))
<1> DEFINE n == Len(st)
           t == SubSeq(st, 4, n)
<1>1. PICK S : st \in Seq(S)
  BY DEF Shape, IsSequence
<1>2. n \in Nat \ {0} /\ DOMAIN st = 1..n /\ \A i \in 1..n : st[i] \in S
  BY <1>1
<1>3. 1 + 2 <= n /\ st[1 + 1].is = "symbol" /\ st[1 + 2].is = "seq"
  <2>1. 1 \in DOMAIN st
    BY <1>2
  <2>2. QED
    BY <2>1 DEF Shape, Framed
<1>4. n >= 3 /\ st[n - 2].is = "MARK" /\ st[n] = Saved(<<>>)
  BY <1>2, <1>3 DEF Shape
<1>5. /\ t \in Seq(S) /\ Len(t) = n - 3 /\ DOMAIN t = 1 .. n - 3
      /\ \A i \in 1 .. n - 3 : t[i] = st[i + 3]
  <2>1. \A i \in 4..n : st[i] \in S
    BY <1>2
  <2>2. 4 \in Int /\ n \in Int /\ (4 <= n => n - 4 + 1 = n - 3) /\ (~(4 <= n) => n - 3 = 0)
    BY <1>2, <1>3
  <2>3. t \in Seq(S) /\ Len(t) = n - 3
    BY <1>2, <2>1, <2>2, SubSeqProperties
  <2>4. \A i \in 1 .. n - 3 : t[i] = st[4 + i - 1]
    BY <1>2, <2>1, <2>2, <2>3, SubSeqProperties
  <2>5. \A i \in 1 .. n - 3 : 4 + i - 1 = i + 3
    BY <1>2
  <2>6. QED
    BY <2>3, <2>4, <2>5
<1> HIDE DEF t, n
<1>6. Framed(t)
  <2>1. ASSUME NEW i \in DOMAIN t, t[i].is = "MARK"
        PROVE  i + 2 <= Len(t) /\ t[i + 1].is = "symbol" /\ t[i + 2].is = "seq"
    <3>1. i \in 1 .. n - 3 /\ i + 3 \in DOMAIN st /\ st[i + 3].is = "MARK"
      BY <1>2, <1>5, <2>1
    <3>2. i + 3 + 2 <= n /\ st[i + 3 + 1].is = "symbol" /\ st[i + 3 + 2].is = "seq"
      BY <3>1 DEF Shape, Framed, n
    <3>3. i + 1 \in 1 .. n - 3 /\ i + 2 \in 1 .. n - 3 /\ i + 1 + 3 = i + 3 + 1
          /\ i + 2 + 3 = i + 3 + 2 /\ i + 2 <= n - 3
      BY <1>2, <3>1, <3>2
    <3>4. t[i + 1] = st[i + 3 + 1] /\ t[i + 2] = st[i + 3 + 2]
      BY <1>5, <3>3
    <3>5. QED
      BY <1>5, <3>2, <3>3, <3>4
  <2>2. QED
    BY <2>1 DEF Framed
<1>7. CASE n = 3
  <2>1. st[3].seq = <<>> /\ Len(Append(<<>>, tok)) = 1
    BY <1>4, <1>7 DEF Saved
  <2>2. Len(t) = 0
    BY <1>5, <1>7
  <2>3. QED
    BY <1>5, <1>6, <2>1, <2>2 DEF Shape, IsSequence, t, n
<1>8. CASE n # 3
  <2>1. n # 4 /\ n # 5
    BY <1>3, <1>4
  <2>2. n - 3 >= 3 /\ n - 5 \in 1 .. n - 3 /\ n - 3 \in 1 .. n - 3
    BY <1>2, <1>3, <1>8, <2>1
  <2>3. n - 3 - 2 = n - 5 /\ n - 5 + 3 = n - 2 /\ n - 3 + 3 = n
    BY <1>2
  <2>4. t[n - 3 - 2].is = "MARK" /\ t[n - 3] = Saved(<<>>)
    BY <1>4, <1>5, <2>2, <2>3
  <2>5. QED
    BY <1>5, <1>6, <2>2, <2>4 DEF Shape, IsSequence, t, n
<1>9. QED
  BY <1>7, <1>8

\* The symbols of a right side, and the frame they are put into.
LEMMA ShapePredict ==
  ASSUME NEW st, NEW sq, Shape(st, sq), st # <<>>, st[1].is = "symbol",
         NEW u, IsSequence(u), \A i \in DOMAIN u : u[i].is = "symbol"
  PROVE  Shape(u \o <<MARK, st[1], Saved(sq)>> \o Tail(st), <<>>)
<1> DEFINE n == Len(st)
           m == Len(u)
           mid == <<MARK, st[1], Saved(sq)>>
           rest == Tail(st)
           t == u \o mid \o rest
<1>1. PICK S : st \in Seq(S)
  BY DEF Shape, IsSequence
<1>2. PICK U : u \in Seq(U)
  BY DEF IsSequence
<1> DEFINE A == S \cup U \cup {MARK, Saved(sq)}
<1>3. /\ n \in Nat \ {0} /\ m \in Nat /\ DOMAIN u = 1..m /\ DOMAIN st = 1..n /\ st[1] \in S
      /\ rest \in Seq(S) /\ Len(rest) = n - 1 /\ \A i \in 1 .. n - 1 : rest[i] = st[i + 1]
  BY <1>1, <1>2
<1>4. u \in Seq(A) /\ rest \in Seq(A) /\ mid \in Seq(A)
  BY <1>2, <1>3
<1>5. Len(mid) = 3 /\ mid[1].is = "MARK" /\ mid[2] = st[1] /\ mid[3] = Saved(sq)
  BY DEF MARK
<1>6. MARK.is = "MARK" /\ Saved(sq).is = "seq"
  BY DEF MARK, Saved
<1> HIDE DEF mid, rest, n, m, A
<1>7. /\ u \o mid \in Seq(A) /\ Len(u \o mid) = m + 3
      /\ \A i \in 1 .. m + 3 : (u \o mid)[i] = IF i <= m THEN u[i] ELSE mid[i - m]
  <2>1. /\ u \o mid \in Seq(A) /\ Len(u \o mid) = Len(u) + Len(mid)
        /\ \A i \in 1 .. Len(u) + Len(mid) :
             (u \o mid)[i] = IF i <= Len(u) THEN u[i] ELSE mid[i - Len(u)]
    BY <1>4, ConcatProperties
  <2>2. Len(u) = m
    BY DEF m
  <2>3. QED
    BY <1>5, <2>1, <2>2
<1>8. /\ t \in Seq(A) /\ Len(t) = (m + 3) + (n - 1)
      /\ \A i \in 1 .. (m + 3) + (n - 1) :
           t[i] = IF i <= m + 3 THEN (u \o mid)[i] ELSE rest[i - (m + 3)]
  <2>1. PICK v : v = u \o mid
    OBVIOUS
  <2>2. v \in Seq(A) /\ Len(v) = m + 3
    BY <1>7, <2>1
  <2>3. /\ v \o rest \in Seq(A) /\ Len(v \o rest) = Len(v) + Len(rest)
        /\ \A i \in 1 .. Len(v) + Len(rest) :
             (v \o rest)[i] = IF i <= Len(v) THEN v[i] ELSE rest[i - Len(v)]
    BY <1>4, <2>2, ConcatProperties
  <2>4. Len(rest) = n - 1
    BY <1>3
  <2>5. /\ v \o rest \in Seq(A) /\ Len(v \o rest) = (m + 3) + (n - 1)
        /\ \A i \in 1 .. (m + 3) + (n - 1) :
             (v \o rest)[i] = IF i <= m + 3 THEN v[i] ELSE rest[i - (m + 3)]
    BY <2>2, <2>3, <2>4
  <2>6. t = v \o rest
    BY <2>1
  <2>7. QED
    BY <2>1, <2>5, <2>6
<1> DEFINE k == m + n + 2
<1>9. k \in Nat /\ Len(t) = k /\ DOMAIN t = 1..k
  <2>1. k = (m + 3) + (n - 1) /\ k \in Nat
    BY <1>3
  <2>2. QED
    BY <1>8, <2>1
<1> HIDE DEF t
<1>10. \A i \in 1..m : t[i] = u[i]
  <2> SUFFICES ASSUME NEW i \in 1..m PROVE t[i] = u[i]
    OBVIOUS
  <2>1. i \in 1 .. (m + 3) + (n - 1) /\ i <= m + 3 /\ i \in 1 .. m + 3 /\ i <= m
    BY <1>3
  <2>2. QED
    BY <1>7, <1>8, <2>1
<1>11. t[m + 1] = mid[1] /\ t[m + 2] = mid[2] /\ t[m + 3] = mid[3]
  <2>1. \A j \in 1..3 : /\ m + j \in 1 .. (m + 3) + (n - 1) /\ m + j <= m + 3 /\ m + j \in 1 .. m + 3
                        /\ ~(m + j <= m) /\ (m + j) - m = j
    BY <1>3
  <2>2. \A j \in 1..3 : t[m + j] = mid[j]
    BY <1>7, <1>8, <2>1
  <2>3. QED
    BY <2>2
<1>12. \A j \in 2..n : t[m + 2 + j] = st[j]
  <2> SUFFICES ASSUME NEW j \in 2..n PROVE t[m + 2 + j] = st[j]
    OBVIOUS
  <2>1. /\ m + 2 + j \in 1 .. (m + 3) + (n - 1) /\ ~(m + 2 + j <= m + 3)
        /\ (m + 2 + j) - (m + 3) = j - 1 /\ j - 1 \in 1 .. n - 1 /\ j - 1 + 1 = j
    BY <1>3
  <2>2. t[m + 2 + j] = rest[j - 1]
    BY <1>8, <2>1
  <2>3. rest[j - 1] = st[j - 1 + 1]
    BY <1>3, <2>1
  <2>4. QED
    BY <2>1, <2>2, <2>3
<1>13. Framed(t)
  <2>1. ASSUME NEW i \in DOMAIN t, t[i].is = "MARK"
        PROVE  i + 2 <= Len(t) /\ t[i + 1].is = "symbol" /\ t[i + 2].is = "seq"
    <3>1. i \in 1..k
      BY <1>9
    <3>2. CASE i <= m
      <4>1. i \in 1..m
        BY <1>3, <3>1, <3>2
      <4>2. t[i].is = "symbol"
        BY <1>3, <1>10, <4>1
      <4>3. QED
        BY <2>1, <4>2
    <3>3. CASE i = m + 1
      <4>1. i + 1 = m + 2 /\ i + 2 = m + 3 /\ i + 2 <= k
        BY <1>3, <3>3
      <4>2. QED
        BY <1>5, <1>6, <1>9, <1>11, <4>1
    <3>4. CASE i = m + 2 \/ i = m + 3
      <4>1. t[i] = st[1] \/ t[i] = Saved(sq)
        BY <1>5, <1>11, <3>4
      <4>2. QED
        BY <1>6, <2>1, <4>1
    <3>5. CASE i > m + 3
      <4>1. PICK j \in 2..n : i = m + 2 + j
        <5>1. i - m - 2 \in 2..n /\ i = m + 2 + (i - m - 2)
          BY <1>3, <3>1, <3>5
        <5>2. QED
          BY <5>1
      <4>2. j \in DOMAIN st /\ st[j].is = "MARK"
        BY <1>3, <1>12, <2>1, <4>1
      <4>3. j + 2 <= n /\ st[j + 1].is = "symbol" /\ st[j + 2].is = "seq"
        BY <4>2 DEF Shape, Framed, n
      <4>4. /\ j + 1 \in 2..n /\ j + 2 \in 2..n /\ i + 1 = m + 2 + (j + 1) /\ i + 2 = m + 2 + (j + 2)
            /\ i + 2 <= k
        BY <1>3, <4>1, <4>3
      <4>5. t[i + 1] = st[j + 1] /\ t[i + 2] = st[j + 2]
        BY <1>12, <4>4
      <4>6. QED
        BY <1>9, <4>3, <4>4, <4>5
    <3>6. QED
      BY <1>3, <3>1, <3>2, <3>3, <3>4, <3>5
  <2>2. QED
    BY <2>1 DEF Framed
<1>14. k >= 3 /\ t[k - 2].is = "MARK" /\ t[k] = Saved(<<>>)
  <2>1. CASE n = 1
    <3>1. sq = <<>>
      BY <2>1 DEF Shape, n
    <3>2. k = m + 3 /\ k - 2 = m + 1 /\ k >= 3
      BY <1>3, <2>1
    <3>3. QED
      BY <1>5, <1>11, <3>1, <3>2
  <2>2. CASE n # 1
    <3>1. n >= 3 /\ st[n - 2].is = "MARK" /\ st[n] = Saved(<<>>)
      BY <1>3, <2>2 DEF Shape, n
    <3>2. n - 2 # 1
      BY <3>1
    <3>3. /\ n - 2 \in 2..n /\ n \in 2..n /\ k - 2 = m + 2 + (n - 2) /\ k = m + 2 + n /\ k >= 3
      BY <1>3, <3>1, <3>2
    <3>4. t[m + 2 + (n - 2)] = st[n - 2] /\ t[m + 2 + n] = st[n]
      BY <1>12, <3>3
    <3>5. QED
      BY <3>1, <3>3, <3>4
  <2>3. QED
    BY <2>1, <2>2
<1>15. Shape(t, <<>>)
  <2>1. IsSequence(t)
    BY <1>8 DEF IsSequence
  <2>2. QED
    BY <1>9, <1>13, <1>14, <2>1 DEF Shape
<1>16. QED
  BY <1>15 DEF t, mid, rest

-----------------------------------------------------------------------------
(* The window.  While it is read, the running chunk is untouched and what    *)
(* fits of it is behind the old bytes, which are used up when the index is   *)
(* kmax.                                                                     *)

IsStream(s) == s = [input |-> s.input, index |-> s.index, length |-> s.length,
                    pos |-> s.pos, overrun |-> s.overrun, last_chunk |-> s.last_chunk]

Fill(k, l) == IF l > k THEN k ELSE l

Resting(w, k) == w.length = 0 \/ (w.length = k /\ w.index \in 0 .. k - 1)

\* The window w while c is read from, or through it.
Open(w, from, c, k) ==
  IF from = "win" THEN /\ c.index = 0 /\ ~c.overrun
                       /\ w.index \in 0 .. k - 1
                       /\ w.length = k + Fill(k, c.length)
                  ELSE w.length = 0

WinInv ==
  /\ buf \in Seq(0..256) /\ Len(buf) = 2 * kmax
  /\ IsStream(win) /\ ~win.overrun
  /\ IsStream(chunk) /\ (chunk.overrun => chunk.last_chunk)
  /\ pc = "idle" /\ ~done => Resting(win, kmax)
  /\ Running => Open(win, stream, chunk, kmax)

\* h_parse reads its input from the chunk, as there was none before.  A parse
\* that is over has failed or has an empty stack.
CallInv ==
  /\ input \in Seq(0..256)
  /\ input = <<>> => win.length = 0 /\ chunk.length = 0
  /\ pc = "parse" => stream = "chunk" /\ chunk.last_chunk
  /\ Running => ~done
  /\ pc # "done" => result = <<>>
  /\ result # <<>> \/ (done /\ ~failed) => stack = <<>>

DriverInv == IInv /\ WinInv /\ CallInv /\ Shape(stack, seq)

\* Bytes of the buffer are overwritten.
Splice(s, a, mid, b) == SubSeq(s, 1, a) \o mid \o SubSeq(s, b + 1, Len(s))

LEMMA Spliced ==
  ASSUME NEW B, NEW s \in Seq(B), NEW mid \in Seq(B), NEW a \in 0..Len(s), NEW b \in a..Len(s),
         Len(mid) = b - a
  PROVE  Splice(s, a, mid, b) \in Seq(B) /\ Len(Splice(s, a, mid, b)) = Len(s)
<1> DEFINE n == Len(s)
           l == SubSeq(s, 1, a)
           h == SubSeq(s, b + 1, n)
<1>1. n \in Nat /\ a \in 0..n /\ b \in a..n
  OBVIOUS
<1>2. l \in Seq(B) /\ Len(l) = a
  <2> HIDE DEF n
  <2>1. 1 \in 1..n + 1 /\ a \in 1 - 1..n /\ a - 1 + 1 = a
    BY <1>1
  <2>2. QED
    BY <2>1, Part DEF n
<1>3. h \in Seq(B) /\ Len(h) = n - b
  <2> HIDE DEF n
  <2>1. b + 1 \in 1..n + 1 /\ n \in (b + 1) - 1..n /\ n - (b + 1) + 1 = n - b
    BY <1>1
  <2>2. QED
    BY <2>1, Part DEF n
<1> HIDE DEF l, h, n
<1>4. l \o mid \in Seq(B) /\ Len(l \o mid) = a + (b - a)
  BY <1>2, ConcatProperties
<1>5. (l \o mid) \o h \in Seq(B) /\ Len((l \o mid) \o h) = a + (b - a) + (n - b)
  <2> DEFINE lm == l \o mid
  <2>1. lm \in Seq(B) /\ Len(lm) = a + (b - a)
    BY <1>4
  <2> HIDE DEF lm
  <2>2. lm \o h \in Seq(B) /\ Len(lm \o h) = Len(lm) + Len(h)
    BY <1>3, <2>1, ConcatProperties
  <2>3. QED
    BY <1>3, <2>1, <2>2 DEF lm
<1>6. a + (b - a) + (n - b) = n
  BY <1>1
<1>7. QED
  BY <1>5, <1>6 DEF Splice, l, h, n

LEMMA KMax ==
  ASSUME TableOK
  PROVE  kmax \in Nat \ {0}
BY TablesAssumption DEF TableOK, kmax

\* The stream that is read.
LEMMA CurrentOK ==
  ASSUME IInv, WinInv, Running
  PROVE  /\ StreamOK(Current) /\ Current.length \in Nat /\ Current.index \in 0..Current.length
         /\ IF stream = "win" THEN Current.length = win.length /\ Current.index = win.index
                                   /\ Current.last_chunk = win.last_chunk
                              ELSE Current = chunk
<1>1. kmax \in Nat \ {0}
  BY KMax DEF IInv
<1>2. chunk.input \in Seq(0..256) /\ chunk.length = Len(chunk.input) /\ chunk.index \in 0..chunk.length
  BY DEF IInv, ChunkOK
<1>3. chunk.length \in Nat
  BY <1>2
<1>4. CASE stream = "win"
  <2>1. /\ Current.input = buf /\ Current.length = win.length /\ Current.index = win.index
        /\ Current.last_chunk = win.last_chunk
    BY <1>4 DEF Current, WinInv, IsStream
  <2>2. /\ win.index \in 0 .. kmax - 1 /\ win.length = kmax + Fill(kmax, chunk.length)
        /\ Len(buf) = 2 * kmax /\ buf \in Seq(0..256)
    BY <1>4 DEF WinInv, Open
  <2>3. win.length \in 0 .. 2 * kmax /\ win.index \in 0..win.length
    BY <1>1, <1>3, <2>2 DEF Fill
  <2>4. QED
    BY <1>1, <1>4, <2>1, <2>2, <2>3 DEF StreamOK
<1>5. CASE stream # "win"
  <2>1. Current = chunk /\ chunk.length \in 0..chunk.length
    BY <1>3, <1>5 DEF Current
  <2>2. QED
    BY <1>2, <1>3, <1>5, <2>1 DEF StreamOK
<1>6. QED
  BY <1>4, <1>5

\* When input is asked for, what is left to be read is shorter than kmax, and
\* all of the chunk is in it.
LEMMA AsksForInput ==
  ASSUME IInv, WinInv, Running, NEW x, IsNT(x), h_llk_lookup(x, Current) = NEED_INPUT
  PROVE  /\ ~Current.last_chunk /\ ~chunk.overrun
         /\ Left(chunk) \in 0 .. kmax - 1
         /\ stream = "win" => win.length = kmax + Left(chunk) /\ win.length > 0
         /\ Kept(chunk) \in Seq(0..256)
         /\ Len(Kept(chunk)) \in 0 .. kmax - 1
         /\ Left(chunk) > 0 => Len(Kept(chunk)) > 0
         /\ Kept(chunk) = Ahead(Current)
<1>1. kmax \in Nat \ {0}
  BY KMax DEF IInv
<1>2. /\ StreamOK(Current) /\ Current.length \in Nat /\ Current.index \in 0..Current.length
      /\ IF stream = "win" THEN Current.length = win.length /\ Current.index = win.index
                                /\ Current.last_chunk = win.last_chunk
                           ELSE Current = chunk
  BY CurrentOK
<1>3. Current.length - Current.index < kmax /\ ~Current.last_chunk
  BY <1>2, Lookup DEF IInv
<1>4. Ahead(Current) \in Seq(0..256) /\ Len(Ahead(Current)) = Current.length - Current.index
  BY <1>2, AheadOf
<1>5. chunk.index \in 0..chunk.length /\ chunk.length \in Nat
  BY DEF IInv, ChunkOK
<1>6. CASE stream = "win"
  <2>1. /\ win.index \in 0 .. kmax - 1 /\ win.length = kmax + Fill(kmax, chunk.length)
        /\ chunk.index = 0 /\ ~chunk.overrun
    BY <1>6 DEF WinInv, Open
  <2>2. /\ Left(chunk) = chunk.length /\ chunk.length < kmax /\ win.length = kmax + chunk.length
        /\ win.length > 0
    BY <1>1, <1>2, <1>3, <1>5, <1>6, <2>1 DEF Fill, Left
  <2>3. Kept(chunk) = Ahead(Current)
    BY <1>6, <2>2 DEF Kept, Ahead, Current, WinInv, IsStream
  <2>4. /\ win.length - win.index \in 0 .. kmax - 1
        /\ chunk.length > 0 => win.length - win.index > 0
    BY <1>1, <1>2, <1>3, <1>5, <1>6, <2>1, <2>2
  <2>5. QED
    BY <1>1, <1>2, <1>3, <1>4, <1>5, <1>6, <2>1, <2>2, <2>3, <2>4
<1>7. CASE stream # "win"
  <2>1. win.length = 0 /\ Current = chunk
    BY <1>2, <1>7 DEF WinInv, Open
  <2>2. Kept(chunk) = Ahead(Current)
    BY <2>1 DEF Kept, Ahead, Left
  <2>3. Left(chunk) = chunk.length - chunk.index /\ Left(chunk) \in 0 .. kmax - 1
    BY <1>1, <1>3, <1>5, <2>1 DEF Left
  <2>4. QED
    BY <1>3, <1>4, <1>7, <2>1, <2>2, <2>3 DEF WinInv
<1>8. QED
  BY <1>6, <1>7

\* save_win leaves a window that rests, or none.
LEMMA Saves ==
  ASSUME IInv, WinInv, Running, NEW x, IsNT(x), h_llk_lookup(x, Current) = NEED_INPUT,
         save_win(chunk)
  PROVE  /\ buf' \in Seq(0..256) /\ Len(buf') = 2 * kmax
         /\ IsStream(win') /\ ~win'.overrun
         /\ Resting(win', kmax)
         /\ Left(chunk) = 0 => win' = win
<1>1. kmax \in Nat \ {0}
  BY KMax DEF IInv
<1>2. /\ ~chunk.overrun
      /\ Left(chunk) \in 0 .. kmax - 1
      /\ stream = "win" => win.length = kmax + Left(chunk)
      /\ Kept(chunk) \in Seq(0..256)
      /\ Len(Kept(chunk)) \in 0 .. kmax - 1
      /\ Left(chunk) > 0 => Len(Kept(chunk)) > 0
  BY AsksForInput
<1>3. CASE Left(chunk) = 0
  <2>1. UNCHANGED <<win, buf>>
    BY <1>3 DEF save_win
  <2>2. Resting(win, kmax)
    BY <1>1, <1>2, <1>3 DEF WinInv, Resting, Open
  <2>3. QED
    BY <2>1, <2>2 DEF WinInv
<1>4. CASE Left(chunk) # 0
  <2> DEFINE k == Kept(chunk)
             a == kmax - Len(k)
  <2>1. /\ buf' = SubSeq(buf, 1, a) \o k \o SubSeq(buf, kmax + 1, 2 * kmax)
        /\ win' = [chunk EXCEPT !.input = <<>>, !.index = a, !.length = kmax]
    BY <1>4 DEF save_win
  <2>2. a \in 0 .. kmax - 1 /\ a \in 0 .. 2 * kmax /\ kmax \in a .. 2 * kmax /\ Len(k) = kmax - a
    BY <1>1, <1>2, <1>4
  <2>3. buf' \in Seq(0..256) /\ Len(buf') = 2 * kmax
    <3>1. buf \in Seq(0..256) /\ Len(buf) = 2 * kmax /\ k \in Seq(0..256)
      BY <1>2 DEF WinInv
    <3>2. buf' = Splice(buf, a, k, kmax)
      BY <2>1, <3>1 DEF Splice
    <3>3. a \in 0..Len(buf) /\ kmax \in a..Len(buf) /\ Len(k) = kmax - a
      BY <2>2, <3>1
    <3> HIDE DEF k, a
    <3>4. Splice(buf, a, k, kmax) \in Seq(0..256) /\ Len(Splice(buf, a, k, kmax)) = Len(buf)
      BY <3>1, <3>3, Spliced
    <3>5. QED
      BY <3>1, <3>2, <3>4
  <2> HIDE DEF a, k
  <2>4. win' = [input |-> <<>>, index |-> a, length |-> kmax, pos |-> chunk.pos,
                overrun |-> chunk.overrun, last_chunk |-> chunk.last_chunk]
    BY <2>1 DEF WinInv, IsStream
  <2>5. QED
    BY <1>2, <1>4, <2>2, <2>3, <2>4 DEF IsStream, Resting
<1>5. QED
  BY <1>3, <1>4

\* A chunk is given.
LEMMA RunWindow ==
  ASSUME DriverInv, NEW call \in {"chunk", "finish", "parse"}, NEW bytes \in Seq(0..256),
         NEW p, NEW last \in BOOLEAN, Run(call, Stream(bytes, p, last)),
         input' \in Seq(0..256),
         input' = <<>> => input = <<>> /\ bytes = <<>>,
         call = "parse" => input = <<>> /\ last
  PROVE  WinInv' /\ CallInv' /\ Shape(stack', seq')
<1> DEFINE c == Stream(bytes, p, last)
<1>1. kmax \in Nat \ {0} /\ kmax' = kmax
  BY KMax DEF DriverInv, IInv, Run, kmax
<1>2. /\ IsStream(c) /\ c.input = bytes /\ c.index = 0 /\ c.length = Len(bytes)
      /\ ~c.overrun /\ c.last_chunk = last
  BY DEF Stream, IsStream
<1>3. Len(bytes) \in Nat
  OBVIOUS
<1>4. /\ pc = "idle" /\ ~done /\ pc' = call /\ chunk' = c
      /\ IF win.length > 0 THEN append_win(c) /\ stream' = "win"
                           ELSE stream' = "chunk" /\ UNCHANGED <<win, buf>>
      /\ UNCHANGED <<done, result, stack, seq, failed>>
  BY DEF Run, back
<1> HIDE DEF c
<1>5. Resting(win, kmax) /\ IsStream(win) /\ ~win.overrun /\ buf \in Seq(0..256) /\ Len(buf) = 2 * kmax
  BY <1>4 DEF DriverInv, WinInv
<1>6. CASE win.length > 0
  <2> DEFINE n == Fill(kmax, c.length)
  <2>1. win.length = kmax /\ win.index \in 0 .. kmax - 1
    BY <1>1, <1>5, <1>6 DEF Resting
  <2>2. n \in 0..kmax /\ n \in 0..c.length
    BY <1>1, <1>2, <1>3 DEF Fill
  <2>3. Appended(c) = SubSeq(bytes, 1, n)
    <3>1. c.length - c.index = c.length
      BY <1>2, <1>3
    <3>2. Appended(c) = SubSeq(bytes, 0 + 1, 0 + n)
      BY <1>2, <3>1 DEF Appended, Slice, Fill
    <3>3. 0 + n = n /\ 0 + 1 = 1
      BY <2>2
    <3>4. QED
      BY <3>2, <3>3
  <2> HIDE DEF n
  <2>4. Appended(c) \in Seq(0..256) /\ Len(Appended(c)) = n
    <3>1. 1 \in 1..Len(bytes) + 1 /\ n \in 1 - 1..Len(bytes) /\ n - 1 + 1 = n
      BY <1>2, <1>3, <2>2
    <3>2. QED
      <4>1. bytes \in Seq(0..256) /\ 1 \in 1..Len(bytes) + 1 /\ n \in 1 - 1..Len(bytes)
        BY <3>1
      <4>2. SubSeq(bytes, 1, n) \in Seq(0..256) /\ Len(SubSeq(bytes, 1, n)) = n - 1 + 1
        BY ONLY <4>1, Part
      <4>3. QED
        BY <2>3, <3>1, <4>2
  <2>5. /\ buf' = SubSeq(buf, 1, kmax) \o Appended(c) \o SubSeq(buf, kmax + n + 1, 2 * kmax)
        /\ win' = [win EXCEPT !.length = win.length + n]
        /\ stream' = "win"
    BY <1>4, <1>6, <2>4 DEF append_win
  <2>6. buf' \in Seq(0..256) /\ Len(buf') = 2 * kmax
    <3>1. /\ kmax \in 0 .. 2 * kmax /\ kmax + n \in kmax .. 2 * kmax /\ n = kmax + n - kmax
      BY <1>1, <2>2
    <3> DEFINE b == kmax + n
    <3>2. b \in kmax .. 2 * kmax /\ Len(Appended(c)) = b - kmax
          /\ buf' = Splice(buf, kmax, Appended(c), b)
      BY <1>5, <2>4, <2>5, <3>1 DEF Splice
    <3> HIDE DEF b
    <3>3. QED
      BY <1>5, <2>4, <3>1, <3>2, Spliced
  <2>7. win' = [input |-> win.input, index |-> win.index, length |-> win.length + n,
                pos |-> win.pos, overrun |-> win.overrun, last_chunk |-> win.last_chunk]
    BY <1>5, <2>5 DEF IsStream
  <2>8. WinInv'
    <3>1. IsStream(win') /\ ~win'.overrun /\ win'.index \in 0 .. kmax - 1 /\ win'.length = kmax + n
      BY <1>5, <2>1, <2>7 DEF IsStream
    <3>2. pc' # "idle"
      BY <1>4
    <3>3. QED
      BY <1>1, <1>2, <1>4, <2>5, <2>6, <3>1, <3>2 DEF WinInv, Open, n
  <2>9. call # "parse" /\ input' # <<>>
    BY <1>6 DEF DriverInv, CallInv
  <2>10. CallInv'
    BY <1>4, <2>9 DEF DriverInv, CallInv, Running
  <2>11. QED
    BY <1>4, <2>8, <2>10 DEF DriverInv
<1>7. CASE ~(win.length > 0)
  <2>1. win.length = 0 /\ UNCHANGED <<win, buf>> /\ stream' = "chunk"
    BY <1>1, <1>4, <1>5, <1>7 DEF Resting
  <2>2. WinInv'
    BY <1>1, <1>2, <1>4, <1>5, <2>1 DEF WinInv, Open
  <2>3. CallInv'
    BY <1>2, <1>4, <2>1 DEF DriverInv, CallInv, Running
  <2>4. QED
    BY <1>4, <2>2, <2>3 DEF DriverInv
<1>8. QED
  BY <1>6, <1>7

\* A call returns.
LEMMA LeaveWindow ==
  ASSUME DriverInv, Running, NEW f \in BOOLEAN, NEW c, Leave(stack, seq, f, c),
         buf' \in Seq(0..256), Len(buf') = 2 * kmax, IsStream(win'), ~win'.overrun,
         ~f /\ stack # <<>> => Resting(win', kmax) /\ pc # "parse",
         input = <<>> => win'.length = 0
  PROVE  WinInv' /\ CallInv' /\ Shape(stack', seq')
<1>1. /\ UNCHANGED <<stack, seq, table, input>> /\ chunk' = NoChunk /\ failed' = f
      /\ done' = (f \/ stack = <<>>)
      /\ pc' = CASE pc = "chunk" -> "idle" [] pc = "finish" /\ ~done' -> "abort"
                 [] OTHER -> "done"
      /\ f \/ pc' # "done" => result' = <<>>
  BY DEF Leave
<1>2. pc' \in {"idle", "abort", "done"} /\ (pc' = "idle" => pc = "chunk")
      /\ (pc' = "done" => pc = "parse" \/ done')
  BY <1>1 DEF Running
<1>3. kmax' = kmax
  BY <1>1 DEF kmax
<1>4. IsStream(NoChunk) /\ ~NoChunk.overrun /\ NoChunk.length = 0
  BY DEF NoChunk, Stream, IsStream
<1>5. ~Running' /\ pc' # "parse"
  BY <1>2 DEF Running
<1>6. WinInv'
  BY <1>1, <1>2, <1>3, <1>4, <1>5 DEF WinInv
<1>7. result' # <<>> => stack = <<>>
  <2>1. result' # <<>> => ~f /\ pc' = "done"
    BY <1>1
  <2>2. QED
    BY <1>1, <1>2, <2>1
<1>8. CallInv'
  BY <1>1, <1>4, <1>5, <1>7 DEF DriverInv, CallInv
<1>9. QED
  BY <1>1, <1>6, <1>8 DEF DriverInv

\* The loop goes on.
LEMMA RoundWindow ==
  ASSUME DriverInv, Running, UNCHANGED front, UNCHANGED <<failed, buf>>, NEW c, chunk' = c,
         IsStream(c), c.overrun => c.last_chunk, c.length = chunk.length,
         c.last_chunk = chunk.last_chunk,
         IsStream(win'), ~win'.overrun, Open(win', stream', c, kmax),
         win'.length \in {0, win.length}, stream = "chunk" => stream' = "chunk",
         Shape(stack', seq')
  PROVE  WinInv' /\ CallInv' /\ Shape(stack', seq')
<1>1. UNCHANGED <<table, input, done, pc, result>> /\ kmax' = kmax
  BY DEF front, kmax
<1>2. pc # "idle" /\ pc # "done" /\ ~done /\ result = <<>>
  BY DEF Running, DriverInv, CallInv
<1>3. WinInv'
  BY <1>1, <1>2 DEF DriverInv, WinInv
<1>4. CallInv'
  BY <1>1, <1>2 DEF DriverInv, CallInv
<1>5. QED
  BY <1>3, <1>4

LEMMA RecordWindow ==
  ASSUME DriverInv, Running, NEW x, NEW tok, NEW st, NEW sq, NEW c, Record(x, tok, st, sq, c),
         UNCHANGED buf, IsStream(c), c.overrun => c.last_chunk, c.length = chunk.length,
         c.last_chunk = chunk.last_chunk,
         IsStream(win'), ~win'.overrun, Open(win', stream', c, kmax),
         win'.length \in {0, win.length}, stream = "chunk" => stream' = "chunk",
         Shape(st, Append(sq, tok))
  PROVE  WinInv' /\ CallInv' /\ Shape(stack', seq')
<1>1. buf \in Seq(0..256) /\ Len(buf) = 2 * kmax /\ (input = <<>> => win'.length = 0)
  BY DEF DriverInv, WinInv, CallInv
<1>2. CASE tok \in grammar.refused[x]
  <2>1. Leave(stack, seq, TRUE, c)
    BY <1>2 DEF Record, no_parse
  <2>2. QED
    BY <1>1, <2>1, LeaveWindow
<1>3. CASE tok \notin grammar.refused[x]
  BY <1>3, RoundWindow DEF Record
<1>4. QED
  BY <1>2, <1>3

\* A byte is read.
LEMMA ReadWindow ==
  ASSUME DriverInv, Running, Read
  PROVE  /\ buf' = buf /\ IsStream(win') /\ ~win'.overrun /\ win'.length \in {0, win.length}
         /\ Open(win', stream', AfterRead, kmax)
         /\ stream = "chunk" => stream' = "chunk"
         /\ stream' = "win" => AfterRead = chunk /\ ~chunk.overrun
         /\ IsStream(AfterRead) /\ AfterRead.length = chunk.length
         /\ AfterRead.last_chunk = chunk.last_chunk
<1>1. kmax \in Nat \ {0}
  BY KMax DEF DriverInv, IInv
<1>2. IsStream(win) /\ ~win.overrun /\ IsStream(chunk) /\ Open(win, stream, chunk, kmax)
  BY DEF DriverInv, WinInv
<1>3. IsStream(AfterRead) /\ AfterRead.length = chunk.length
      /\ AfterRead.last_chunk = chunk.last_chunk
  <2>1. ASSUME NEW s, IsStream(s), NEW v
        PROVE  /\ LET z == [s EXCEPT !.overrun = v]
                  IN IsStream(z) /\ z.length = s.length /\ z.last_chunk = s.last_chunk
               /\ LET z == [s EXCEPT !.index = v]
                  IN IsStream(z) /\ z.length = s.length /\ z.last_chunk = s.last_chunk
    BY <2>1 DEF IsStream
  <2>2. \/ AfterRead = chunk \/ AfterRead = [chunk EXCEPT !.overrun = TRUE]
        \/ AfterRead = [chunk EXCEPT !.index = chunk.index + 1]
    BY DEF AfterRead
  <2>3. CASE AfterRead = chunk
    BY <1>2, <2>3
  <2>4. CASE AfterRead = [chunk EXCEPT !.overrun = TRUE]
    BY <1>2, <2>1, <2>4
  <2>5. CASE AfterRead = [chunk EXCEPT !.index = chunk.index + 1]
    BY <1>2, <2>1, <2>5
  <2>6. QED
    BY <2>2, <2>3, <2>4, <2>5
<1>4. CASE stream = "win"
  <2> DEFINE n == win.index + 1
  <2>1. /\ buf' = buf /\ AfterRead = chunk
        /\ win' = [win EXCEPT !.index = n, !.length = IF n >= kmax THEN 0 ELSE win.length]
        /\ stream' = IF n >= kmax THEN "chunk" ELSE "win"
    BY <1>4 DEF Read, AfterRead
  <2>2. /\ win.index \in 0 .. kmax - 1 /\ chunk.index = 0 /\ ~chunk.overrun
        /\ win.length = kmax + Fill(kmax, chunk.length)
    BY <1>2, <1>4 DEF Open
  <2>3. n \in 0..kmax /\ (~(n >= kmax) => n \in 0 .. kmax - 1)
    BY <1>1, <2>2
  <2> HIDE DEF n
  <2>4. win' = [input |-> win.input, index |-> n,
                length |-> IF n >= kmax THEN 0 ELSE win.length, pos |-> win.pos,
                overrun |-> win.overrun, last_chunk |-> win.last_chunk]
    BY <1>2, <2>1 DEF IsStream
  <2>5. CASE n >= kmax
    BY <1>2, <1>3, <1>4, <2>1, <2>2, <2>4, <2>5 DEF IsStream, Open
  <2>6. CASE ~(n >= kmax)
    BY <1>2, <1>3, <1>4, <2>1, <2>2, <2>3, <2>4, <2>6 DEF IsStream, Open
  <2>7. QED
    BY <2>5, <2>6
<1>5. CASE stream # "win"
  <2>1. buf' = buf /\ UNCHANGED <<win, stream>>
    BY <1>5 DEF Read
  <2>2. QED
    BY <1>2, <1>3, <1>5, <2>1 DEF Open
<1>6. QED
  BY <1>4, <1>5

LEMMA TerminalWindow ==
  ASSUME DriverInv, Terminal
  PROVE  WinInv' /\ CallInv' /\ Shape(stack', seq')
<1> DEFINE x == Top.symbol
           c == AfterRead
           now == IF stream' = "win" THEN win' ELSE c
<1>1. Running /\ Read /\ stack # <<>> /\ Top.is = "symbol"
  BY DEF Terminal, OnSymbol
<1>2. /\ buf' = buf /\ IsStream(win') /\ ~win'.overrun /\ win'.length \in {0, win.length}
      /\ Open(win', stream', c, kmax)
      /\ stream = "chunk" => stream' = "chunk"
      /\ stream' = "win" => c = chunk /\ ~chunk.overrun
      /\ IsStream(c) /\ c.length = chunk.length /\ c.last_chunk = chunk.last_chunk
  BY <1>1, ReadWindow
<1>3. \/ now.overrun /\ now.last_chunk /\ Record(x, NoToken, Tail(stack), seq, c)
      \/ now.overrun /\ need_input(now.last_chunk, c)
      \/ no_parse(c)
      \/ ~now.overrun /\ \E tok : Record(x, tok, Tail(stack), seq, c)
  BY DEF Terminal
<1> HIDE DEF c, x
<1>4. /\ buf' \in Seq(0..256) /\ Len(buf') = 2 * kmax
      /\ input = <<>> => win'.length = 0
  BY <1>2 DEF DriverInv, WinInv, CallInv
<1>5. CASE \E tok : Record(x, tok, Tail(stack), seq, c) /\ (c.overrun => c.last_chunk)
  <2>1. PICK tok : Record(x, tok, Tail(stack), seq, c) /\ (c.overrun => c.last_chunk)
    BY <1>5
  <2>2. Shape(Tail(stack), Append(seq, tok))
    <3>1. stack[1].is = "symbol"
      BY <1>1 DEF Top
    <3>2. QED
      BY <1>1, <3>1, ShapeSymbol DEF DriverInv
  <2>3. QED
    BY <1>1, <1>2, <2>1, <2>2, RecordWindow
<1>6. CASE no_parse(c)
  BY <1>1, <1>2, <1>4, <1>6, LeaveWindow DEF no_parse
<1>7. CASE now.overrun /\ need_input(now.last_chunk, c)
  <2>1. stream' # "win" /\ win'.length = 0 /\ now = c
    BY <1>2, <1>7 DEF Open
  <2>2. CASE now.last_chunk
    BY <1>1, <1>2, <1>4, <1>7, <2>2, LeaveWindow DEF need_input, no_parse
  <2>3. CASE ~now.last_chunk
    <3>1. Resting(win', kmax) /\ pc # "parse"
      BY <1>2, <2>1, <2>3 DEF Resting, DriverInv, CallInv
    <3>2. QED
      BY <1>1, <1>2, <1>4, <1>7, <2>3, <3>1, LeaveWindow DEF need_input
  <2>4. QED
    BY <2>2, <2>3
<1>8. QED
  BY <1>2, <1>3, <1>5, <1>6, <1>7

LEMMA CloseWindow ==
  ASSUME DriverInv, Close
  PROVE  WinInv' /\ CallInv' /\ Shape(stack', seq')
<1>1. /\ Running /\ stack # <<>> /\ stack[1] = MARK /\ UNCHANGED <<win, buf, stream>>
      /\ Record(stack[2].symbol, Node(seq), SubSeq(stack, 4, Len(stack)), stack[3].seq, chunk)
  BY DEF Close, Top
<1>2. Shape(SubSeq(stack, 4, Len(stack)), Append(stack[3].seq, Node(seq)))
  <2>1. stack[1].is = "MARK"
    BY <1>1 DEF MARK
  <2>2. QED
    BY <1>1, <2>1, ShapeClose DEF DriverInv
<1>3. /\ IsStream(win') /\ ~win'.overrun /\ Open(win', stream', chunk, kmax)
      /\ IsStream(chunk) /\ (chunk.overrun => chunk.last_chunk)
  BY <1>1 DEF DriverInv, WinInv
<1>4. QED
  BY <1>1, <1>2, <1>3, RecordWindow

LEMMA PredictWindow ==
  ASSUME DriverInv, Predict
  PROVE  WinInv' /\ CallInv' /\ Shape(stack', seq')
<1> DEFINE x == Top.symbol
           p == h_llk_lookup(x, Current)
           u == [i \in DOMAIN grammar.seq[x][p] |-> Symbol(grammar.seq[x][p][i])]
           last == IF stream = "win" THEN win'.last_chunk ELSE chunk.last_chunk
<1>1. Running /\ IsNT(x) /\ stack # <<>> /\ Top.is = "symbol" /\ Top = stack[1]
  <2>1. Running /\ IsNT(x) /\ stack # <<>> /\ Top.is = "symbol"
    BY DEF Predict, OnSymbol
  <2>2. Top = stack[1]
    BY DEF Top
  <2>3. QED
    BY <2>1, <2>2
<1>2. /\ buf \in Seq(0..256) /\ Len(buf) = 2 * kmax /\ IsStream(win) /\ ~win.overrun
      /\ IsStream(chunk) /\ (chunk.overrun => chunk.last_chunk) /\ Open(win, stream, chunk, kmax)
      /\ input = <<>> => win.length = 0 /\ chunk.length = 0
      /\ pc = "parse" => stream = "chunk" /\ chunk.last_chunk
  BY <1>1 DEF DriverInv, WinInv, CallInv
<1>3. IInv /\ WinInv /\ TableOK
  BY DEF DriverInv, IInv
<1>4. CASE no_parse(chunk) /\ UNCHANGED <<win, buf, stream>>
  BY <1>1, <1>2, <1>4, LeaveWindow DEF no_parse
<1>5. CASE p = NEED_INPUT /\ save_win(chunk) /\ need_input(last, chunk)
  <2>1. /\ buf' \in Seq(0..256) /\ Len(buf') = 2 * kmax /\ IsStream(win') /\ ~win'.overrun
        /\ Resting(win', kmax) /\ (Left(chunk) = 0 => win' = win)
    BY <1>1, <1>3, <1>5, Saves
  <2>2. input = <<>> => win'.length = 0
    <3>1. input = <<>> => chunk.index \in 0..0 /\ chunk.length = 0
      BY <1>2, <1>3 DEF IInv, ChunkOK
    <3>2. input = <<>> => Left(chunk) = 0
      BY <3>1 DEF Left
    <3>3. QED
      BY <1>2, <2>1, <3>2
  <2>3. pc # "parse"
    <3>1. ~Current.last_chunk
      BY <1>1, <1>3, <1>5, AsksForInput
    <3>2. stream = "chunk" => Current = chunk
      BY DEF Current
    <3>3. QED
      BY <1>2, <3>1, <3>2
  <2>4. CASE last
    BY <1>1, <1>5, <2>1, <2>2, <2>4, LeaveWindow DEF need_input, no_parse
  <2>5. CASE ~last
    BY <1>1, <1>5, <2>1, <2>2, <2>3, <2>5, LeaveWindow DEF need_input
  <2>6. QED
    BY <2>4, <2>5
<1>6. CASE /\ p > 0
           /\ stack' = u \o <<MARK, Top, Saved(seq)>> \o Tail(stack)
           /\ seq' = <<>>
           /\ UNCHANGED <<failed, win, buf, chunk, stream>> /\ UNCHANGED front
  <2>1. p \in DOMAIN grammar.seq[x]
    <3>1. StreamOK(Current)
      BY <1>1, <1>3, CurrentOK
    <3>2. p \in {NoProduction, NEED_INPUT} \cup DOMAIN grammar.seq[x]
      BY <1>1, <1>3, <3>1, Lookup
    <3> HIDE DEF p
    <3>3. p > 0
      BY <1>6
    <3>4. QED
      BY <3>2, <3>3 DEF NoProduction, NEED_INPUT
  <2>2. grammar.seq[x][p] \in Seq(SymbolsOf(grammar))
    <3>1. grammar \in Grammars /\ table \in TablesOf(grammar) /\ x \in DOMAIN grammar.seq
      BY <1>1, <1>3 DEF TableOK, IsNT
    <3>2. QED
      BY <2>1, <3>1, TablesAssumption
  <2> HIDE DEF p
  <2>3. IsSequence(u) /\ \A i \in DOMAIN u : u[i].is = "symbol"
    <3> DEFINE rhs == grammar.seq[x][p]
               n == Len(rhs)
    <3>1. n \in Nat /\ DOMAIN rhs = 1..n
      BY <2>2
    <3> HIDE DEF rhs, n
    <3>2. u = [i \in 1..n |-> Symbol(rhs[i])]
      BY <3>1 DEF rhs
    <3>3. u \in Seq({Symbol(rhs[i]) : i \in 1..n})
      BY <3>1, <3>2
    <3>4. \A i \in DOMAIN u : u[i].is = "symbol"
      BY <3>2 DEF Symbol
    <3>5. QED
      BY <3>3, <3>4 DEF IsSequence
  <2> HIDE DEF u
  <2>4. Shape(stack', seq')
    BY <1>1, <1>6, <2>3, ShapePredict DEF DriverInv
  <2>5. QED
    BY <1>1, <1>2, <1>6, <2>4, RoundWindow
<1>7. QED
  BY <1>4, <1>5, <1>6 DEF Predict

LEMMA InitDriver == Init => DriverInv
<1> SUFFICES ASSUME Init PROVE DriverInv
  OBVIOUS
<1>1. IInv
  BY InitOK
<1>2. kmax \in Nat \ {0}
  BY <1>1, KMax DEF IInv
<1>3. IsStream(NoChunk) /\ ~NoChunk.overrun /\ NoChunk.length = 0
  BY DEF NoChunk, Stream, IsStream
<1>4. buf \in Seq(0..256) /\ Len(buf) = 2 * kmax
  <2> DEFINE n == 2 * kmax
  <2>1. n \in Nat /\ buf = [i \in 1..n |-> 0]
    BY <1>2 DEF Init, kmax
  <2> HIDE DEF n
  <2>2. buf \in Seq(0..256) /\ Len(buf) = n
    BY <2>1
  <2>3. QED
    BY <2>2 DEF n
<1>5. WinInv
  BY <1>3, <1>4 DEF Init, WinInv, Running, Resting
<1>6. CallInv
  BY <1>3 DEF Init, CallInv, Running
<1>7. Shape(stack, seq)
  <2> DEFINE e == Symbol(table.start)
  <2>1. stack = <<e>> /\ seq = <<>> /\ e.is = "symbol"
    BY DEF Init, Symbol
  <2> HIDE DEF e
  <2>2. stack \in Seq({e}) /\ Len(stack) = 1 /\ DOMAIN stack = {1} /\ stack[1] = e
    BY <2>1
  <2>3. QED
    BY <2>1, <2>2 DEF Shape, Framed, IsSequence
<1>8. QED
  BY <1>1, <1>5, <1>6, <1>7 DEF DriverInv

LEMMA StepDriver == DriverInv /\ [Next]_vars => DriverInv'
<1> SUFFICES ASSUME DriverInv, [Next]_vars PROVE WinInv' /\ CallInv' /\ Shape(stack', seq')
  BY StepOK DEF DriverInv
<1>1. input \in Seq(0..256)
  BY DEF DriverInv, CallInv
<1>2. ASSUME NEW bytes \in Chunks, h_parse_chunk(bytes)
      PROVE  WinInv' /\ CallInv' /\ Shape(stack', seq')
  <2>1. bytes \in Seq(0..256) /\ Run("chunk", Stream(bytes, pos, FALSE)) /\ input' = input \o bytes
    BY <1>2, ChunkOfBytes DEF h_parse_chunk
  <2>2. input' \in Seq(0..256) /\ Len(input') = Len(input) + Len(bytes)
    BY <1>1, <2>1, ConcatProperties
  <2>3. input' = <<>> => input = <<>> /\ bytes = <<>>
    <3>1. input' = <<>> => Len(input) + Len(bytes) = 0
      BY <2>2
    <3>2. Len(input) \in Nat /\ Len(bytes) \in Nat
      BY <1>1, <2>1
    <3>3. input' = <<>> => Len(input) = 0 /\ Len(bytes) = 0
      BY <3>1, <3>2
    <3>4. QED
      BY <1>1, <2>1, <3>3
  <2>4. QED
    BY <2>1, <2>2, <2>3, RunWindow
<1>3. ASSUME NEW bytes \in Chunks, h_parse(bytes)
      PROVE  WinInv' /\ CallInv' /\ Shape(stack', seq')
  <2>1. /\ bytes \in Seq(0..256) /\ Run("parse", Stream(bytes, 0, TRUE)) /\ input' = bytes
        /\ input = <<>>
    BY <1>3, ChunkOfBytes DEF h_parse
  <2>2. QED
    BY <2>1, RunWindow
<1>4. CASE h_parse_finish
  <2>1. Run("finish", Stream(<<>>, pos, TRUE)) /\ input' = input
    BY <1>4 DEF h_parse_finish
  <2>2. <<>> \in Seq(0..256)
    OBVIOUS
  <2>3. QED
    BY <1>1, <2>1, <2>2, RunWindow
<1>5. CASE FinishDone
  <2>1. WinInv'
    BY <1>5 DEF FinishDone, DriverInv, WinInv, Running, kmax
  <2>2. CallInv'
    <3>1. failed \/ stack = <<>>
      BY <1>5 DEF FinishDone, DriverInv, CallInv
    <3>2. result' # <<>> => stack = <<>>
      BY <1>5, <3>1 DEF FinishDone
    <3>3. QED
      BY <1>5, <3>1, <3>2 DEF FinishDone, DriverInv, CallInv, Running
  <2>3. QED
    BY <1>5, <2>1, <2>2 DEF FinishDone, DriverInv
<1>6. CASE Success
  <2>1. Running /\ stack = <<>> /\ Leave(stack, seq, FALSE, chunk) /\ UNCHANGED <<win, buf>>
    BY <1>6 DEF Success
  <2>2. QED
    BY <2>1, LeaveWindow DEF DriverInv, WinInv, CallInv
<1>7. CASE UNCHANGED vars
  BY <1>7 DEF vars, DriverInv, WinInv, CallInv, Running, kmax
<1>8. QED
  BY <1>2, <1>3, <1>4, <1>5, <1>6, <1>7, PredictWindow, CloseWindow, TerminalWindow DEF Next

\* The assertions of append_win and save_win on the window hold, and a parse
\* that ends well has exactly one result, for every lookahead, grammar, table,
\* input and division of the input into chunks.
THEOREM LLkNoAbort == Spec => []NoAbort
<1>1. DriverInv => NoAbort
  <2> SUFFICES ASSUME DriverInv PROVE WindowAsserts /\ OneResult
    BY DEF NoAbort
  <2>1. kmax \in Nat \ {0}
    BY KMax DEF DriverInv, IInv
  <2>2. pc = "idle" /\ ~done /\ win.length > 0 => win.length = kmax /\ win.index < kmax
    BY <2>1 DEF DriverInv, WinInv, Resting
  <2>3. ASSUME OnSymbol, IsNT(Top.symbol), h_llk_lookup(Top.symbol, Current) = NEED_INPUT
        PROVE  /\ Left(chunk) < kmax
               /\ Left(chunk) > 0 /\ win.length > 0 => /\ win.length = kmax + Left(chunk)
                                                       /\ win.index <= kmax
                                                       /\ Len(Kept(chunk)) <= kmax
    <3>1. Running /\ IInv /\ WinInv
      BY <2>3 DEF OnSymbol, DriverInv
    <3>2. /\ Left(chunk) \in 0 .. kmax - 1 /\ Len(Kept(chunk)) \in 0 .. kmax - 1
          /\ stream = "win" => win.length = kmax + Left(chunk)
      BY <2>3, <3>1, AsksForInput
    <3>3. win.length > 0 => stream = "win" /\ win.index \in 0 .. kmax - 1
      BY <3>1 DEF WinInv, Open
    <3>4. QED
      BY <2>1, <3>2, <3>3
  <2>4. OneResult
    <3>1. stack = <<>> => Len(seq) = 1
      BY DEF DriverInv, Shape
    <3>2. QED
      BY <3>1 DEF OneResult, DriverInv, CallInv
  <2>5. QED
    BY <2>2, <2>3, <2>4 DEF WindowAsserts
<1>2. QED
  BY <1>1, InitDriver, StepDriver, PTL DEF Spec

-----------------------------------------------------------------------------
(* Window and chunks are one stream: what is not read yet is the old part of *)
(* the window, Old bytes long, and what is left of the chunk.                *)

LEMMA SliceIs ==
  ASSUME NEW S, NEW s \in Seq(S), NEW i \in 0..Len(s), NEW n \in 0..Len(s) - i
  PROVE  /\ Slice(s, i, n) \in Seq(S) /\ Len(Slice(s, i, n)) = n
         /\ \A j \in 1..n : Slice(s, i, n)[j] = s[i + j]
<1> DEFINE l == Len(s)
<1>1. l \in Nat /\ i \in 0..l /\ n \in 0..l - i /\ \A j \in 1..l : s[j] \in S
  OBVIOUS
<1> HIDE DEF l
<1>2. i \in Nat /\ n \in Nat /\ i + 1 \in Int /\ i + n \in Int
  BY <1>1
<1>3. \A j \in i + 1..i + n : s[j] \in S
  <2>1. \A j \in i + 1..i + n : j \in 1..l
    BY <1>1
  <2>2. QED
    BY <1>1, <2>1
<1>4. PICK f, t \in Int : f = i + 1 /\ t = i + n
  BY <1>2
<1>5. /\ SubSeq(s, f, t) \in Seq(S)
      /\ Len(SubSeq(s, f, t)) = IF f <= t THEN t - f + 1 ELSE 0
      /\ \A j \in 1..t - f + 1 : SubSeq(s, f, t)[j] = s[f + j - 1]
  BY <1>3, <1>4, SubSeqProperties
<1>6. (IF f <= t THEN t - f + 1 ELSE 0) = n /\ t - f + 1 = n /\ \A j \in 1..n : f + j - 1 = i + j
  BY <1>2, <1>4
<1>7. Slice(s, i, n) = SubSeq(s, f, t)
  BY <1>4 DEF Slice
<1>8. QED
  BY <1>5, <1>6, <1>7

\* What is not read yet: the old bytes of window w over b, then the bytes of c.
Rest(w, b, c, k) == (IF w.length > 0 THEN Slice(b, w.index, k - w.index) ELSE <<>>) \o Ahead(c)
Old(w, k) == IF w.length > 0 THEN k - w.index ELSE 0

RestOK(w, b, c, k) ==
  /\ k \in Nat \ {0} /\ b \in Seq(0..256) /\ Len(b) = 2 * k /\ StreamOK(c)
  /\ w.length > 0 => w.index \in 0..k - 1

LEMMA RestIs ==
  ASSUME NEW k, NEW w, NEW b, NEW c, RestOK(w, b, c, k)
  PROVE  /\ Old(w, k) \in 0..k /\ c.length - c.index \in Nat
         /\ Rest(w, b, c, k) \in Seq(0..256)
         /\ Len(Rest(w, b, c, k)) = Old(w, k) + (c.length - c.index)
         /\ \A j \in 1..Old(w, k) : Rest(w, b, c, k)[j] = b[w.index + j]
         /\ \A j \in 1..c.length - c.index : Rest(w, b, c, k)[Old(w, k) + j] = c.input[c.index + j]
<1> DEFINE o == IF w.length > 0 THEN Slice(b, w.index, k - w.index) ELSE <<>>
           a == Ahead(c)
           n == c.length - c.index
           m == Old(w, k)
<1>0. /\ k \in Nat \ {0} /\ b \in Seq(0..256) /\ Len(b) = 2 * k /\ StreamOK(c)
      /\ w.length > 0 => w.index \in 0..k - 1
  BY DEF RestOK
<1>1. m \in 0..k
  BY <1>0 DEF Old
<1>2. o \in Seq(0..256) /\ Len(o) = m /\ \A j \in 1..m : o[j] = b[w.index + j]
  <2>1. CASE w.length > 0
    <3>1. PICK i : i = w.index
      OBVIOUS
    <3>2. i \in 0..k - 1 /\ i \in 0..Len(b) /\ k - i \in 0..Len(b) - i /\ m = k - i
      BY <1>0, <2>1, <3>1 DEF Old
    <3>3. PICK q : q = k - i
      OBVIOUS
    <3>4. q \in 0..Len(b) - i
      BY <3>2, <3>3
    <3>5. /\ Slice(b, i, q) \in Seq(0..256) /\ Len(Slice(b, i, q)) = q
          /\ \A j \in 1..q : Slice(b, i, q)[j] = b[i + j]
      <4>1. b \in Seq(0..256) /\ i \in 0..Len(b) /\ q \in 0..Len(b) - i
        BY <1>0, <3>2, <3>4
      <4>2. QED
        BY ONLY <4>1, SliceIs
    <3>6. o = Slice(b, i, q) /\ q = m
      BY <2>1, <3>1, <3>2, <3>3
    <3> HIDE DEF o, m
    <3>7. QED
      BY <3>1, <3>5, <3>6
  <2>2. CASE ~(w.length > 0)
    <3>1. o = <<>> /\ m = 0
      BY <2>2 DEF Old
    <3> HIDE DEF o, m
    <3>2. QED
      BY <3>1
  <2>3. QED
    BY <2>1, <2>2
<1>3. a \in Seq(0..256) /\ Len(a) = n /\ n \in Nat /\ \A j \in 1..n : a[j] = c.input[c.index + j]
  <2>1. PICK s : s = c.input
    OBVIOUS
  <2>2. PICK i : i = c.index
    OBVIOUS
  <2>3. PICK q : q = c.length - c.index
    OBVIOUS
  <2>4. c.length \in 0..Len(s) /\ i \in 0..c.length /\ s \in Seq(0..256) /\ Len(s) \in Nat
    BY <1>0, <2>1, <2>2 DEF StreamOK
  <2>5. i \in 0..Len(s) /\ q \in 0..Len(s) - i /\ q \in Nat
    BY <2>2, <2>3, <2>4
  <2>6. /\ Slice(s, i, q) \in Seq(0..256) /\ Len(Slice(s, i, q)) = q
        /\ \A j \in 1..q : Slice(s, i, q)[j] = s[i + j]
    <3>1. s \in Seq(0..256) /\ i \in 0..Len(s) /\ q \in 0..Len(s) - i
      BY <2>4, <2>5
    <3>2. QED
      BY ONLY <3>1, SliceIs
  <2>7. a = Slice(s, i, q)
    BY <2>1, <2>2, <2>3 DEF Ahead
  <2> HIDE DEF a
  <2>8. QED
    BY <2>1, <2>2, <2>3, <2>5, <2>6, <2>7
<1>4. Rest(w, b, c, k) = o \o a
  BY DEF Rest
<1> HIDE DEF o, a, m, n
<1>5. /\ o \o a \in Seq(0..256) /\ Len(o \o a) = m + n
      /\ \A i \in 1..m + n : (o \o a)[i] = IF i <= m THEN o[i] ELSE a[i - m]
  <2>1. o \in Seq(0..256) /\ a \in Seq(0..256)
    BY <1>2, <1>3
  <2>2. /\ o \o a \in Seq(0..256) /\ Len(o \o a) = Len(o) + Len(a)
        /\ \A i \in 1..Len(o) + Len(a) : (o \o a)[i] = IF i <= Len(o) THEN o[i] ELSE a[i - Len(o)]
    BY ONLY <2>1, ConcatProperties
  <2>3. Len(o) = m /\ Len(a) = n
    BY <1>2, <1>3
  <2>4. QED
    BY ONLY <2>2, <2>3
<1>6. ASSUME NEW j \in 1..m PROVE (o \o a)[j] = b[w.index + j]
  <2>1. j \in 1..m + n /\ j <= m
    BY <1>1, <1>3
  <2>2. QED
    BY <1>2, <1>5, <2>1
<1>7. ASSUME NEW j \in 1..n PROVE (o \o a)[m + j] = c.input[c.index + j]
  <2>2. PICK i : i = m + j
    OBVIOUS
  <2>3. i \in 1..m + n /\ ~(i <= m) /\ i - m = j
    BY <1>1, <1>3, <2>2
  <2>4. (o \o a)[i] = a[i - m]
    BY <1>5, <2>3
  <2>5. QED
    BY <1>3, <2>2, <2>3, <2>4
<1>8. QED
  BY <1>1, <1>3, <1>4, <1>5, <1>6, <1>7 DEF m, n

LEMMA PrefixIs ==
  ASSUME NEW S, NEW a \in Seq(S), NEW u \in Seq(S), Len(a) <= Len(u),
         \A j \in 1..Len(a) : a[j] = u[j]
  PROVE  IsPrefix(a, u) /\ (Len(a) = Len(u) => a = u)
<1>1. PICK n \in Nat : n = Len(a)
  OBVIOUS
<1>2. Len(u) \in Nat /\ n \in 0..Len(a) - 0 /\ 0 \in 0..Len(a) /\ 0 \in 0..Len(u) /\ n \in 0..Len(u) - 0
  BY <1>1
<1>3. /\ Slice(a, 0, n) \in Seq(S) /\ Len(Slice(a, 0, n)) = n
      /\ \A j \in 1..n : Slice(a, 0, n)[j] = a[0 + j]
  BY ONLY <1>2, a \in Seq(S), SliceIs
<1>4. /\ Slice(u, 0, n) \in Seq(S) /\ Len(Slice(u, 0, n)) = n
      /\ \A j \in 1..n : Slice(u, 0, n)[j] = u[0 + j]
  BY ONLY <1>2, u \in Seq(S), SliceIs
<1>5. ASSUME NEW j \in 1..n PROVE Slice(a, 0, n)[j] = Slice(u, 0, n)[j]
  <2>1. 0 + j = j
    OBVIOUS
  <2>2. QED
    BY <1>1, <1>3, <1>4, <2>1
<1>6. PICK x, y : x = Slice(a, 0, n) /\ y = Slice(u, 0, n)
  OBVIOUS
<1>7. x = y
  BY <1>3, <1>4, <1>5, <1>6, SeqEqual
<1>8. Slice(a, 0, n) = SubSeq(a, 1, Len(a)) /\ Slice(u, 0, n) = SubSeq(u, 1, Len(a))
  <2>1. 0 + 1 = 1 /\ 0 + n = n
    OBVIOUS
  <2>2. QED
    BY <1>1, <2>1 DEF Slice
<1>9. QED
  BY <1>6, <1>7, <1>8, SeqEqual DEF IsPrefix

LEMMA TailIs ==
  ASSUME NEW S, NEW u \in Seq(S), NEW v \in Seq(S), Len(u) > 0, Len(v) = Len(u) - 1,
         \A j \in 1..Len(v) : v[j] = u[j + 1]
  PROVE  u # <<>> /\ v = Tail(u) /\ Head(u) = u[1]
<1>1. u # <<>> /\ Head(u) = u[1]
  OBVIOUS
<1>2. PICK t : t = Tail(u)
  OBVIOUS
<1>3. t \in Seq(S) /\ Len(t) = Len(u) - 1 /\ \A j \in 1..Len(t) : t[j] = u[j + 1]
  BY <1>1, <1>2, HeadTailProperties
<1>4. v = t
  BY <1>3, SeqEqual
<1>5. QED
  BY <1>1, <1>2, <1>4

\* What is spliced in, and what is kept before it.
LEMMA SplicedAt ==
  ASSUME NEW B, NEW s \in Seq(B), NEW mid \in Seq(B), NEW a \in 0..Len(s), NEW b \in a..Len(s),
         Len(mid) = b - a
  PROVE  /\ \A j \in 1..a : Splice(s, a, mid, b)[j] = s[j]
         /\ \A j \in 1..b - a : Splice(s, a, mid, b)[a + j] = mid[j]
<1>1. PICK n \in Nat : n = Len(s)
  OBVIOUS
<1>2. a \in 0..n /\ b \in a..n /\ a \in Nat /\ b \in Nat
  BY <1>1
<1>3. PICK l : l = Slice(s, 0, a)
  OBVIOUS
<1>4. PICK h : h = Slice(s, b, n - b)
  OBVIOUS
<1>5. l \in Seq(B) /\ Len(l) = a /\ \A j \in 1..a : l[j] = s[j]
  <2>1. 0 \in 0..Len(s) /\ a \in 0..Len(s) - 0
    BY <1>1, <1>2
  <2>2. l \in Seq(B) /\ Len(l) = a /\ \A j \in 1..a : l[j] = s[0 + j]
    BY ONLY <1>3, <2>1, s \in Seq(B), SliceIs
  <2>3. \A j \in 1..a : 0 + j = j
    BY <1>2
  <2>4. QED
    BY <2>2, <2>3
<1>6. h \in Seq(B) /\ Len(h) = n - b
  <2>1. PICK q : q = n - b
    OBVIOUS
  <2>2. b \in 0..Len(s) /\ q \in 0..Len(s) - b
    BY <1>1, <1>2, <2>1
  <2>3. QED
    BY ONLY <1>4, <2>1, <2>2, s \in Seq(B), SliceIs
<1>7. PICK m : m = l \o mid
  OBVIOUS
<1>8. /\ m \in Seq(B) /\ Len(m) = a + (b - a)
      /\ \A i \in 1..a + (b - a) : m[i] = IF i <= a THEN l[i] ELSE mid[i - a]
  <2>1. /\ l \o mid \in Seq(B) /\ Len(l \o mid) = Len(l) + Len(mid)
        /\ \A i \in 1..Len(l) + Len(mid) : (l \o mid)[i] = IF i <= Len(l) THEN l[i] ELSE mid[i - Len(l)]
    BY <1>5, ConcatProperties
  <2>2. QED
    BY <1>5, <1>7, <2>1
<1>9. Splice(s, a, mid, b) = m \o h
  <2>1. 0 + 1 = 1 /\ 0 + a = a /\ b + (n - b) = n
    BY <1>2
  <2>2. l = SubSeq(s, 1, a) /\ h = SubSeq(s, b + 1, Len(s))
    BY <1>1, <1>3, <1>4, <2>1 DEF Slice
  <2>3. QED
    BY <1>7, <2>2 DEF Splice
<1>10. PICK z : z = m \o h
  OBVIOUS
<1>11. \A i \in 1..Len(m) + Len(h) : z[i] = IF i <= Len(m) THEN m[i] ELSE h[i - Len(m)]
  BY <1>6, <1>8, <1>10, ConcatProperties
<1>12. ASSUME NEW i \in 1..b PROVE z[i] = m[i] /\ (i <= a => z[i] = l[i]) /\ (i > a => z[i] = mid[i - a])
  <2>1. a + (b - a) = b /\ Len(m) = b /\ Len(h) \in Nat
    BY <1>2, <1>6, <1>8
  <2>2. i \in 1..Len(m) + Len(h) /\ i <= Len(m) /\ i \in 1..a + (b - a)
    BY <1>2, <2>1
  <2>3. z[i] = m[i]
    BY <1>11, <2>2
  <2>4. m[i] = IF i <= a THEN l[i] ELSE mid[i - a]
    BY <1>8, <2>2
  <2>5. QED
    BY <1>2, <2>3, <2>4
<1>13. ASSUME NEW j \in 1..a PROVE z[j] = s[j]
  <2>1. j \in 1..b /\ j <= a
    BY <1>2
  <2>2. QED
    BY <1>5, <1>12, <2>1
<1>14. ASSUME NEW j \in 1..b - a PROVE z[a + j] = mid[j]
  <2>1. PICK i : i = a + j
    OBVIOUS
  <2>2. i \in 1..b /\ i > a /\ i - a = j
    BY <1>2, <2>1
  <2>3. QED
    BY <1>12, <2>1, <2>2
<1>15. QED
  BY <1>9, <1>10, <1>13, <1>14

LEMMA AheadEmpty ==
  ASSUME NEW c, StreamOK(c), c.length = c.index
  PROVE  Ahead(c) = <<>>
<1>1. Ahead(c) \in Seq(0..256) /\ Len(Ahead(c)) = c.length - c.index
  BY AheadOf
<1>2. c.length \in Nat
  BY DEF StreamOK
<1>3. Len(Ahead(c)) = 0
  BY <1>1, <1>2
<1>4. QED
  BY <1>1, <1>3

\* A chunk is given: d follows what is left in the window, of which b2 has what b had.
SameOld(w, b, v, b2, k) ==
  Old(v, k) = Old(w, k) /\ \A j \in 1..Old(w, k) : b2[v.index + j] = b[w.index + j]

LEMMA RestGrows ==
  ASSUME NEW k, NEW w, NEW v, NEW b, NEW b2, NEW c, NEW d, RestOK(w, b, c, k), RestOK(v, b2, d, k),
         SameOld(w, b, v, b2, k), c.length = c.index, d.index = 0, d.length = Len(d.input)
  PROVE  Rest(w, b, c, k) \in Seq(0..256) /\ Rest(v, b2, d, k) = Rest(w, b, c, k) \o d.input
<1>0. /\ k \in Nat \ {0} /\ b \in Seq(0..256) /\ Len(b) = 2 * k
      /\ b2 \in Seq(0..256) /\ Len(b2) = 2 * k /\ StreamOK(c) /\ StreamOK(d)
      /\ w.length > 0 => w.index \in 0..k - 1
      /\ v.length > 0 => v.index \in 0..k - 1
      /\ Old(v, k) = Old(w, k)
      /\ \A j \in 1..Old(w, k) : b2[v.index + j] = b[w.index + j]
  BY DEF RestOK, SameOld
<1>1. PICK r : r = Rest(w, b, c, k)
  OBVIOUS
<1>2. PICK t : t = Rest(v, b2, d, k)
  OBVIOUS
<1>3. PICK m : m = Old(w, k)
  OBVIOUS
<1>4. PICK x : x = d.input
  OBVIOUS
<1>5. /\ m \in 0..k /\ r \in Seq(0..256) /\ Len(r) = m + (c.length - c.index)
      /\ \A j \in 1..m : r[j] = b[w.index + j]
  <2>1. /\ Old(w, k) \in 0..k /\ Rest(w, b, c, k) \in Seq(0..256)
        /\ Len(Rest(w, b, c, k)) = Old(w, k) + (c.length - c.index)
        /\ \A j \in 1..Old(w, k) : Rest(w, b, c, k)[j] = b[w.index + j]
    BY ONLY RestOK(w, b, c, k), RestIs
  <2>2. QED
    BY <1>1, <1>3, <2>1
<1>6. /\ t \in Seq(0..256) /\ Len(t) = m + (d.length - d.index)
      /\ \A j \in 1..m : t[j] = b2[v.index + j]
      /\ \A j \in 1..d.length - d.index : t[m + j] = d.input[d.index + j]
  <2>1. /\ Rest(v, b2, d, k) \in Seq(0..256)
        /\ Len(Rest(v, b2, d, k)) = Old(v, k) + (d.length - d.index)
        /\ \A j \in 1..Old(v, k) : Rest(v, b2, d, k)[j] = b2[v.index + j]
        /\ \A j \in 1..d.length - d.index :
             Rest(v, b2, d, k)[Old(v, k) + j] = d.input[d.index + j]
    BY ONLY RestOK(v, b2, d, k), RestIs
  <2>2. Old(v, k) = m
    BY <1>0, <1>3
  <2>3. QED
    BY <1>2, <2>1, <2>2
<1>7. c.length \in Nat /\ x \in Seq(0..256) /\ Len(x) \in Nat
  BY <1>0, <1>4 DEF StreamOK
<1>8. Len(r) = m /\ Len(t) = m + Len(x)
  BY <1>4, <1>5, <1>6, <1>7
<1>9. PICK y : y = r \o x
  OBVIOUS
<1>10. /\ y \in Seq(0..256) /\ Len(y) = m + Len(x)
       /\ \A i \in 1..m + Len(x) : y[i] = IF i <= m THEN r[i] ELSE x[i - m]
  <2>1. r \in Seq(0..256) /\ x \in Seq(0..256)
    BY <1>5, <1>7
  <2>2. /\ r \o x \in Seq(0..256) /\ Len(r \o x) = Len(r) + Len(x)
        /\ \A i \in 1..Len(r) + Len(x) : (r \o x)[i] = IF i <= Len(r) THEN r[i] ELSE x[i - Len(r)]
    BY ONLY <2>1, ConcatProperties
  <2>3. QED
    BY ONLY <1>8, <1>9, <2>2
<1>11. ASSUME NEW i \in 1..Len(t) PROVE t[i] = y[i]
  <2>1. CASE i <= m
    <3>1. i \in 1..m /\ i \in 1..m + Len(x)
      BY <1>8, <2>1
    <3>2. b2[v.index + i] = b[w.index + i]
      BY <1>0, <1>3, <3>1
    <3>3. QED
      BY <1>5, <1>6, <1>10, <2>1, <3>1, <3>2
  <2>2. CASE ~(i <= m)
    <3>1. PICK j : j = i - m
      OBVIOUS
    <3>2. j \in 1..Len(x) /\ m + j = i /\ 0 + j = j
      BY <1>5, <1>7, <1>8, <2>2, <3>1
    <3>3. t[m + j] = x[0 + j]
      <4>1. d.length - d.index = Len(x)
        BY <1>4, <1>7
      <4>2. QED
        BY <1>4, <1>6, <3>2, <4>1
    <3>4. y[i] = x[i - m]
      BY <1>8, <1>10, <2>2
    <3>5. QED
      BY <3>1, <3>2, <3>3, <3>4
  <2>3. QED
    BY <2>1, <2>2
<1>12. t = y
  <2>1. t \in Seq(0..256) /\ y \in Seq(0..256) /\ Len(t) = Len(y)
    BY <1>6, <1>8, <1>10
  <2>2. QED
    BY <1>11, <2>1, SeqEqual
<1>13. QED
  BY <1>1, <1>2, <1>4, <1>5, <1>9, <1>12

\* While the window is read, what fits of the chunk is behind the old bytes.
OrderInv ==
  /\ Running /\ stream = "win" =>
       \A j \in 1..Fill(kmax, chunk.length) : buf[kmax + j] = chunk.input[j]
  /\ chunk.overrun => chunk.index = chunk.length
  /\ ~Running => chunk = NoChunk

LEMMA NoChunkOK ==
  StreamOK(NoChunk) /\ NoChunk.index = 0 /\ NoChunk.length = 0 /\ ~NoChunk.overrun
<1>1. <<>> \in Seq(0..256) /\ Len(<<>>) = 0
  OBVIOUS
<1>2. NoChunk.input = <<>> /\ NoChunk.index = 0 /\ NoChunk.length = Len(<<>>) /\ ~NoChunk.overrun
  BY DEF NoChunk, Stream
<1>3. QED
  BY <1>1, <1>2 DEF StreamOK

LEMMA UnreadIs == Unread = Rest(win, buf, chunk, kmax) /\ Unread' = Rest(win', buf', chunk', kmax')
BY DEF Unread, Rest

\* The window and the chunk are such that RestIs applies to them.
LEMMA WindowOK ==
  ASSUME DriverInv, Running \/ (pc = "idle" /\ ~done)
  PROVE  /\ kmax \in Nat \ {0} /\ buf \in Seq(0..256) /\ Len(buf) = 2 * kmax
         /\ StreamOK(chunk) /\ chunk.length = Len(chunk.input)
         /\ win.length > 0 => win.index \in 0..kmax - 1
<1>1. kmax \in Nat \ {0}
  BY KMax DEF DriverInv, IInv
<1>2. StreamOK(chunk) /\ chunk.length = Len(chunk.input)
  BY DEF DriverInv, IInv, ChunkOK, StreamOK
<1>3. win.length > 0 => win.index \in 0..kmax - 1
  <2>1. CASE Running
    BY <2>1 DEF DriverInv, WinInv, Open
  <2>2. CASE pc = "idle" /\ ~done
    BY <2>2 DEF DriverInv, WinInv, Resting
  <2>3. QED
    BY <2>1, <2>2
<1>4. QED
  BY <1>1, <1>2, <1>3 DEF DriverInv, WinInv

\* The stream that is read has the next bytes.
LEMMA Sees ==
  ASSUME DriverInv, OrderInv, Running
  PROVE  SeesNext /\ \A j \in 1..Len(Ahead(Current)) : Ahead(Current)[j] = Unread[j]
<1>1. /\ kmax \in Nat \ {0} /\ buf \in Seq(0..256) /\ Len(buf) = 2 * kmax
      /\ StreamOK(chunk) /\ chunk.length = Len(chunk.input)
      /\ win.length > 0 => win.index \in 0..kmax - 1
  BY WindowOK
<1>2. /\ StreamOK(Current)
      /\ IF stream = "win" THEN Current.length = win.length /\ Current.index = win.index
                           ELSE Current = chunk
  BY CurrentOK DEF DriverInv
<1>3. PICK a : a = Ahead(Current)
  OBVIOUS
<1>4. PICK u : u = Unread
  OBVIOUS
<1>5. a \in Seq(0..256) /\ Len(a) = Current.length - Current.index
  BY <1>2, <1>3, AheadOf
<1>6. PICK m : m = Old(win, kmax)
  OBVIOUS
<1>7. /\ m \in 0..kmax /\ u \in Seq(0..256) /\ Len(u) = m + (chunk.length - chunk.index)
      /\ \A j \in 1..m : u[j] = buf[win.index + j]
      /\ \A j \in 1..chunk.length - chunk.index : u[m + j] = chunk.input[chunk.index + j]
  <2>1. /\ Old(win, kmax) \in 0..kmax /\ Rest(win, buf, chunk, kmax) \in Seq(0..256)
        /\ Len(Rest(win, buf, chunk, kmax)) = Old(win, kmax) + (chunk.length - chunk.index)
        /\ \A j \in 1..Old(win, kmax) : Rest(win, buf, chunk, kmax)[j] = buf[win.index + j]
        /\ \A j \in 1..chunk.length - chunk.index :
             Rest(win, buf, chunk, kmax)[Old(win, kmax) + j] = chunk.input[chunk.index + j]
    <3>1. RestOK(win, buf, chunk, kmax)
      BY <1>1 DEF RestOK
    <3>2. QED
      BY ONLY <3>1, RestIs
  <2>2. QED
    BY <1>4, <1>6, <2>1, UnreadIs
<1>8. CASE stream # "win"
  <2>1. win.length = 0
    BY <1>8 DEF DriverInv, WinInv, Open
  <2>2. Unread = <<>> \o Ahead(chunk)
    BY <2>1 DEF Unread
  <2>3. a = Ahead(chunk)
    BY <1>2, <1>3, <1>8
  <2>4. a = u
    BY <1>4, <1>5, <2>2, <2>3, ConcatEmptySeq
  <2>5. IsPrefix(a, u)
    BY <1>5, <2>4, PrefixIs
  <2>6. QED
    BY <1>3, <1>4, <2>4, <2>5 DEF SeesNext
<1>9. CASE stream = "win"
  <2>1. PICK n, i, l : n = Fill(kmax, chunk.length) /\ i = win.index /\ l = chunk.length
    OBVIOUS
  <2>2. i \in 0..kmax - 1 /\ win.length = kmax + n /\ chunk.index = 0
    BY <1>9, <2>1 DEF DriverInv, WinInv, Open
  <2>3. l \in Nat /\ n \in 0..kmax /\ n <= l /\ (n = l \/ n = kmax)
    BY <1>1, <2>1 DEF Fill, StreamOK
  <2>10. PICK k \in Nat : k = kmax
    BY <1>1
  <2>11. k > 0 /\ i \in 0..k - 1 /\ n \in 0..k /\ l \in Nat /\ n <= l /\ (n = l \/ n = k)
    BY <1>1, <2>2, <2>3, <2>10
  <2>4. m = k - i /\ Len(a) = k + n - i /\ Len(u) = m + l /\ m \in Nat
    <3>1. win.length = k + n /\ k + n > 0
      BY <2>2, <2>10, <2>11
    <3>2. m = k - i
      BY <1>6, <2>1, <2>10, <3>1 DEF Old
    <3>3. Len(a) = win.length - win.index
      BY <1>2, <1>5, <1>9
    <3>4. Len(a) = k + n - i
      BY <2>1, <2>11, <3>1, <3>3
    <3>5. Len(u) = m + (l - 0)
      BY <1>7, <2>1, <2>2
    <3>6. m \in Nat /\ l - 0 = l
      BY <2>11, <3>2
    <3>7. QED
      BY <3>2, <3>4, <3>5, <3>6
  <2>5. \A j \in 1..Len(a) : a[j] = buf[i + j]
    <3>1. PICK q : q = win.length - win.index
      OBVIOUS
    <3>2. q = Len(a) /\ i \in 0..Len(buf) /\ q \in 0..Len(buf) - i
      <4>1. q = k + n - i /\ Len(buf) = 2 * k
        BY <1>1, <2>1, <2>2, <2>10, <2>11, <3>1
      <4>2. i \in 0..2 * k /\ k + n - i \in 0..2 * k - i
        BY <2>11
      <4>3. QED
        BY <2>4, <4>1, <4>2
    <3>3. \A j \in 1..q : Slice(buf, i, q)[j] = buf[i + j]
      <4>1. PICK b \in Seq(0..256) : b = buf
        BY <1>1
      <4>2. i \in 0..Len(b) /\ q \in 0..Len(b) - i
        BY <3>2, <4>1
      <4>3. \A j \in 1..q : Slice(b, i, q)[j] = b[i + j]
        BY ONLY <4>2, b \in Seq(0..256), SliceIs
      <4>4. QED
        BY <4>1, <4>3
    <3>4. a = Slice(buf, i, q)
      <4>1. Current.input = buf /\ Current.index = i /\ Current.length - Current.index = q
        BY <1>2, <1>9, <2>1, <3>1 DEF Current, DriverInv, WinInv, IsStream
      <4>2. QED
        BY <1>3, <4>1 DEF Ahead
    <3>5. QED
      BY <3>2, <3>3, <3>4
  <2>6. ASSUME NEW j \in 1..Len(a) PROVE a[j] = u[j]
    <3>1. CASE j <= m
      <4>1. j \in 1..m
        BY <1>5, <2>4, <3>1
      <4>2. u[j] = buf[i + j]
        BY <1>7, <2>1, <4>1
      <4>3. QED
        BY <2>5, <4>2
    <3>2. CASE ~(j <= m)
      <4>1. PICK q : q = j - m
        OBVIOUS
      <4>2. q \in 1..n /\ i + j = k + q /\ m + q = j
        BY <2>4, <2>11, <3>2, <4>1
      <4>3. buf[k + q] = chunk.input[q]
        BY <1>9, <2>1, <2>10, <4>2 DEF OrderInv
      <4>4. u[m + q] = chunk.input[q]
        <5>1. chunk.length - chunk.index = l /\ q \in 1..l /\ 0 + q = q
          BY <2>1, <2>2, <2>3, <4>2
        <5>2. u[m + q] = chunk.input[chunk.index + q] /\ chunk.index + q = q
          BY <1>7, <2>2, <5>1
        <5>3. QED
          BY <5>2
      <4>5. QED
        BY <2>5, <4>2, <4>3, <4>4
    <3>3. QED
      BY <3>1, <3>2
  <2>7. Len(a) <= Len(u) /\ (Len(a) = Len(u) \/ Len(a) >= kmax)
    BY <2>4, <2>10, <2>11
  <2>8. IsPrefix(a, u) /\ (Len(a) = Len(u) => a = u)
    BY <1>5, <1>7, <2>6, <2>7, PrefixIs
  <2>9. QED
    BY <1>3, <1>4, <2>6, <2>7, <2>8 DEF SeesNext
<1>10. QED
  BY <1>8, <1>9

LEMMA SuffixIs ==
  ASSUME NEW S, NEW s \in Seq(S), NEW t \in Seq(S), NEW u, u = s \o t
  PROVE  SubSeq(u, Len(s) + 1, Len(u)) = t /\ (u = s => t = <<>>)
<1>1. PICK m, n \in Nat : m = Len(s) /\ n = Len(t)
  OBVIOUS
<1>2. /\ u \in Seq(S) /\ Len(u) = Len(s) + Len(t)
      /\ \A i \in 1..Len(s) + Len(t) : u[i] = IF i <= Len(s) THEN s[i] ELSE t[i - Len(s)]
  BY ConcatProperties
<1>3. Len(u) = m + n /\ m \in 0..Len(u) /\ n \in 0..Len(u) - m
  BY <1>1, <1>2
<1>4. PICK x : x = Slice(u, m, n)
  OBVIOUS
<1>5. x \in Seq(S) /\ Len(x) = n /\ \A j \in 1..n : x[j] = u[m + j]
  <2>1. u \in Seq(S) /\ m \in 0..Len(u) /\ n \in 0..Len(u) - m
    BY <1>2, <1>3
  <2>2. QED
    BY ONLY <1>4, <2>1, SliceIs
<1>6. ASSUME NEW j \in 1..n PROVE x[j] = t[j]
  <2>1. PICK i : i = m + j
    OBVIOUS
  <2>2. i \in 1..m + n /\ ~(i <= m) /\ i - m = j
    BY <2>1
  <2>3. u[i] = t[i - m]
    BY <1>1, <1>2, <2>2
  <2>4. QED
    BY <1>5, <2>1, <2>2, <2>3
<1>7. x = t
  BY <1>1, <1>5, <1>6, SeqEqual
<1>8. x = SubSeq(u, Len(s) + 1, Len(u))
  BY <1>1, <1>3, <1>4 DEF Slice
<1>9. u = s => t = <<>>
  <2>1. u = s => n = 0
    BY <1>1, <1>3
  <2>2. ASSUME n = 0 PROVE t = <<>>
    <3>1. t \in Seq(S) /\ Len(t) = 0
      BY <1>1, <2>2
    <3>2. QED
      BY ONLY <3>1
  <2>3. QED
    BY <2>1, <2>2
<1>10. QED
  BY <1>7, <1>8, <1>9

\* A byte is read from the window, or from the chunk.
Advances(w, v, c, d, k) ==
  /\ d.input = c.input /\ d.length = c.length
  /\ \/ /\ Old(w, k) > 0 /\ Old(v, k) = Old(w, k) - 1 /\ d.index = c.index
        /\ Old(v, k) > 0 => v.index = w.index + 1 /\ w.index \in Nat
     \/ Old(w, k) = 0 /\ Old(v, k) = 0 /\ d.index = c.index + 1

LEMMA RestTail ==
  ASSUME NEW k, NEW w, NEW v, NEW b, NEW c, NEW d,
         RestOK(w, b, c, k), RestOK(v, b, d, k), Advances(w, v, c, d, k)
  PROVE  /\ Rest(w, b, c, k) # <<>> /\ Rest(v, b, d, k) = Tail(Rest(w, b, c, k))
         /\ Rest(w, b, c, k) \in Seq(0..256) /\ Head(Rest(w, b, c, k)) = Rest(w, b, c, k)[1]
<1>1. PICK u : u = Rest(w, b, c, k)
  OBVIOUS
<1>2. PICK t : t = Rest(v, b, d, k)
  OBVIOUS
<1>3. PICK m : m = Old(w, k)
  OBVIOUS
<1>4. PICK o : o = Old(v, k)
  OBVIOUS
<1>5. PICK n : n = c.length - c.index
  OBVIOUS
<1>6. PICK p : p = d.length - d.index
  OBVIOUS
<1>7. /\ m \in 0..k /\ n \in Nat /\ u \in Seq(0..256) /\ Len(u) = m + n
      /\ \A j \in 1..m : u[j] = b[w.index + j]
      /\ \A j \in 1..n : u[m + j] = c.input[c.index + j]
  <2>2. /\ Old(w, k) \in 0..k /\ c.length - c.index \in Nat
        /\ Rest(w, b, c, k) \in Seq(0..256)
        /\ Len(Rest(w, b, c, k)) = Old(w, k) + (c.length - c.index)
        /\ \A j \in 1..Old(w, k) : Rest(w, b, c, k)[j] = b[w.index + j]
        /\ \A j \in 1..c.length - c.index : Rest(w, b, c, k)[Old(w, k) + j] = c.input[c.index + j]
    BY ONLY RestOK(w, b, c, k), RestIs
  <2>3. QED
    BY ONLY <1>1, <1>3, <1>5, <2>2
<1>8. /\ o \in 0..k /\ p \in Nat /\ t \in Seq(0..256) /\ Len(t) = o + p
      /\ \A j \in 1..o : t[j] = b[v.index + j]
      /\ \A j \in 1..p : t[o + j] = d.input[d.index + j]
  <2>2. /\ Old(v, k) \in 0..k /\ d.length - d.index \in Nat
        /\ Rest(v, b, d, k) \in Seq(0..256)
        /\ Len(Rest(v, b, d, k)) = Old(v, k) + (d.length - d.index)
        /\ \A j \in 1..Old(v, k) : Rest(v, b, d, k)[j] = b[v.index + j]
        /\ \A j \in 1..d.length - d.index : Rest(v, b, d, k)[Old(v, k) + j] = d.input[d.index + j]
    BY ONLY RestOK(v, b, d, k), RestIs
  <2>3. QED
    BY ONLY <1>2, <1>4, <1>6, <2>2
<1>9. /\ k \in Nat /\ c.index \in Nat /\ c.length \in Nat /\ d.index \in Nat
      /\ d.input = c.input /\ d.length = c.length
  BY DEF RestOK, StreamOK, Advances
<1>10. CASE /\ m > 0 /\ o = m - 1 /\ d.index = c.index
            /\ o > 0 => v.index = w.index + 1 /\ w.index \in Nat
  <2>1. p = n /\ Len(u) > 0 /\ Len(t) = Len(u) - 1
    <3>1. p = n
      BY <1>5, <1>6, <1>9, <1>10
    <3>2. m \in Nat /\ n \in Nat /\ Len(u) = m + n /\ Len(t) = o + p
      BY <1>7, <1>8, <1>9
    <3>3. QED
      BY <1>10, <3>1, <3>2
  <2>2. ASSUME NEW j \in 1..Len(t) PROVE t[j] = u[j + 1]
    <3>1. CASE j <= o
      <4>1. j \in 1..o /\ o > 0 /\ j + 1 \in 1..m
        BY <1>7, <1>8, <1>10, <3>1
      <4>2. v.index + j = w.index + (j + 1)
        <5>1. PICK x \in Nat : x = w.index /\ v.index = x + 1
          BY <1>10, <4>1
        <5>2. j \in Nat
          BY <1>8
        <5>3. (x + 1) + j = x + (j + 1)
          BY <5>2
        <5>4. QED
          BY <5>1, <5>3
      <4>3. t[j] = b[v.index + j]
        BY <1>8, <4>1
      <4>4. PICK i : i = j + 1
        OBVIOUS
      <4>5. u[i] = b[w.index + i]
        BY <1>7, <4>1, <4>4
      <4>6. QED
        BY <4>2, <4>3, <4>4, <4>5
    <3>2. CASE ~(j <= o)
      <4>1. PICK i : i = j - o
        OBVIOUS
      <4>2. i \in 1..p /\ i \in 1..n /\ o + i = j /\ m + i = j + 1
        BY <1>7, <1>8, <1>10, <2>1, <3>2, <4>1
      <4>3. t[o + i] = d.input[d.index + i] /\ u[m + i] = c.input[c.index + i]
        BY <1>7, <1>8, <4>2
      <4>4. QED
        BY <1>9, <1>10, <4>2, <4>3
    <3>3. QED
      BY <3>1, <3>2
  <2>3. u # <<>> /\ t = Tail(u) /\ Head(u) = u[1]
    <3>1. /\ u \in Seq(0..256) /\ t \in Seq(0..256) /\ Len(u) > 0 /\ Len(t) = Len(u) - 1
          /\ \A j \in 1..Len(t) : t[j] = u[j + 1]
      BY <1>7, <1>8, <2>1, <2>2
    <3>2. QED
      BY ONLY <3>1, TailIs
  <2>4. QED
    BY <1>1, <1>2, <1>7, <2>3
<1>11. CASE m = 0 /\ o = 0 /\ d.index = c.index + 1
  <2>1. p = n - 1 /\ n > 0 /\ Len(u) > 0 /\ Len(t) = Len(u) - 1 /\ Len(t) = p
    <3>1. PICK i, l \in Nat : i = c.index /\ l = c.length
      BY <1>9
    <3>2. n = l - i /\ p = l - (i + 1)
      BY <1>5, <1>6, <1>9, <1>11, <3>1
    <3>3. n \in Nat /\ p \in Nat /\ Len(u) = 0 + n /\ Len(t) = 0 + p
      BY <1>7, <1>8, <1>11
    <3>4. QED
      BY <3>1, <3>2, <3>3
  <2>2. ASSUME NEW j \in 1..Len(t) PROVE t[j] = u[j + 1]
    <3>1. PICK i : i = j + 1
      OBVIOUS
    <3>2. j \in 1..p /\ i \in 1..n /\ o + j = j /\ m + i = i
      BY <1>7, <1>8, <1>11, <2>1, <3>1
    <3>3. t[o + j] = d.input[d.index + j] /\ u[m + i] = c.input[c.index + i]
      BY <1>7, <1>8, <3>2
    <3>4. d.index + j = c.index + i
      <4>1. PICK x \in Nat : x = c.index /\ d.index = x + 1
        BY <1>9, <1>11
      <4>2. j \in Nat
        BY <1>8
      <4>3. (x + 1) + j = x + (j + 1)
        BY <4>2
      <4>4. QED
        BY <3>1, <4>1, <4>3
    <3>5. QED
      BY <1>9, <3>1, <3>2, <3>3, <3>4
  <2>3. u # <<>> /\ t = Tail(u) /\ Head(u) = u[1]
    <3>1. /\ u \in Seq(0..256) /\ t \in Seq(0..256) /\ Len(u) > 0 /\ Len(t) = Len(u) - 1
          /\ \A j \in 1..Len(t) : t[j] = u[j + 1]
      BY <1>7, <1>8, <2>1, <2>2
    <3>2. QED
      BY ONLY <3>1, TailIs
  <2>4. QED
    BY <1>1, <1>2, <1>7, <2>3
<1>12. QED
  BY <1>3, <1>4, <1>10, <1>11 DEF Advances

LEMMA LeaveOrder ==
  ASSUME Running, NEW st, NEW sq, NEW f \in BOOLEAN, NEW c, Leave(st, sq, f, c)
  PROVE  /\ OrderInv' /\ chunk' = NoChunk /\ stack' = st
         /\ f \/ st = <<>> => done'
         /\ UNCHANGED <<input, table, grammar>> /\ kmax' = kmax
<1>1. /\ chunk' = NoChunk /\ stack' = st /\ done' = (f \/ st = <<>>)
      /\ UNCHANGED <<input, table, grammar>>
      /\ pc' = CASE pc = "chunk" -> "idle" [] pc = "finish" /\ ~done' -> "abort"
                 [] OTHER -> "done"
  BY DEF Leave
<1>2. ~Running'
  BY <1>1 DEF Running
<1>3. OrderInv'
  BY <1>1, <1>2, NoChunkOK DEF OrderInv
<1>4. QED
  BY <1>1, <1>3 DEF kmax

\* A chunk is given.
LEMMA RunOrder ==
  ASSUME DriverInv, DriverInv', OrderInv, NEW call \in {"chunk", "finish", "parse"},
         NEW bytes \in Seq(0..256), NEW p, NEW last \in BOOLEAN,
         Run(call, Stream(bytes, p, last)), input' = input \o bytes
  PROVE  OrderInv' /\ InOrderStep
<1> DEFINE c == Stream(bytes, p, last)
<1>1. /\ pc = "idle" /\ ~done /\ pc' = call /\ chunk' = c
      /\ IF win.length > 0 THEN append_win(c) /\ stream' = "win"
                           ELSE stream' = "chunk" /\ UNCHANGED <<win, buf>>
      /\ kmax' = kmax
  BY DEF Run, kmax
<1>2. c.input = bytes /\ c.index = 0 /\ c.length = Len(bytes) /\ ~c.overrun
  BY DEF Stream
<1> HIDE DEF c
<1>3. StreamOK(c) /\ Len(bytes) \in Nat
  BY <1>2 DEF StreamOK
<1>4. ~Running /\ Running' /\ chunk = NoChunk
  BY <1>1 DEF Running, OrderInv
<1>5. /\ kmax \in Nat \ {0} /\ buf \in Seq(0..256) /\ Len(buf) = 2 * kmax
      /\ win.length > 0 => win.index \in 0..kmax - 1
  BY <1>1, WindowOK
<1>6. /\ buf' \in Seq(0..256) /\ Len(buf') = 2 * kmax
      /\ win'.length > 0 => win'.index \in 0..kmax - 1
  <2>1. WinInv' /\ Open(win', stream', chunk', kmax')
    BY <1>4 DEF DriverInv, WinInv
  <2>2. QED
    BY <1>1, <2>1 DEF WinInv, Open
<1>7. /\ Old(win', kmax) = Old(win, kmax)
      /\ \A j \in 1..Old(win, kmax) : buf'[win'.index + j] = buf[win.index + j]
      /\ stream' = "win" => \A j \in 1..Fill(kmax, c.length) : buf'[kmax + j] = c.input[j]
  <2>1. CASE win.length > 0
    <3> DEFINE n == Fill(kmax, c.length)
    <3>1. n \in 0..kmax /\ n \in 0..Len(bytes)
      BY <1>2, <1>3, <1>5 DEF Fill
    <3>2. win.length = kmax /\ IsStream(win)
      BY <1>1, <2>1 DEF DriverInv, WinInv, Resting
    <3>3. Appended(c) = Slice(bytes, 0, n)
      <4>1. c.length - c.index = c.length
        BY <1>2, <1>3
      <4>2. QED
        BY <1>2, <4>1 DEF Appended, Fill
    <3> HIDE DEF n
    <3>4. PICK a : a = Appended(c)
      OBVIOUS
    <3>5. a \in Seq(0..256) /\ Len(a) = n /\ \A j \in 1..n : a[j] = bytes[j]
      <4>1. 0 \in 0..Len(bytes) /\ n \in 0..Len(bytes) - 0
        BY <1>3, <3>1
      <4>2. /\ Slice(bytes, 0, n) \in Seq(0..256) /\ Len(Slice(bytes, 0, n)) = n
            /\ \A j \in 1..n : Slice(bytes, 0, n)[j] = bytes[0 + j]
        BY ONLY <4>1, bytes \in Seq(0..256), SliceIs
      <4>3. \A j \in 1..n : 0 + j = j
        BY <3>1
      <4>4. QED
        BY <3>3, <3>4, <4>2, <4>3
    <3>6. /\ buf' = SubSeq(buf, 1, kmax) \o a \o SubSeq(buf, kmax + n + 1, 2 * kmax)
          /\ win' = [win EXCEPT !.length = win.length + n]
      BY <1>1, <2>1, <3>4, <3>5 DEF append_win
    <3>7. PICK k, e : k = kmax /\ e = kmax + n
      OBVIOUS
    <3>8. k \in 0..Len(buf) /\ e \in k..Len(buf) /\ Len(a) = e - k /\ e - k = n
      BY <1>5, <3>1, <3>5, <3>7
    <3>9. buf' = Splice(buf, k, a, e)
      BY <1>5, <3>6, <3>7 DEF Splice
    <3>10. PICK b \in Seq(0..256) : b = buf
      BY <1>5
    <3>11. /\ \A j \in 1..k : Splice(b, k, a, e)[j] = b[j]
           /\ \A j \in 1..e - k : Splice(b, k, a, e)[k + j] = a[j]
      <4>1. /\ b \in Seq(0..256) /\ a \in Seq(0..256) /\ k \in 0..Len(b) /\ e \in k..Len(b)
            /\ Len(a) = e - k
        BY <3>5, <3>8, <3>10
      <4>2. QED
        BY ONLY <4>1, SplicedAt
    <3>12. /\ \A j \in 1..kmax : buf'[j] = buf[j]
           /\ \A j \in 1..n : buf'[kmax + j] = bytes[j]
      BY <3>5, <3>7, <3>8, <3>9, <3>10, <3>11
    <3>13. win'.index = win.index /\ win'.length = win.length + n
      BY <3>2, <3>6 DEF IsStream
    <3>14. win'.length > 0 /\ Old(win', kmax) = Old(win, kmax) /\ Old(win, kmax) = kmax - win.index
      BY <1>5, <2>1, <3>1, <3>2, <3>13 DEF Old
    <3>15. ASSUME NEW j \in 1..Old(win, kmax) PROVE buf'[win'.index + j] = buf[win.index + j]
      <4>1. PICK i : i = win.index + j
        OBVIOUS
      <4>2. i \in 1..kmax
        BY <1>5, <2>1, <3>14, <4>1
      <4>3. QED
        BY <3>12, <3>13, <4>1, <4>2
    <3>16. QED
      BY <1>2, <3>12, <3>14, <3>15 DEF n
  <2>2. CASE ~(win.length > 0)
    <3>1. win' = win /\ buf' = buf /\ stream' = "chunk"
      BY <1>1, <2>2
    <3>2. QED
      BY <3>1
  <2>3. QED
    BY <2>1, <2>2
<1>8. Unread' = Unread \o bytes /\ Unread \in Seq(0..256)
  <2>1. PICK v, b2, b, k : v = win' /\ b2 = buf' /\ b = buf /\ k = kmax
    OBVIOUS
  <2>2. PICK w, z : w = win /\ z = NoChunk
    OBVIOUS
  <2>3. /\ k \in Nat \ {0} /\ b \in Seq(0..256) /\ Len(b) = 2 * k
        /\ b2 \in Seq(0..256) /\ Len(b2) = 2 * k /\ StreamOK(z) /\ z.length = z.index
        /\ StreamOK(c) /\ c.index = 0 /\ c.length = Len(c.input)
        /\ w.length > 0 => w.index \in 0..k - 1
        /\ v.length > 0 => v.index \in 0..k - 1
        /\ Old(v, k) = Old(w, k)
        /\ \A j \in 1..Old(w, k) : b2[v.index + j] = b[w.index + j]
    BY <1>2, <1>3, <1>5, <1>6, <1>7, <2>1, <2>2, NoChunkOK
  <2>7. /\ RestOK(w, b, z, k) /\ RestOK(v, b2, c, k) /\ SameOld(w, b, v, b2, k)
        /\ z.length = z.index /\ c.index = 0 /\ c.length = Len(c.input)
    BY ONLY <2>3 DEF RestOK, SameOld
  <2>4. Rest(w, b, z, k) \in Seq(0..256) /\ Rest(v, b2, c, k) = Rest(w, b, z, k) \o c.input
    BY ONLY <2>7, RestGrows
  <2>5. Unread = Rest(w, b, z, k) /\ Unread' = Rest(v, b2, c, k)
    BY <1>1, <1>4, <2>1, <2>2, UnreadIs
  <2>6. QED
    BY <1>2, <2>4, <2>5
<1>9. OrderInv'
  BY <1>1, <1>2, <1>4, <1>7 DEF OrderInv
<1>10. InOrderStep
  <2>1. ~Matched
    BY <1>4 DEF Matched, OnSymbol
  <2>2. input \in Seq(0..256)
    BY DEF DriverInv, CallInv
  <2>3. PICK u : u = input'
    OBVIOUS
  <2>4. SubSeq(u, Len(input) + 1, Len(u)) = bytes /\ (u = input => bytes = <<>>)
    BY <2>2, <2>3, SuffixIs
  <2>5. ASSUME input' = input PROVE Unread' = Unread
    BY <1>8, <2>3, <2>4, <2>5, ConcatEmptySeq
  <2>6. QED
    BY <1>8, <2>1, <2>3, <2>4, <2>5 DEF InOrderStep
<1>11. QED
  BY <1>9, <1>10

\* When input is asked for, everything that is left is kept in the window.
LEMMA SaveOrder ==
  ASSUME DriverInv, OrderInv, Running, NEW x, IsNT(x), h_llk_lookup(x, Current) = NEED_INPUT,
         save_win(chunk), chunk' = NoChunk, kmax' = kmax
  PROVE  Unread' = Unread
<1>1. /\ kmax \in Nat \ {0} /\ buf \in Seq(0..256) /\ Len(buf) = 2 * kmax
      /\ StreamOK(chunk)
  BY WindowOK
<1>2. /\ Left(chunk) \in 0 .. kmax - 1
      /\ Kept(chunk) \in Seq(0..256)
      /\ Len(Kept(chunk)) \in 0 .. kmax - 1
      /\ Left(chunk) > 0 => Len(Kept(chunk)) > 0
      /\ Kept(chunk) = Ahead(Current)
  BY AsksForInput DEF DriverInv
<1>3. Ahead(NoChunk) = <<>>
  BY NoChunkOK, AheadEmpty
<1>4. Unread' = Rest(win', buf', NoChunk, kmax)
  BY UnreadIs
<1>5. CASE Left(chunk) = 0
  <2>1. win' = win /\ buf' = buf
    BY <1>5 DEF save_win
  <2>2. chunk.length = chunk.index
    <3>1. PICK i, l \in Nat : i = chunk.index /\ l = chunk.length
      BY <1>1 DEF StreamOK
    <3>2. l - i = 0
      BY <1>5, <3>1 DEF Left
    <3>3. QED
      BY <3>1, <3>2
  <2>3. Ahead(chunk) = <<>>
    BY <1>1, <2>2, AheadEmpty
  <2>4. QED
    BY <1>3, <1>4, <2>1, <2>3, UnreadIs DEF Rest
<1>6. CASE Left(chunk) # 0
  <2>1. PICK b, k, n, a : b = buf /\ k = kmax /\ n = Kept(chunk) /\ a = kmax - Len(Kept(chunk))
    OBVIOUS
  <2>2. /\ b \in Seq(0..256) /\ Len(b) = 2 * k /\ n \in Seq(0..256) /\ k \in Nat \ {0}
        /\ Len(n) \in 1..k - 1
    BY <1>1, <1>2, <1>6, <2>1
  <2>3. /\ a \in 0..k - 1 /\ a \in 0..Len(b) /\ k \in a..Len(b) /\ Len(n) = k - a
    BY <2>1, <2>2
  <2>4. /\ buf' = SubSeq(b, 1, a) \o n \o SubSeq(b, k + 1, 2 * k)
        /\ win' = [chunk EXCEPT !.input = <<>>, !.index = a, !.length = k]
    BY <1>6, <2>1 DEF save_win
  <2>5. win'.index = a /\ win'.length = k
    BY <2>4 DEF DriverInv, WinInv, IsStream
  <2>6. buf' = Splice(b, a, n, k)
    BY <2>2, <2>4 DEF Splice
  <2>7. PICK z : z = Splice(b, a, n, k)
    OBVIOUS
  <2>8. /\ z \in Seq(0..256) /\ Len(z) = 2 * k /\ \A j \in 1..k - a : z[a + j] = n[j]
    <3>1. Splice(b, a, n, k) \in Seq(0..256) /\ Len(Splice(b, a, n, k)) = Len(b)
      BY ONLY <2>2, <2>3, Spliced
    <3>2. \A j \in 1..k - a : Splice(b, a, n, k)[a + j] = n[j]
      <4>1. /\ b \in Seq(0..256) /\ n \in Seq(0..256) /\ a \in 0..Len(b) /\ k \in a..Len(b)
            /\ Len(n) = k - a
        BY <2>2, <2>3
      <4>2. QED
        BY ONLY <4>1, SplicedAt
    <3>3. QED
      BY <2>2, <2>7, <3>1, <3>2
  <2>9. PICK q, s : q = k - a /\ s = Slice(z, a, q)
    OBVIOUS
  <2>10. a \in 0..Len(z) /\ q \in 0..Len(z) - a /\ z \in Seq(0..256)
    BY <2>2, <2>3, <2>8, <2>9
  <2>11. s \in Seq(0..256) /\ Len(s) = q /\ \A j \in 1..q : s[j] = z[a + j]
    <3>1. /\ Slice(z, a, q) \in Seq(0..256) /\ Len(Slice(z, a, q)) = q
          /\ \A j \in 1..q : Slice(z, a, q)[j] = z[a + j]
      BY ONLY <2>10, SliceIs
    <3>2. QED
      BY <2>9, <3>1
  <2>12. s = n
    <3>1. /\ s \in Seq(0..256) /\ n \in Seq(0..256) /\ Len(s) = Len(n)
          /\ \A j \in 1..Len(s) : s[j] = n[j]
      BY <2>2, <2>3, <2>8, <2>9, <2>11
    <3>2. QED
      BY ONLY <3>1, SeqEqual
  <2>13. Unread' = n \o <<>>
    <3>1. win'.length > 0
      BY <2>2, <2>5
    <3>2. Unread' = Slice(z, a, q) \o Ahead(NoChunk)
      BY <1>4, <2>1, <2>5, <2>6, <2>7, <2>9, <3>1 DEF Rest
    <3>3. QED
      BY <1>3, <2>9, <2>12, <3>2
  <2>14. Unread = n
    <3>1. SeesNext
      BY Sees
    <3>2. ~(Len(n) >= k)
      BY <2>2
    <3>3. QED
      BY <1>2, <2>1, <3>1, <3>2 DEF SeesNext
  <2>15. QED
    BY <2>2, <2>13, <2>14, ConcatEmptySeq
<1>7. QED
  BY <1>5, <1>6

\* A byte is read: it is the next one, or there is none in the chunk.
LEMMA ReadOrder ==
  ASSUME DriverInv, OrderInv, Running, Read
  PROVE  LET c == AfterRead
             now == IF stream' = "win" THEN win' ELSE c
         IN /\ stream' = "win" => \A j \in 1..Fill(kmax, c.length) : buf'[kmax + j] = c.input[j]
            /\ c.overrun => c.index = c.length
            /\ now.overrun => /\ Unread = <<>> /\ win'.length = 0
                              /\ c.index = c.length /\ StreamOK(c)
            /\ ~now.overrun => /\ Unread # <<>> /\ Unread \in Seq(0..256)
                               /\ Rest(win', buf', c, kmax) = Tail(Unread)
                               /\ Head(Unread) = Ahead(Current)[1]
<1> DEFINE c == AfterRead
           now == IF stream' = "win" THEN win' ELSE c
<1>1. /\ kmax \in Nat \ {0} /\ buf \in Seq(0..256) /\ Len(buf) = 2 * kmax
      /\ StreamOK(chunk)
      /\ win.length > 0 => win.index \in 0..kmax - 1
  BY WindowOK
<1>2. /\ buf' = buf /\ IsStream(win') /\ ~win'.overrun
      /\ Open(win', stream', c, kmax)
      /\ stream' = "win" => c = chunk /\ ~chunk.overrun
      /\ IsStream(c) /\ c.length = chunk.length
  BY ReadWindow
<1>3. IsStream(win) /\ IsStream(chunk) /\ Open(win, stream, chunk, kmax)
  BY DEF DriverInv, WinInv
<1>4. chunk.index \in Nat /\ chunk.length \in Nat /\ chunk.index <= chunk.length
  BY <1>1 DEF StreamOK
\* What ReadOrder says of the unread bytes, from lemma RestTail.
<1>5. ASSUME StreamOK(c), c.input = chunk.input, win'.length > 0 => win'.index \in 0..kmax - 1,
             \/ /\ Old(win, kmax) > 0 /\ Old(win', kmax) = Old(win, kmax) - 1
                /\ c.index = chunk.index
                /\ Old(win', kmax) > 0 => win'.index = win.index + 1 /\ win.index \in Nat
             \/ Old(win, kmax) = 0 /\ Old(win', kmax) = 0 /\ c.index = chunk.index + 1
      PROVE  /\ Unread # <<>> /\ Unread \in Seq(0..256)
             /\ Rest(win', buf', c, kmax) = Tail(Unread)
             /\ Head(Unread) = Ahead(Current)[1]
  <2>1. PICK d, e, v, w, b, k :
          /\ d = c /\ e = chunk /\ v = win' /\ w = win /\ b = buf /\ k = kmax
    OBVIOUS
  <2>2. RestOK(w, b, e, k) /\ RestOK(v, b, d, k) /\ Advances(w, v, e, d, k) /\ k \in Nat \ {0}
    <3>1. RestOK(w, b, e, k)
      BY <1>1, <2>1 DEF RestOK
    <3>2. RestOK(v, b, d, k)
      BY <1>1, <1>5, <2>1 DEF RestOK
    <3>3. Advances(w, v, e, d, k)
      BY <1>2, <1>5, <2>1 DEF Advances
    <3>4. QED
      BY <1>1, <2>1, <3>1, <3>2, <3>3
  <2>3. /\ Rest(w, b, e, k) # <<>> /\ Rest(v, b, d, k) = Tail(Rest(w, b, e, k))
        /\ Rest(w, b, e, k) \in Seq(0..256) /\ Head(Rest(w, b, e, k)) = Rest(w, b, e, k)[1]
    BY ONLY <2>2, RestTail
  <2>4. Unread = Rest(w, b, e, k) /\ Rest(win', buf', c, kmax) = Rest(v, b, d, k)
    BY <1>2, <2>1, UnreadIs
  <2>5. Head(Unread) = Ahead(Current)[1]
    <3>1. PICK a, u : a = Ahead(Current) /\ u = Unread
      OBVIOUS
    <3>2. (a = u \/ Len(a) >= k) /\ \A j \in 1..Len(a) : a[j] = u[j]
      BY <2>1, <3>1, Sees DEF SeesNext
    <3>3. u \in Seq(0..256) /\ u # <<>>
      BY <2>3, <2>4, <3>1
    <3>4. Len(u) \in Nat \ {0}
      BY ONLY <3>3
    <3>5. a \in Seq(0..256)
      BY <1>1, <3>1, AheadOf, CurrentOK DEF DriverInv
    <3>6. 1 \in 1..Len(a)
      <4>1. Len(a) \in Nat
        BY <3>5
      <4>2. Len(a) >= 1
        BY <2>2, <3>2, <3>4, <4>1
      <4>3. QED
        BY <4>1, <4>2
    <3>7. QED
      BY <2>3, <2>4, <3>1, <3>2, <3>6
  <2>6. QED
    BY <2>3, <2>4, <2>5
<1>6. CASE stream = "win"
  <2>1. PICK i, k, l, f : /\ i = win.index /\ k = kmax /\ l = win.length
                          /\ f = Fill(kmax, chunk.length)
    OBVIOUS
  <2>2. i \in 0..k - 1 /\ l = k + f /\ chunk.index = 0 /\ ~chunk.overrun /\ k \in Nat \ {0}
    BY <1>1, <1>3, <1>6, <2>1 DEF Open
  <2>3. f \in Nat /\ l > 0
    <3>1. f \in Nat
      BY <1>1, <1>4, <2>1 DEF Fill
    <3>2. QED
      BY <2>2, <3>1
  <2>4. PICK n : n = i + 1
    OBVIOUS
  <2>5. /\ c = chunk
        /\ win' = [win EXCEPT !.index = n, !.length = IF n >= k THEN 0 ELSE l]
        /\ stream' = IF n >= k THEN "chunk" ELSE "win"
    BY <1>6, <2>1, <2>4 DEF Read, AfterRead
  <2>6. win'.index = n /\ win'.length = IF n >= k THEN 0 ELSE l
    BY <1>3, <2>5 DEF IsStream
  <2>7. Old(win, kmax) = k - i /\ Old(win', kmax) = IF n >= k THEN 0 ELSE k - n
    BY <2>1, <2>3, <2>6 DEF Old
  <2>8. /\ k - i > 0 /\ (IF n >= k THEN 0 ELSE k - n) = k - i - 1
        /\ ~(n >= k) => n \in 0..k - 1
    BY <2>2, <2>4
  <2>9. win'.length > 0 => win'.index \in 0..kmax - 1
    BY <2>1, <2>6, <2>8
  <2>10. /\ Unread # <<>> /\ Unread \in Seq(0..256)
         /\ Rest(win', buf', c, kmax) = Tail(Unread)
         /\ Head(Unread) = Ahead(Current)[1]
    <3>1. StreamOK(c) /\ c.input = chunk.input /\ c.index = chunk.index
      BY <1>1, <2>5
    <3>2. /\ Old(win, kmax) > 0 /\ Old(win', kmax) = Old(win, kmax) - 1
          /\ win'.index = win.index + 1 /\ win.index \in Nat
      BY <2>1, <2>2, <2>4, <2>6, <2>7, <2>8
    <3> HIDE DEF c
    <3>3. QED
      BY <1>5, <2>9, <3>1, <3>2
  <2>11. ~now.overrun /\ ~c.overrun
    BY <1>2, <2>2, <2>5
  <2>12. stream' = "win" => \A j \in 1..Fill(kmax, c.length) : buf'[kmax + j] = c.input[j]
    BY <1>2, <1>6, <2>5 DEF OrderInv
  <2>13. QED
    BY <2>10, <2>11, <2>12
<1>7. CASE stream # "win"
  <2>1. win' = win /\ stream' = stream /\ win.length = 0 /\ buf' = buf
    BY <1>3, <1>7 DEF Read, Open
  <2>2. Old(win, kmax) = 0 /\ Old(win', kmax) = 0 /\ now = c
    BY <1>7, <2>1 DEF Old
  <2>3. CASE chunk.index = chunk.length
    <3>1. c = [chunk EXCEPT !.overrun = TRUE]
      BY <1>7, <2>3 DEF AfterRead
    <3>2. c.input = chunk.input /\ c.index = chunk.index /\ c.overrun
      BY <1>3, <3>1 DEF IsStream
    <3>3. StreamOK(c)
      BY <1>1, <1>2, <3>2 DEF StreamOK
    <3>4. Unread = <<>>
      <4>1. Ahead(chunk) = <<>>
        BY <1>1, <2>3, AheadEmpty
      <4>2. Unread = <<>> \o <<>>
        BY <2>1, <4>1 DEF Unread
      <4>3. QED
        BY <4>2
    <3> HIDE DEF c
    <3>5. c.index = c.length
      BY <1>2, <2>3, <3>2
    <3>6. QED
      BY <1>7, <2>1, <2>2, <3>2, <3>3, <3>4, <3>5 DEF c
  <2>4. CASE chunk.index # chunk.length
    <3>1. c = [chunk EXCEPT !.index = chunk.index + 1] /\ ~chunk.overrun
      BY <1>7, <2>4 DEF AfterRead, OrderInv
    <3>2. c.input = chunk.input /\ c.index = chunk.index + 1 /\ ~c.overrun
      BY <1>3, <3>1 DEF IsStream
    <3>3. StreamOK(c)
      <4>1. chunk.index + 1 \in 0..chunk.length
        BY <1>4, <2>4
      <4>2. QED
        BY <1>1, <1>2, <3>2, <4>1 DEF StreamOK
    <3> HIDE DEF c
    <3>4. /\ Unread # <<>> /\ Unread \in Seq(0..256)
          /\ Rest(win', buf', c, kmax) = Tail(Unread)
          /\ Head(Unread) = Ahead(Current)[1]
      BY <1>5, <2>1, <2>2, <3>2, <3>3
    <3>5. QED
      BY <1>7, <2>1, <2>2, <3>2, <3>4 DEF c
  <2>5. QED
    BY <2>3, <2>4
<1>8. QED
  BY <1>6, <1>7

\* A round that only moves in the chunk keeps what OrderInv says.
LEMMA RoundOrder ==
  ASSUME OrderInv, Running, UNCHANGED front, NEW c, chunk' = c,
         stream' = "win" => \A j \in 1..Fill(kmax, c.length) : buf'[kmax + j] = c.input[j],
         c.overrun => c.index = c.length
  PROVE  OrderInv' /\ input' = input /\ kmax' = kmax
<1>1. pc' = pc /\ table' = table /\ input' = input
  BY DEF front
<1>2. Running' /\ kmax' = kmax
  BY <1>1 DEF Running, kmax
<1>3. QED
  BY <1>1, <1>2 DEF OrderInv

LEMMA TailDiffers ==
  ASSUME NEW s, IsSequence(s), s # <<>>
  PROVE  Tail(s) # s
<1>1. PICK S : s \in Seq(S)
  BY DEF IsSequence
<1>2. s \in Seq(S) /\ s # <<>>
  BY <1>1
<1>3. PICK t : t = Tail(s)
  OBVIOUS
<1>4. t \in Seq(S) /\ Len(t) = Len(s) - 1
  BY ONLY <1>2, <1>3, HeadTailProperties
<1>5. Len(s) \in Nat
  BY ONLY <1>2
<1>6. Len(t) # Len(s)
  BY ONLY <1>4, <1>5
<1>7. QED
  BY <1>3, <1>6

LEMMA TerminalOrder ==
  ASSUME DriverInv, OrderInv, Terminal
  PROVE  OrderInv' /\ InOrderStep
<1> DEFINE x == Top.symbol
           c == AfterRead
           now == IF stream' = "win" THEN win' ELSE c
           byte == Ahead(Current)[1]
           wants == IF x = END THEN {} ELSE grammar.charset[x]
<1>1. OnSymbol /\ ~IsNT(x) /\ Read /\ Running /\ stack # <<>>
  BY DEF Terminal, OnSymbol
<1>2. /\ stream' = "win" => \A j \in 1..Fill(kmax, c.length) : buf'[kmax + j] = c.input[j]
      /\ c.overrun => c.index = c.length
      /\ now.overrun => /\ Unread = <<>> /\ win'.length = 0
                        /\ c.index = c.length /\ StreamOK(c)
      /\ ~now.overrun => /\ Unread # <<>> /\ Unread \in Seq(0..256)
                         /\ Rest(win', buf', c, kmax) = Tail(Unread)
                         /\ Head(Unread) = byte
  BY <1>1, ReadOrder
<1>3. \/ now.overrun /\ x = END /\ Record(x, NoToken, Tail(stack), seq, c)
      \/ now.overrun /\ need_input(now.last_chunk, c)
      \/ no_parse(c)
      \/ ~now.overrun /\ byte \in wants /\ Record(x, Leaf(byte), Tail(stack), seq, c)
  BY DEF Terminal
<1>4. byte \in wants => x # END
  OBVIOUS
<1> HIDE DEF c, x, now, byte, wants
<1>5. ASSUME no_parse(c) PROVE OrderInv' /\ InOrderStep
  <2>1. Leave(stack, seq, TRUE, c)
    BY <1>5 DEF no_parse
  <2>2. OrderInv' /\ done'
    BY <1>1, <2>1, LeaveOrder
  <2>3. QED
    BY <2>2 DEF InOrderStep
<1>6. Tail(stack) # stack
  BY <1>1, TailDiffers DEF DriverInv, Shape
\* Nothing is left to read.
<1>7. ASSUME now.overrun, chunk' = c \/ chunk' = NoChunk, kmax' = kmax PROVE Unread' = Unread
  <2>1. Ahead(chunk') = <<>>
    <3>1. Ahead(c) = <<>>
      BY <1>2, <1>7, AheadEmpty
    <3>2. Ahead(NoChunk) = <<>>
      BY NoChunkOK, AheadEmpty
    <3>3. QED
      BY <1>7, <3>1, <3>2
  <2>2. Unread' = <<>> \o <<>>
    BY <1>2, <1>7, <2>1, UnreadIs DEF Rest
  <2>3. QED
    BY <1>2, <1>7, <2>2
<1>8. CASE now.overrun /\ x = END /\ Record(x, NoToken, Tail(stack), seq, c)
  <2>1. CASE NoToken \in grammar.refused[x]
    BY <1>5, <1>8, <2>1 DEF Record
  <2>2. CASE NoToken \notin grammar.refused[x]
    <3>1. chunk' = c /\ UNCHANGED front
      BY <1>8, <2>2 DEF Record
    <3>2. OrderInv' /\ input' = input /\ kmax' = kmax
      BY <1>1, <1>2, <3>1, RoundOrder
    <3>3. Unread' = Unread
      BY <1>7, <1>8, <3>1, <3>2
    <3>4. ~Matched
      BY <1>8 DEF Matched, x
    <3>5. QED
      BY <3>2, <3>3, <3>4 DEF InOrderStep
  <2>3. QED
    BY <2>1, <2>2
<1>9. CASE now.overrun /\ need_input(now.last_chunk, c)
  <2>1. CASE now.last_chunk
    BY <1>5, <1>9, <2>1 DEF need_input
  <2>2. CASE ~now.last_chunk
    <3>1. Leave(stack, seq, FALSE, c)
      BY <1>9, <2>2 DEF need_input
    <3>2. OrderInv' /\ chunk' = NoChunk /\ stack' = stack /\ input' = input /\ kmax' = kmax
      BY <1>1, <3>1, LeaveOrder
    <3>3. Unread' = Unread
      BY <1>7, <1>9, <3>2
    <3>4. ~Matched
      BY <3>2 DEF Matched
    <3>5. QED
      BY <3>2, <3>3, <3>4 DEF InOrderStep
  <2>3. QED
    BY <2>1, <2>2
<1>10. CASE ~now.overrun /\ byte \in wants /\ Record(x, Leaf(byte), Tail(stack), seq, c)
  <2>1. CASE Leaf(byte) \in grammar.refused[x]
    BY <1>5, <1>10, <2>1 DEF Record
  <2>2. CASE Leaf(byte) \notin grammar.refused[x]
    <3>1. /\ chunk' = c /\ UNCHANGED front
          /\ stack' = Tail(stack) /\ seq' = Append(seq, Leaf(byte))
      BY <1>10, <2>2 DEF Record
    <3>2. OrderInv' /\ input' = input /\ kmax' = kmax
      BY <1>1, <1>2, <3>1, RoundOrder
    <3>3. Unread' = Tail(Unread)
      BY <1>2, <1>10, <3>1, <3>2, UnreadIs
    <3>4. Matched
      BY <1>1, <1>4, <1>6, <1>10, <3>1 DEF Matched, x
    <3>5. QED
      BY <1>2, <1>10, <3>1, <3>2, <3>3, <3>4 DEF InOrderStep
  <2>3. QED
    BY <2>1, <2>2
<1>11. QED
  BY <1>3, <1>5, <1>8, <1>9, <1>10

LEMMA CloseOrder ==
  ASSUME DriverInv, OrderInv, Close
  PROVE  OrderInv' /\ InOrderStep
<1>1. PICK x, tok, st, sq : Record(x, tok, st, sq, chunk)
  BY DEF Close
<1>2. Running /\ UNCHANGED <<win, buf, stream>> /\ Top = MARK
  BY DEF Close
<1>3. CASE tok \in grammar.refused[x]
  <2>1. Leave(stack, seq, TRUE, chunk)
    BY <1>1, <1>3 DEF Record, no_parse
  <2>2. OrderInv' /\ done'
    BY <1>2, <2>1, LeaveOrder
  <2>3. QED
    BY <2>2 DEF InOrderStep
<1>4. CASE tok \notin grammar.refused[x]
  <2>1. UNCHANGED <<chunk, front>>
    BY <1>1, <1>4 DEF Record
  <2>2. OrderInv' /\ input' = input /\ kmax' = kmax
    BY <1>2, <2>1, RoundOrder DEF OrderInv
  <2>3. Unread' = Unread
    BY <1>2, <2>1, <2>2, UnreadIs
  <2>4. ~Matched
    BY <1>2 DEF Matched, OnSymbol, MARK
  <2>5. QED
    BY <2>2, <2>3, <2>4 DEF InOrderStep
<1>5. QED
  BY <1>3, <1>4

LEMMA PredictOrder ==
  ASSUME DriverInv, OrderInv, Predict
  PROVE  OrderInv' /\ InOrderStep
<1> DEFINE x == Top.symbol
           p == h_llk_lookup(x, Current)
           last == IF stream = "win" THEN win'.last_chunk ELSE chunk.last_chunk
<1>1. Running /\ IsNT(x) /\ ~Matched
  BY DEF Predict, OnSymbol, Matched
<1>2. \/ no_parse(chunk)
      \/ p = NEED_INPUT /\ save_win(chunk) /\ need_input(last, chunk)
      \/ UNCHANGED <<win, buf, chunk, stream>> /\ UNCHANGED front
  BY DEF Predict
<1> HIDE DEF x, last
<1>3. ASSUME no_parse(chunk) PROVE OrderInv' /\ InOrderStep
  <2>1. Leave(stack, seq, TRUE, chunk)
    BY <1>3 DEF no_parse
  <2>2. OrderInv' /\ done'
    BY <1>1, <2>1, LeaveOrder
  <2>3. QED
    BY <2>2 DEF InOrderStep
<1>4. CASE p = NEED_INPUT /\ save_win(chunk) /\ need_input(last, chunk)
  <2>1. CASE last
    BY <1>3, <1>4, <2>1 DEF need_input
  <2>2. CASE ~last
    <3>1. Leave(stack, seq, FALSE, chunk)
      BY <1>4, <2>2 DEF need_input
    <3>2. OrderInv' /\ chunk' = NoChunk /\ input' = input /\ kmax' = kmax
      BY <1>1, <3>1, LeaveOrder
    <3>3. Unread' = Unread
      BY <1>1, <1>4, <3>2, SaveOrder
    <3>4. QED
      BY <1>1, <3>2, <3>3 DEF InOrderStep
  <2>3. QED
    BY <2>1, <2>2
<1>5. CASE UNCHANGED <<win, buf, chunk, stream>> /\ UNCHANGED front
  <2>1. OrderInv' /\ input' = input /\ kmax' = kmax
    BY <1>1, <1>5, RoundOrder DEF OrderInv
  <2>2. Unread' = Unread
    BY <1>5, <2>1, UnreadIs
  <2>3. QED
    BY <1>1, <2>1, <2>2 DEF InOrderStep
<1>6. QED
  BY <1>2, <1>3, <1>4, <1>5

LEMMA InitOrder == Init => OrderInv
BY NoChunkOK DEF Init, OrderInv, Running

LEMMA StepOrder ==
  ASSUME DriverInv, OrderInv, [Next]_vars
  PROVE  OrderInv' /\ [InOrderStep]_vars
<1>1. DriverInv'
  BY StepDriver
<1>2. ASSUME NEW bytes \in Chunks, h_parse_chunk(bytes) PROVE OrderInv' /\ InOrderStep
  <2>1. bytes \in Seq(0..256) /\ Run("chunk", Stream(bytes, pos, FALSE)) /\ input' = input \o bytes
    BY <1>2, ChunkOfBytes DEF h_parse_chunk
  <2>2. QED
    BY <1>1, <2>1, RunOrder
<1>3. ASSUME NEW bytes \in Chunks, h_parse(bytes) PROVE OrderInv' /\ InOrderStep
  <2>1. bytes \in Seq(0..256) /\ Run("parse", Stream(bytes, 0, TRUE)) /\ input = <<>> /\ input' = bytes
    BY <1>3, ChunkOfBytes DEF h_parse
  <2>2. input' = input \o bytes
    BY <2>1, ConcatEmptySeq
  <2>3. QED
    BY <1>1, <2>1, <2>2, RunOrder
<1>4. CASE h_parse_finish
  <2>1. Run("finish", Stream(<<>>, pos, TRUE)) /\ input' = input
    BY <1>4 DEF h_parse_finish
  <2>2. <<>> \in Seq(0..256)
    OBVIOUS
  <2>3. input' = input \o <<>>
    <3>1. input \in Seq(0..256)
      BY DEF DriverInv, CallInv
    <3>2. QED
      BY <2>1, <3>1, ConcatEmptySeq
  <2>4. QED
    BY <1>1, <2>1, <2>2, <2>3, RunOrder
<1>5. CASE FinishDone
  <2>1. done' /\ chunk' = chunk /\ ~Running /\ ~Running'
    BY <1>5 DEF FinishDone, Running
  <2>2. QED
    BY <2>1 DEF OrderInv, InOrderStep
<1>6. CASE Success
  <2>1. Running /\ stack = <<>> /\ Leave(stack, seq, FALSE, chunk)
    BY <1>6 DEF Success
  <2>2. OrderInv' /\ done'
    BY <2>1, LeaveOrder
  <2>3. QED
    BY <2>2 DEF InOrderStep
<1>7. CASE UNCHANGED vars
  BY <1>7 DEF vars, OrderInv, Running, kmax
<1>8. QED
  BY <1>2, <1>3, <1>4, <1>5, <1>6, <1>7, PredictOrder, CloseOrder, TerminalOrder DEF Next

\* Chunks and the window between them are one stream: whatever the lookahead, the
\* grammar, the table and the division of the input into chunks, a terminal is
\* matched with the next byte that was given, none is lost, repeated or read out of
\* order when lookahead is saved and continued, and lookahead sees the next kmax
\* bytes or all there are.
THEOREM LLkBytesInOrder == Spec => BytesInOrder
<1>1. DriverInv /\ OrderInv => (Running => SeesNext)
  BY Sees
<1>2. DriverInv /\ OrderInv /\ [Next]_vars => OrderInv' /\ [(Running => SeesNext) /\ InOrderStep]_vars
  BY <1>1, StepOrder
<1>3. QED
  BY <1>2, InitDriver, StepDriver, InitOrder, PTL DEF Spec, BytesInOrder
=============================================================================
