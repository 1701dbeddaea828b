--------------------------------- MODULE LR ---------------------------------
(* The LALR driver of lr.c under h_parse and under the suspended parser of   *)
(* hammer.c, where input comes in chunks.  One round of the loop is a step.  *)
EXTENDS LREngine

CONSTANTS
  Grammars,      \* the grammars, see module LRTable
  TablesOf(_),   \* the tables of a grammar
  Bytes,         \* bytes of the input
  MaxInput       \* bound on the length of the input

ASSUME BoundAssumption == Bytes \subseteq 0..255 /\ MaxInput \in Nat

VARIABLES
  grammar, table,  \* constant
  input,           \* the bytes given so far (history)
  done, pos,       \* s->done and s->pos of the HSuspendedParser
  engine,          \* s->backend_state
  pc,              \* "idle", or the running call: "chunk", "finish" or "parse";
                   \* "done" when there is a result, "abort" after a failed assertion
  result           \* what h_parse_finish or h_parse returned: <<>> for NULL

vars == <<grammar, table, input, done, pos, engine, pc, result>>

Init ==
  /\ grammar \in Grammars
  /\ table \in TablesOf(grammar)
  /\ input = <<>> /\ done = FALSE /\ pos = 0
  /\ engine = h_lrengine_new(Stream(<<>>, 0, FALSE))
  /\ pc = "idle" /\ result = <<>>

-----------------------------------------------------------------------------
(* The calls of the user. *)

Run(call, stream) ==
  /\ pc = "idle" /\ ~done
  /\ pc' = call
  /\ engine' = [engine EXCEPT !.input = stream]
  /\ UNCHANGED <<grammar, table, done, pos, result>>

h_parse_chunk(bytes) ==
  /\ Run("chunk", Stream(bytes, pos, FALSE))
  /\ input' = input \o bytes

\* The end of the input is an empty chunk.
h_parse_finish == Run("finish", Stream(<<>>, pos, TRUE)) /\ UNCHANGED input

\* Everything in one call.
h_parse(bytes) ==
  /\ input = <<>>
  /\ Run("parse", Stream(bytes, 0, TRUE))
  /\ input' = bytes

\* h_lr_parse_finish; h_parse_finish sets the length.
Finished(e, p) ==
  LET r == h_lrengine_result(e)
  IN IF r = <<>> THEN r ELSE <<[r[1] EXCEPT !.bit_length = 8 * p]>>

\* h_parse_finish when the parser is done already.
FinishDone ==
  /\ pc = "idle" /\ done
  /\ pc' = "done" /\ result' = Finished(engine, pos)
  /\ UNCHANGED <<grammar, table, input, done, pos, engine>>

-----------------------------------------------------------------------------
(* The rounds of the loop. *)

Running == pc \in {"chunk", "finish", "parse"}
Now == h_lrengine_action(table, engine)

\* h_parse_chunk counts what was read of the chunk.
NewPos(e) == IF pc = "chunk" THEN pos + e.input.index ELSE pos

\* The loop ends with the engine in state e: d says that the parser is done.
Leave(e, d) ==
  /\ engine' = e
  /\ done' = d
  /\ pos' = NewPos(e)
  /\ pc' = CASE pc = "chunk" -> "idle"
             [] pc = "finish" /\ ~d -> "abort"       \* assert(s->done)
             [] OTHER -> "done"
  /\ result' = CASE pc = "parse" -> h_lrengine_result(e)
                 [] pc = "finish" /\ d -> Finished(e, pos)
                 [] OTHER -> <<>>
  /\ UNCHANGED <<grammar, table, input>>

\* After a step of the engine.
Continue(r) ==
  IF ~r.run THEN Leave(r.engine, TRUE)
  ELSE IF r.engine.input.overrun /\ ~r.engine.input.last_chunk THEN Leave(r.engine, FALSE)
  ELSE engine' = r.engine /\ UNCHANGED <<grammar, table, input, done, pos, pc, result>>

\* A mutant: the loop goes on without input.
_NeedsInput == Running /\ Now = NeedInput /\ UNCHANGED vars

\* No lookahead is kept: the engine asks again when there is another chunk.
NeedsInput == Running /\ Now = NeedInput /\ Leave(engine, FALSE)

NoHandle == Running /\ Now = NoAction /\ Leave(engine, TRUE)

ShiftStep ==
  /\ Running /\ Now.type = "SHIFT"
  /\ Continue(Stepped(Shift(engine, Now), TRUE))

ReduceStep ==
  /\ Running /\ Now.type = "REDUCE"
  /\ Continue(Reduce(grammar, table, engine, Now))

-----------------------------------------------------------------------------
Room == MaxInput - Len(input)
Chunks == UNION {[1..n -> Bytes] : n \in 0..Room}

Next ==
  \/ \E bytes \in Chunks : h_parse_chunk(bytes) \/ h_parse(bytes)
  \/ h_parse_finish \/ FinishDone
  \/ NeedsInput \/ NoHandle \/ ShiftStep \/ ReduceStep

\* A call that was begun is carried on until it returns.
Fairness == WF_vars(NeedsInput \/ NoHandle \/ ShiftStep \/ ReduceStep)

Spec == Init /\ [][Next]_vars /\ Fairness

-----------------------------------------------------------------------------
(* Properties. *)

\* The assertions of the driver and of the engine: the parser is done when the
\* end of the input was given to it, and a result is on the stack; whatever chunks
\* the input came in, the engine is in a row with actions for all or for some, it
\* asks for more only when nothing is left and more can come, no conflict comes
\* up, and a reduction goes back to a row that can shift.
NoAbort ==
  /\ pc # "abort"
  /\ engine.state = HLR_SUCCESS => engine.stack # <<>>
  /\ Running =>
       /\ RowAsserts(table, engine)
       /\ Now = NeedInput => pc # "parse" /\ engine.input.index = Len(engine.input.bytes)
       /\ Now.type \in {"SHIFT", "REDUCE", "NULL", "NEED_INPUT"}
       /\ Now.type = "REDUCE" => GotoAsserts(table, engine, Now)

\* h_lrengine_step checks nothing when it takes the values of a right side from
\* the stack: they are there, and they are those of its symbols.
HandleOnTop ==
  Running /\ Now.type = "REDUCE" =>
    Now.length = Len(Now.rhs) /\ Spells(table, engine.state, engine.stack, Now.rhs)

\* The tables of h_lalr_compile are sane, and have no conflict.
TableSane ==
  /\ Sane(table)
  /\ \A i \in 0..table.nrows - 1 : \A act \in
       {table.rows[i].tmap[c] : c \in DOMAIN table.rows[i].tmap} \cup {table.rows[i].forall} :
         act.type \in {"SHIFT", "REDUCE"} \/ act = NoAction

\* The calls of the user return.
Returns == Running ~> ~Running
=============================================================================
