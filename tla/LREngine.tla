------------------------------ MODULE LREngine ------------------------------
(* The LR engine of lr.c, which the LALR and the GLR driver share: a state,  *)
(* a stack of saved states and values, and a place in the input.             *)
(*                                                                           *)
(* A table has rows 0..nrows-1, see module LRTable.  The stack is a sequence *)
(* of pairs, the top first; the code pushes the two halves of a pair one     *)
(* after the other.                                                          *)
EXTENDS Integers, SequencesExt

CONSTANTS
  Reshape(_, _, _),   \* symbol->reshape: grammar, symbol, values
  Pred(_, _, _),      \* symbol->pred: grammar, symbol, value
  Action(_, _, _)     \* symbol->action: grammar, symbol, value

EndMark == 256
HLR_SUCCESS == -1
NoAction == [type |-> "NULL"]
NeedInput == [type |-> "NEED_INPUT"]

\* Tokens.
NoToken == <<"NULL">>
Uint(c) == <<"TT_UINT", c>>

Stream(bytes, p, last) ==
  [bytes |-> bytes, index |-> 0, pos |-> p, overrun |-> FALSE, last_chunk |-> last]

h_lrengine_new(stream) ==
  [state |-> 0, stack |-> <<>>, input |-> stream, merged |-> <<>>]

-----------------------------------------------------------------------------
(* Lookups. *)

ActionAt(map, key) == IF key \in DOMAIN map THEN map[key] ELSE NoAction

\* A mutant: the end of the input is not looked up.
_Lookahead(tmap, s) ==
  IF s.index = Len(s.bytes) THEN NeedInput ELSE ActionAt(tmap, s.bytes[s.index + 1])

\* h_stringmap_get_lookahead in a map with strings of length one.
Lookahead(tmap, s) ==
  IF s.index < Len(s.bytes) THEN ActionAt(tmap, s.bytes[s.index + 1])
  ELSE IF s.last_chunk THEN ActionAt(tmap, EndMark)
  ELSE NeedInput

\* terminal_lookup.
h_lrengine_action(table, e) ==
  LET row == table.rows[e.state]
  IN IF row.forall # NoAction THEN row.forall ELSE Lookahead(row.tmap, e.input)

nonterminal_lookup(table, i, x) == ActionAt(table.rows[i].ntmap, x)

\* The assertions of terminal_lookup: the engine is in a row of the table, and
\* a row with an action for everything has no other.
RowAsserts(table, e) ==
  /\ e.state \in 0..table.nrows - 1
  /\ LET row == table.rows[e.state]
     IN row.forall # NoAction => DOMAIN row.ntmap = {} /\ DOMAIN row.tmap = {}

-----------------------------------------------------------------------------
(* h_lrengine_step. *)

\* h_read_bits(&engine->input, 8, false).
AfterRead(s) == IF s.index < Len(s.bytes) THEN [s EXCEPT !.index = @ + 1]
                ELSE [s EXCEPT !.overrun = TRUE]

\* consume_input: at the end of the input there is no token.
Consumed(s) == IF s.index < Len(s.bytes) THEN Uint(s.bytes[s.index + 1]) ELSE NoToken

\* A mutant: the state is saved after it was changed.
_Pushed(e, value, next) ==
  [e EXCEPT !.stack = <<[state |-> next, value |-> value]>> \o @, !.state = next]

Pushed(e, value, next) ==
  [e EXCEPT !.stack = <<[state |-> e.state, value |-> value]>> \o @, !.state = next]

Shift(e, action) ==
  [Pushed(e, Consumed(e.input), action.nextstate) EXCEPT !.input = AfterRead(@)]

\* h_slist_drop gives NULL for an empty stack: a missing value, and state 0.
Values(stack, len) ==
  [i \in 1..len |-> IF len + 1 - i <= Len(stack) THEN stack[len + 1 - i].value ELSE NoToken]
Popped(e, len) ==
  [e EXCEPT !.state = IF len = 0 THEN @
                      ELSE IF len <= Len(e.stack) THEN e.stack[len].state ELSE 0,
            !.stack = SubSeq(@, len + 1, Len(@))]

\* The assertions about the row a reduction goes back to: it has no action for
\* everything, the left side is shifted there or nothing, and only the start
\* symbol leads from it to the end.
GotoAsserts(table, e, action) ==
  LET i == Popped(e, action.length).state
      shift == nonterminal_lookup(table, i, action.lhs)
  IN /\ i \in 0..table.nrows - 1
     /\ table.rows[i].forall = NoAction
     /\ shift # NoAction =>
          shift.type = "SHIFT" /\ (shift.nextstate = HLR_SUCCESS => action.lhs = table.start)

Stepped(e, run) == [engine |-> e, run |-> run]

\* The shift of the left side follows at once and never touches the input.
Reduce(g, table, e, action) ==
  LET x == action.lhs
      popped == Popped(e, action.length)
      value == Reshape(g, x, Values(e.stack, action.length))
      shift == nonterminal_lookup(table, popped.state, x)
  IN IF ~Pred(g, x, value) \/ shift = NoAction THEN Stepped(popped, FALSE)
     ELSE Stepped(Pushed(popped, Action(g, x, value), shift.nextstate),
                  shift.nextstate # HLR_SUCCESS)

h_lrengine_step(g, table, e, action) ==
  IF action = NoAction THEN Stepped(e, FALSE)
  ELSE IF action.type = "REDUCE" THEN Reduce(g, table, e, action)
  ELSE Stepped(Shift(e, action), TRUE)

\* h_lrengine_result: on top of the stack is the value of the start symbol.
h_lrengine_result(e) ==
  IF e.state = HLR_SUCCESS
  THEN <<[ast |-> Head(e.stack).value, bit_length |-> 8 * (e.input.pos + e.input.index)]>>
  ELSE <<>>

-----------------------------------------------------------------------------
(* What a table promises. *)

\* The actions of a row, those of its conflicts one by one.
Branches(action) == IF action.type = "CONFLICT" THEN ToSet(action.branches) ELSE {action}
TerminalActionsOf(row) ==
  (UNION {Branches(row.tmap[c]) : c \in DOMAIN row.tmap}) \cup Branches(row.forall)
ActionsOf(row) == {row.ntmap[x] : x \in DOMAIN row.ntmap} \cup TerminalActionsOf(row)
ShiftsOf(table, i) ==
  {act.nextstate : act \in {act \in ActionsOf(table.rows[i]) : act.type = "SHIFT"}}

\* What a row has for a symbol, and whether it shifts the symbol to row j.
Cell(row, x) ==
  CASE x[1] = "char" -> ActionAt(row.tmap, x[2])
    [] x[1] = "end" -> ActionAt(row.tmap, EndMark)
    [] OTHER -> ActionAt(row.ntmap, x)
Shifts(table, i, x, j) ==
  \E act \in Branches(Cell(table.rows[i], x)) : act.type = "SHIFT" /\ act.nextstate = j
RowSymbols(row) ==
  {IF c = EndMark THEN <<"end", 0>> ELSE <<"char", c>> : c \in DOMAIN row.tmap}
    \cup DOMAIN row.ntmap

\* A row knows the symbols that were shifted last, the last of them first.  A
\* shift of x from row i leads to row j, which knows of x and perhaps of some that
\* row i knows of.
Leads(table, i, x, j) ==
  LET known == table.known
  IN /\ j \in 0..table.nrows - 1
     /\ Len(known[j]) \in 0..Len(known[i]) + 1
     /\ \A k \in 1..Len(known[j]) : known[j][k] = IF k = 1 THEN x ELSE known[i][k - 1]

\* Nothing but the start symbol leads to the end; the right side of a reduction
\* is known; a row with a reduction for everything has nothing else, and the
\* right side is not empty; nonterminals are only shifted.
RowSane(table, i) ==
  LET row == table.rows[i]
  IN /\ \A x \in RowSymbols(row) : \A act \in Branches(Cell(row, x)) : act.type = "SHIFT" =>
          \/ act.nextstate = HLR_SUCCESS /\ x = table.start
          \/ Leads(table, i, x, act.nextstate)
     /\ \A act \in ActionsOf(row) : act.type = "REDUCE" =>
          /\ act.length \in 0..Len(table.known[i])
          /\ act.rhs = [k \in 1..act.length |-> table.known[i][act.length + 1 - k]]
     /\ row.forall # NoAction => RowSymbols(row) = {}
     /\ \A act \in Branches(row.forall) \ {NoAction} : act.type = "REDUCE" /\ act.length > 0
     /\ \A x \in DOMAIN row.ntmap : x[1] \notin {"char", "end"} /\ row.ntmap[x].type = "SHIFT"

\* In row 0 nothing was shifted.
Sane(table) ==
  /\ table.nrows \in Nat \ {0} /\ table.known[0] = <<>>
  /\ table.start[1] \notin {"char", "end"}
  /\ \A i \in 0..table.nrows - 1 : RowSane(table, i)

\* The states of an engine, back from the present one.
At(state, stack, k) == IF k = 0 THEN state ELSE stack[k].state

\* The states on the stack, from the one above s to the bottom, are a path of
\* the automaton that begins in row 0.
IsPath(table, state, stack) ==
  /\ stack = <<>> => state = 0
  /\ \A k \in DOMAIN stack :
       /\ At(state, stack, k - 1) \in ShiftsOf(table, stack[k].state)
       /\ k = Len(stack) => stack[k].state = 0

\* The symbols of a right side, back from the state, are those of the shifts
\* along the top of the stack.
Spells(table, state, stack, rhs) ==
  /\ Len(rhs) <= Len(stack)
  /\ \A k \in DOMAIN rhs :
       Shifts(table, At(state, stack, k), rhs[Len(rhs) + 1 - k], At(state, stack, k - 1))
=============================================================================
