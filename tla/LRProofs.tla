------------------------------ MODULE LRProofs ------------------------------
(* The engine takes the values of a right side from its stack without a look *)
(* at what is there.  For every sane table, input and division into chunks,  *)
(* they are there and are those of its symbols, and no assertion of the      *)
(* engine or of the driver fails.                                            *)
(*                                                                           *)
(* The argument is about the stack: each state on it was left by a shift, so *)
(* its row has no action for everything, and the symbols a row knows of are  *)
(* those of the shifts that are below it on the stack.                       *)
EXTENDS LR, TLAPS

Rows(t) == 0..t.nrows - 1

\* A row without an action for everything.
Open(t, i) == t.rows[i].forall = NoAction

\* The shifts from the state with number k on spell what its row knows of.
Remembers(t, state, stack, k) ==
  LET known == t.known[At(state, stack, k)]
  IN /\ Len(known) \in 0..Len(stack) - k
     /\ \A l \in 1..Len(known) :
          Shifts(t, At(state, stack, k + l), known[l], At(state, stack, k + l - 1))

Deep(t, state, stack) ==
  \A k \in 0..Len(stack) :
    /\ At(state, stack, k) \in Rows(t)
    /\ k > 0 => Open(t, At(state, stack, k))
    /\ Remembers(t, state, stack, k)

IsStream(s) ==
  /\ s = [bytes |-> s.bytes, index |-> s.index, pos |-> s.pos, overrun |-> s.overrun,
          last_chunk |-> s.last_chunk]
  /\ s.index \in Nat /\ Len(s.bytes) \in Nat /\ s.index <= Len(s.bytes)

IsEngine(e) ==
  /\ e = [state |-> e.state, stack |-> e.stack, input |-> e.input, merged |-> e.merged]
  /\ \E S : e.stack \in Seq(S)
  /\ IsStream(e.input)

\* A result is there when the engine is in the end state.
HasResult(e) == e.state = HLR_SUCCESS => e.stack # <<>>

\* What a push or a pop does not touch.
KeepsInput(e, f) == f.input = e.input

IInv ==
  /\ IsEngine(engine) /\ input \in Seq(Bytes)
  /\ ~done => Deep(table, engine.state, engine.stack)
  /\ HasResult(engine)
  /\ Running => ~done
  /\ pc \in {"finish", "parse"} => engine.input.last_chunk
  /\ pc # "abort"

-----------------------------------------------------------------------------
(* The stack. *)

LEMMA PushedDeep ==
  ASSUME NEW t, NEW s, NEW S, NEW stack \in Seq(S), NEW value, NEW x, NEW next,
         Deep(t, s, stack), Open(t, s),
         Leads(t, s, x, next), Shifts(t, s, x, next)
  PROVE  Deep(t, next, <<[state |-> s, value |-> value]>> \o stack)
  <1> DEFINE y == [state |-> s, value |-> value]
             new == <<y>> \o stack
             n == Len(stack)
             a(k) == At(s, stack, k)
             b(k) == At(next, new, k)
             known == t.known
  <1>1. y.state = s
    OBVIOUS
  <1> HIDE DEF y
  <1>2. <<y>> \in Seq(S \cup {y}) /\ stack \in Seq(S \cup {y}) /\ n \in Nat
    OBVIOUS
  <1>3. /\ Len(new) = n + 1 /\ new[1] = y
        /\ \A k \in 2..n + 1 : new[k] = stack[k - 1]
    BY <1>2
  <1> HIDE DEF new
  <1>4. b(0) = next /\ a(0) = s
    BY DEF At
  <1>5. ASSUME NEW k \in 1..n + 1 PROVE b(k) = a(k - 1)
    <2>1. CASE k = 1
      BY <1>1, <1>3, <2>1 DEF At
    <2>2. CASE k # 1
      <3>1. k \in 2..n + 1 /\ k # 0 /\ k - 1 # 0
        BY <2>2, <1>2
      <3> QED BY <1>3, <3>1 DEF At
    <2> QED BY <2>1, <2>2
  <1>6. ASSUME NEW k \in 0..n
        PROVE  /\ a(k) \in Rows(t) /\ (k > 0 => Open(t, a(k)))
               /\ Len(known[a(k)]) \in 0..n - k
               /\ \A l \in 1..Len(known[a(k)]) : Shifts(t, a(k + l), known[a(k)][l], a(k + l - 1))
    BY DEF Deep, Remembers
  <1>7. /\ next \in Rows(t) /\ Len(known[next]) \in 0..Len(known[s]) + 1
        /\ \A k \in 1..Len(known[next]) : known[next][k] = IF k = 1 THEN x ELSE known[s][k - 1]
    BY DEF Leads, Rows
  <1>8. Len(known[s]) \in 0..n
    <2>1. 0 \in 0..n
      BY <1>2
    <2>2. Len(known[a(0)]) \in 0..n - 0
      BY <1>6, <2>1
    <2> QED BY <2>2, <1>4, <1>2
  <1> SUFFICES ASSUME NEW k \in 0..Len(new)
               PROVE  /\ b(k) \in Rows(t) /\ (k > 0 => Open(t, b(k)))
                      /\ Len(known[b(k)]) \in 0..Len(new) - k
                      /\ \A l \in 1..Len(known[b(k)]) :
                           Shifts(t, b(k + l), known[b(k)][l], b(k + l - 1))
    BY DEF Deep, Remembers, new, y
  <1> HIDE DEF a, b, known, n
  <1>9. CASE k = 0
    <2>1. b(k) \in Rows(t) /\ Len(known[b(k)]) \in 0..Len(new) - k
      BY <1>2, <1>3, <1>4, <1>7, <1>8, <1>9
    <2>2. ASSUME NEW l \in 1..Len(known[next]) PROVE Shifts(t, b(l), known[next][l], b(l - 1))
      <3>1. l \in 1..n + 1 /\ b(l) = a(l - 1)
        BY <1>2, <1>5, <1>7, <1>8
      <3>2. CASE l = 1
        <4>1. known[next][l] = x /\ b(l) = s /\ b(l - 1) = next
          BY <1>4, <1>7, <3>1, <3>2
        <4> QED BY <4>1
      <3>3. CASE l # 1
        <4>1. known[next][l] = known[s][l - 1]
          BY <1>7, <3>3
        <4>2. l - 1 \in 1..n + 1 /\ b(l - 1) = a(l - 2)
          BY <1>2, <1>5, <3>1, <3>3
        <4>3. l - 1 \in 1..Len(known[s])
          BY <1>7, <1>8, <3>3
        <4>4. Shifts(t, a(0 + (l - 1)), known[a(0)][l - 1], a(0 + (l - 1) - 1))
          <5>1. 0 \in 0..n /\ l - 1 \in 1..Len(known[a(0)])
            BY <1>2, <1>4, <4>3
          <5> QED BY <1>6, <5>1
        <4>5. 0 + (l - 1) = l - 1 /\ 0 + (l - 1) - 1 = l - 2
          OBVIOUS
        <4>6. Shifts(t, a(l - 1), known[s][l - 1], a(l - 2))
          BY <1>4, <4>4, <4>5
        <4> QED BY <3>1, <4>1, <4>2, <4>6
      <3> QED BY <3>2, <3>3
    <2>3. ASSUME NEW l \in 1..Len(known[b(k)])
          PROVE  Shifts(t, b(k + l), known[b(k)][l], b(k + l - 1))
      <3>1. k + l = l /\ k + l - 1 = l - 1 /\ b(k) = next
        BY <1>4, <1>9
      <3> QED BY <2>2, <3>1
    <2> QED BY <1>9, <2>1, <2>3
  <1>10. CASE k # 0
    <2>1. k \in 1..n + 1 /\ k - 1 \in 0..n /\ b(k) = a(k - 1) /\ n - (k - 1) = Len(new) - k
      BY <1>2, <1>3, <1>5, <1>10
    <2>2. b(k) \in Rows(t) /\ Len(known[b(k)]) \in 0..Len(new) - k
      BY <1>6, <2>1
    <2>3. Open(t, b(k))
      <3>1. CASE k = 1
        BY <1>4, <2>1, <3>1
      <3>2. CASE k # 1
        BY <1>6, <2>1, <3>2
      <3> QED BY <3>1, <3>2
    <2>4. ASSUME NEW l \in 1..Len(known[b(k)])
          PROVE  Shifts(t, b(k + l), known[b(k)][l], b(k + l - 1))
      <3>0. n \in Nat /\ l \in Nat /\ k \in 1..n + 1 /\ k - 1 + l \in 1..n
        <4>1. n \in Nat /\ k \in 1..n + 1
          BY <1>2, <2>1
        <4>2. PICK h : h = Len(known[b(k)])
          OBVIOUS
        <4>3. h \in 0..Len(new) - k /\ l \in 1..h
          BY <2>2, <4>2
        <4>4. Len(new) = n + 1
          BY <1>3
        <4>5. h \in 0..n + 1 - k /\ l \in 1..h
          BY <4>1, <4>3, <4>4
        <4> QED BY <4>1, <4>5
      <3>1. k + l \in 1..n + 1 /\ k + l - 1 \in 1..n + 1
        BY <3>0
      <3>2. b(k + l) = a(k + l - 1) /\ b(k + l - 1) = a(k + l - 1 - 1)
        BY <1>5, <3>1
      <3>3. Shifts(t, a(k - 1 + l), known[a(k - 1)][l], a(k - 1 + l - 1))
        <4>1. \A j \in 1..Len(known[a(k - 1)]) :
                Shifts(t, a(k - 1 + j), known[a(k - 1)][j], a(k - 1 + j - 1))
          BY <1>6, <2>1
        <4>2. l \in 1..Len(known[a(k - 1)])
          BY <2>1
        <4> QED BY <4>1, <4>2
      <3>4. k - 1 + l = k + l - 1 /\ k - 1 + l - 1 = k + l - 1 - 1
        BY <3>0
      <3> QED BY <2>1, <3>2, <3>3, <3>4
    <2> QED BY <2>2, <2>3, <2>4
  <1> QED BY <1>9, <1>10

LEMMA PoppedDeep ==
  ASSUME NEW t, NEW s, NEW S, NEW stack \in Seq(S), NEW len \in 1..Len(stack), Deep(t, s, stack)
  PROVE  /\ Deep(t, stack[len].state, SubSeq(stack, len + 1, Len(stack)))
         /\ SubSeq(stack, len + 1, Len(stack)) \in Seq(S)
         /\ Open(t, stack[len].state)
  <1> DEFINE new == SubSeq(stack, len + 1, Len(stack))
             n == Len(stack)
             a(k) == At(s, stack, k)
             b(k) == At(stack[len].state, new, k)
             known == t.known
  <1>1. n \in Nat /\ len \in Nat /\ len # 0 /\ len <= n
    OBVIOUS
  <1>2. /\ new \in Seq(S) /\ Len(new) = n - len
        /\ \A k \in 1..n - len : new[k] = stack[len + k]
    BY <1>1
  <1> HIDE DEF new
  <1>3. ASSUME NEW k \in 0..n - len PROVE b(k) = a(len + k)
    <2>1. CASE k = 0
      BY <1>1, <2>1 DEF At
    <2>2. CASE k # 0
      BY <1>1, <1>2, <2>2 DEF At
    <2> QED BY <2>1, <2>2
  <1>4. ASSUME NEW k \in 0..n
        PROVE  /\ a(k) \in Rows(t) /\ (k > 0 => Open(t, a(k)))
               /\ Len(known[a(k)]) \in 0..n - k
               /\ \A l \in 1..Len(known[a(k)]) : Shifts(t, a(k + l), known[a(k)][l], a(k + l - 1))
    BY DEF Deep, Remembers
  <1>5. Open(t, stack[len].state)
    <2>1. len \in 0..n /\ len > 0 /\ a(len) = stack[len].state
      BY <1>1 DEF At
    <2>2. Open(t, a(len))
      BY <1>4, <2>1
    <2> QED BY <2>1, <2>2
  <1> SUFFICES ASSUME NEW k \in 0..n - len
               PROVE  /\ b(k) \in Rows(t) /\ (k > 0 => Open(t, b(k)))
                      /\ Len(known[b(k)]) \in 0..n - len - k
                      /\ \A l \in 1..Len(known[b(k)]) :
                           Shifts(t, b(k + l), known[b(k)][l], b(k + l - 1))
    BY <1>2, <1>5 DEF Deep, Remembers, new
  <1> HIDE DEF a, b, known, n
  <1>6. len + k \in 0..n /\ len + k > 0 /\ b(k) = a(len + k) /\ n - (len + k) = n - len - k
    BY <1>1, <1>3
  <1>7. /\ b(k) \in Rows(t) /\ Open(t, b(k))
        /\ Len(known[b(k)]) \in 0..n - len - k
    BY <1>4, <1>6
  <1>8. ASSUME NEW l \in 1..Len(known[b(k)])
        PROVE  Shifts(t, b(k + l), known[b(k)][l], b(k + l - 1))
    <2>1. k + l \in 0..n - len /\ k + l - 1 \in 0..n - len
      BY <1>1, <1>7
    <2>2. b(k + l) = a(len + (k + l)) /\ b(k + l - 1) = a(len + (k + l - 1))
      BY <1>3, <2>1
    <2>3. Shifts(t, a(len + k + l), known[a(len + k)][l], a(len + k + l - 1))
      BY <1>4, <1>6
    <2>4. len + (k + l) = len + k + l /\ len + (k + l - 1) = len + k + l - 1
      BY <1>1, <1>7
    <2> QED BY <1>6, <2>2, <2>3, <2>4
  <1> QED BY <1>7, <1>8

-----------------------------------------------------------------------------
(* The table. *)

\* What an engine is told to do is the action of its row for everything, one of
\* its actions for a terminal, or nothing.
LEMMA ActionOfRow ==
  ASSUME NEW t, NEW e, NEW act, act = h_lrengine_action(t, e), act # NoAction, act # NeedInput
  PROVE  LET row == t.rows[e.state]
         IN \/ act = row.forall
            \/ row.forall = NoAction /\ \E c \in DOMAIN row.tmap : act = row.tmap[c]
  <1> DEFINE row == t.rows[e.state]
  <1>1. CASE row.forall # NoAction
    BY <1>1 DEF h_lrengine_action
  <1>2. CASE row.forall = NoAction
    <2>1. act = Lookahead(row.tmap, e.input)
      BY <1>2 DEF h_lrengine_action
    <2>2. \E c : act = ActionAt(row.tmap, c)
      BY <2>1 DEF Lookahead
    <2> QED BY <1>2, <2>2 DEF ActionAt
  <1> QED BY <1>1, <1>2

LEMMA ReductionOfRow ==
  ASSUME NEW t, NEW e, h_lrengine_action(t, e).type = "REDUCE"
  PROVE  h_lrengine_action(t, e) \in ActionsOf(t.rows[e.state])
  <1> DEFINE row == t.rows[e.state]
             act == h_lrengine_action(t, e)
  <1>1. act # NoAction /\ act # NeedInput /\ Branches(act) = {act}
    BY DEF NoAction, NeedInput, Branches
  <1>2. act = row.forall \/ \E c \in DOMAIN row.tmap : act = row.tmap[c]
    <2> HIDE DEF act
    <2> QED BY <1>1, ActionOfRow DEF act
  <1> HIDE DEF act, row
  <1> QED BY <1>1, <1>2 DEF ActionsOf, TerminalActionsOf, act, row

\* The cell of a symbol of a row.
LEMMA CellOfTerminal ==
  ASSUME NEW row, NEW c \in DOMAIN row.tmap
  PROVE  \E x \in RowSymbols(row) : x[1] \in {"char", "end"} /\ Cell(row, x) = row.tmap[c]
  <1>1. CASE c = EndMark
    <2> DEFINE x == <<"end", 0>>
    <2>1. x \in RowSymbols(row) /\ x[1] = "end"
      BY <1>1 DEF RowSymbols
    <2>2. Cell(row, x) = row.tmap[c]
      BY <1>1 DEF Cell, ActionAt
    <2> QED BY <2>1, <2>2
  <1>2. CASE c # EndMark
    <2> DEFINE x == <<"char", c>>
    <2>1. x \in RowSymbols(row) /\ x[1] = "char" /\ x[2] = c
      BY <1>2 DEF RowSymbols
    <2>2. Cell(row, x) = row.tmap[c]
      BY <2>1 DEF Cell, ActionAt
    <2> QED BY <2>1, <2>2
  <1> QED BY <1>1, <1>2

LEMMA CellOfNonterminal ==
  ASSUME NEW row, NEW x \in DOMAIN row.ntmap, x[1] \notin {"char", "end"}
  PROVE  x \in RowSymbols(row) /\ Cell(row, x) = row.ntmap[x]
  BY DEF RowSymbols, Cell, ActionAt

\* A shift of a row leads to another row, and the row has no action for all.
LEMMA ShiftOfRow ==
  ASSUME NEW t, Sane(t), NEW i \in Rows(t), NEW x \in RowSymbols(t.rows[i]),
         NEW act, act = Cell(t.rows[i], x), act.type = "SHIFT"
  PROVE  /\ Open(t, i) /\ Shifts(t, i, x, act.nextstate)
         /\ \/ act.nextstate = HLR_SUCCESS /\ x = t.start
            \/ Leads(t, i, x, act.nextstate)
  <1>1. RowSane(t, i)
    BY DEF Sane, Rows
  <1>2. act \in Branches(Cell(t.rows[i], x))
    BY DEF Branches
  <1>3. Shifts(t, i, x, act.nextstate)
    BY <1>2 DEF Shifts
  <1>4. Open(t, i)
    BY <1>1 DEF RowSane, Open
  <1> QED BY <1>1, <1>2, <1>3, <1>4 DEF RowSane

\* An engine that is told to shift is in a row with the symbol, which is none
\* that leads to the end.
LEMMA TerminalShift ==
  ASSUME NEW t, Sane(t), NEW e, e.state \in Rows(t),
         NEW act, act = h_lrengine_action(t, e), act.type = "SHIFT"
  PROVE  \E x : /\ Open(t, e.state)
                /\ Shifts(t, e.state, x, act.nextstate) /\ Leads(t, e.state, x, act.nextstate)
  <1> DEFINE row == t.rows[e.state]
  <1>1. act # NoAction /\ act # NeedInput
    BY DEF NoAction, NeedInput
  <1>2. RowSane(t, e.state)
    BY DEF Sane, Rows
  <1>3. act # row.forall
    <2>1. SUFFICES ASSUME act = row.forall PROVE FALSE
      OBVIOUS
    <2>2. act \in Branches(row.forall) \ {NoAction}
      BY <1>1, <2>1 DEF Branches
    <2>3. act.type = "REDUCE"
      BY <1>2, <2>2 DEF RowSane
    <2> QED BY <2>3
  <1>4. PICK c \in DOMAIN row.tmap : act = row.tmap[c]
    BY <1>1, <1>3, ActionOfRow
  <1>5. PICK x \in RowSymbols(row) : x[1] \in {"char", "end"} /\ Cell(row, x) = row.tmap[c]
    BY CellOfTerminal
  <1>6. x # t.start
    BY <1>5 DEF Sane
  <1> QED BY <1>4, <1>5, <1>6, ShiftOfRow

\* A nonterminal that a row knows is shifted, and only the start symbol leads to
\* the end.
LEMMA GotoOfRow ==
  ASSUME NEW t, Sane(t), NEW i \in Rows(t), NEW x,
         NEW shift, shift = nonterminal_lookup(t, i, x), shift # NoAction
  PROVE  /\ shift.type = "SHIFT"
         /\ Open(t, i) /\ Shifts(t, i, x, shift.nextstate)
         /\ \/ shift.nextstate = HLR_SUCCESS /\ x = t.start
            \/ Leads(t, i, x, shift.nextstate)
  <1>1. x \in DOMAIN t.rows[i].ntmap /\ shift = t.rows[i].ntmap[x]
    BY DEF nonterminal_lookup, ActionAt
  <1>2. x[1] \notin {"char", "end"} /\ shift.type = "SHIFT"
    BY <1>1 DEF Sane, RowSane, Rows
  <1>3. x \in RowSymbols(t.rows[i]) /\ Cell(t.rows[i], x) = shift
    BY <1>1, <1>2, CellOfNonterminal
  <1> QED BY <1>2, <1>3, ShiftOfRow

-----------------------------------------------------------------------------
(* The steps of the engine. *)

\* What is known of a reduction that an engine is told to make.
LEMMA ReductionKnown ==
  ASSUME NEW t, Sane(t), NEW e, IsEngine(e), Deep(t, e.state, e.stack),
         NEW act, act = h_lrengine_action(t, e), act.type = "REDUCE"
  PROVE  /\ act.length \in 0..Len(e.stack)
         /\ act.length \in 0..Len(t.known[e.state]) /\ Len(t.known[e.state]) \in Nat
         /\ act.rhs = [k \in 1..act.length |-> t.known[e.state][act.length + 1 - k]]
  <1>1. Len(e.stack) \in Nat /\ 0 \in 0..Len(e.stack)
    BY DEF IsEngine
  <1>2. e.state \in Rows(t) /\ Len(t.known[e.state]) \in 0..Len(e.stack)
    <2>1. At(e.state, e.stack, 0) = e.state
      BY DEF At
    <2>2. /\ At(e.state, e.stack, 0) \in Rows(t)
          /\ Len(t.known[At(e.state, e.stack, 0)]) \in 0..Len(e.stack) - 0
      BY <1>1 DEF Deep, Remembers
    <2> QED BY <1>1, <2>1, <2>2
  <1>3. RowSane(t, e.state)
    BY <1>2 DEF Sane, Rows
  <1>4. act \in ActionsOf(t.rows[e.state])
    BY ReductionOfRow
  <1>5. /\ act.length \in 0..Len(t.known[e.state])
        /\ act.rhs = [k \in 1..act.length |-> t.known[e.state][act.length + 1 - k]]
    BY <1>3, <1>4 DEF RowSane
  <1> QED BY <1>1, <1>2, <1>5

\* A reduction of nothing is not one for everything.
LEMMA EmptyReduction ==
  ASSUME NEW t, Sane(t), NEW e, e.state \in Rows(t),
         NEW act, act = h_lrengine_action(t, e), act.type = "REDUCE", ~(act.length > 0)
  PROVE  Open(t, e.state)
  <1>1. act # NoAction /\ act # NeedInput /\ Branches(act) = {act}
    BY DEF NoAction, NeedInput, Branches
  <1>2. RowSane(t, e.state)
    BY DEF Sane, Rows
  <1>3. act # t.rows[e.state].forall
    BY <1>1, <1>2 DEF RowSane
  <1> QED BY <1>1, <1>3, ActionOfRow DEF Open

\* Its right side is on the stack.
LEMMA ReductionSpelled ==
  ASSUME NEW t, Sane(t), NEW e, IsEngine(e), Deep(t, e.state, e.stack),
         NEW act, act = h_lrengine_action(t, e), act.type = "REDUCE"
  PROVE  Spells(t, e.state, e.stack, act.rhs)
  <1> DEFINE n == act.length
             known == t.known[e.state]
             a(k) == At(e.state, e.stack, k)
  <1>1. n \in 0..Len(e.stack) /\ n \in 0..Len(known) /\ Len(e.stack) \in Nat /\ Len(known) \in Nat
    <2>1. Len(e.stack) \in Nat
      BY DEF IsEngine
    <2> QED BY <2>1, ReductionKnown
  <1>2. act.rhs = [k \in 1..n |-> known[n + 1 - k]]
    BY ReductionKnown
  <1>3. \A l \in 1..Len(known) : Shifts(t, a(l), known[l], a(l - 1))
    <2>1. a(0) = e.state /\ 0 \in 0..Len(e.stack)
      BY <1>1 DEF At
    <2>2. \A l \in 1..Len(known) : Shifts(t, a(0 + l), known[l], a(0 + l - 1))
      BY <2>1 DEF Deep, Remembers
    <2>3. \A l \in 1..Len(known) : 0 + l = l /\ 0 + l - 1 = l - 1
      BY <1>1
    <2> HIDE DEF a, known
    <2> QED BY <2>2, <2>3
  <1> HIDE DEF known, n
  <1>4. DOMAIN act.rhs = 1..n /\ Len(act.rhs) = n
    BY <1>1, <1>2
  <1>5. ASSUME NEW k \in 1..n PROVE Shifts(t, a(k), act.rhs[n + 1 - k], a(k - 1))
    <2>1. n + 1 - k \in 1..n /\ n + 1 - (n + 1 - k) = k /\ k \in 1..Len(known)
      BY <1>1
    <2>2. act.rhs[n + 1 - k] = known[k]
      BY <1>2, <2>1
    <2> QED BY <1>3, <2>1, <2>2
  <1> QED BY <1>1, <1>4, <1>5 DEF Spells

\* A state and a value are pushed.
LEMMA PushedEngine ==
  ASSUME NEW t, NEW e, IsEngine(e), Deep(t, e.state, e.stack), NEW value, NEW x, NEW next,
         Open(t, e.state), Shifts(t, e.state, x, next),
         next = HLR_SUCCESS \/ Leads(t, e.state, x, next)
  PROVE  LET f == Pushed(e, value, next)
         IN /\ IsEngine(f) /\ HasResult(f) /\ KeepsInput(e, f)
            /\ next # HLR_SUCCESS => Deep(t, f.state, f.stack)
  <1> DEFINE y == [state |-> e.state, value |-> value]
             new == <<y>> \o e.stack
             f == Pushed(e, value, next)
  <1>1. PICK S : e.stack \in Seq(S)
    BY DEF IsEngine
  <1>2. new \in Seq(S \cup {y}) /\ new # <<>>
    <2> HIDE DEF y
    <2> QED BY <1>1
  <1>3. f = [state |-> next, stack |-> new, input |-> e.input, merged |-> e.merged]
    <2> HIDE DEF new, y
    <2>1. f = [e EXCEPT !.stack = new, !.state = next]
      BY DEF Pushed, new, y
    <2> QED BY <2>1 DEF IsEngine
  <1>4. next # HLR_SUCCESS => Deep(t, next, new)
    BY <1>1, PushedDeep
  <1> HIDE DEF new, f
  <1>5. /\ f.state = next /\ f.stack = new /\ f.input = e.input
        /\ f = [state |-> f.state, stack |-> f.stack, input |-> f.input, merged |-> f.merged]
    BY <1>3
  <1>6. IsEngine(f)
    BY <1>2, <1>5 DEF IsEngine
  <1> QED BY <1>2, <1>4, <1>5, <1>6 DEF f, HasResult, KeepsInput

\* Values are popped; the state they were pushed in has no action for all.
LEMMA PoppedEngine ==
  ASSUME NEW t, NEW e, IsEngine(e), Deep(t, e.state, e.stack), NEW len \in 0..Len(e.stack),
         len = 0 => Open(t, e.state)
  PROVE  LET p == Popped(e, len)
         IN /\ IsEngine(p) /\ KeepsInput(e, p)
            /\ Deep(t, p.state, p.stack) /\ Open(t, p.state)
  <1> DEFINE new == SubSeq(e.stack, len + 1, Len(e.stack))
             s == IF len = 0 THEN e.state ELSE e.stack[len].state
             p == Popped(e, len)
  <1>1. PICK S : e.stack \in Seq(S)
    BY DEF IsEngine
  <1>2. Deep(t, s, new) /\ new \in Seq(S) /\ Open(t, s)
    <2>1. CASE len = 0
      <3>1. new = e.stack
        BY <1>1, <2>1
      <3> QED BY <1>1, <2>1, <3>1
    <2>2. CASE len # 0
      <3>1. len \in 1..Len(e.stack)
        BY <1>1, <2>2
      <3> QED BY <1>1, <2>2, <3>1, PoppedDeep
    <2> QED BY <2>1, <2>2
  <1>3. p = [state |-> s, stack |-> new, input |-> e.input, merged |-> e.merged]
    <2>1. len <= Len(e.stack)
      BY <1>1
    <2>2. p = [e EXCEPT !.state = s, !.stack = new]
      BY <2>1 DEF Popped
    <2> HIDE DEF new, s
    <2> QED BY <2>2 DEF IsEngine
  <1> HIDE DEF new, s, p
  <1>4. /\ p.state = s /\ p.stack = new /\ p.input = e.input
        /\ p = [state |-> p.state, stack |-> p.stack, input |-> p.input, merged |-> p.merged]
    BY <1>3
  <1>5. IsEngine(p)
    BY <1>2, <1>4 DEF IsEngine
  <1> QED BY <1>2, <1>4, <1>5 DEF p, KeepsInput

LEMMA ReadStream ==
  ASSUME NEW s, IsStream(s)
  PROVE  IsStream(AfterRead(s)) /\ AfterRead(s).last_chunk = s.last_chunk
  <1>1. CASE s.index < Len(s.bytes)
    <2>1. AfterRead(s) = [bytes |-> s.bytes, index |-> s.index + 1, pos |-> s.pos,
                          overrun |-> s.overrun, last_chunk |-> s.last_chunk]
      BY <1>1 DEF AfterRead, IsStream
    <2> QED BY <1>1, <2>1 DEF IsStream
  <1>2. CASE ~(s.index < Len(s.bytes))
    <2>1. AfterRead(s) = [bytes |-> s.bytes, index |-> s.index, pos |-> s.pos,
                          overrun |-> TRUE, last_chunk |-> s.last_chunk]
      BY <1>2 DEF AfterRead, IsStream
    <2> QED BY <2>1 DEF IsStream
  <1> QED BY <1>1, <1>2

\* A step of the engine: e is what it was before.
GoodStep(t, e, r) ==
  /\ r.run \in BOOLEAN /\ IsEngine(r.engine)
  /\ r.run => Deep(t, r.engine.state, r.engine.stack)
  /\ HasResult(r.engine)
  /\ r.engine.input.last_chunk = e.input.last_chunk

LEMMA DeepState ==
  ASSUME NEW t, NEW e, IsEngine(e), Deep(t, e.state, e.stack)
  PROVE  e.state \in Rows(t) /\ e.state # HLR_SUCCESS
  <1>1. 0 \in 0..Len(e.stack)
    BY DEF IsEngine
  <1>2. At(e.state, e.stack, 0) \in Rows(t) /\ At(e.state, e.stack, 0) = e.state
    BY <1>1 DEF Deep, At
  <1> QED BY <1>2 DEF Rows, HLR_SUCCESS

\* A shift reads.
LEMMA ShiftEngine ==
  ASSUME NEW t, Sane(t), NEW e, IsEngine(e), Deep(t, e.state, e.stack),
         NEW act, act = h_lrengine_action(t, e), act.type = "SHIFT"
  PROVE  GoodStep(t, e, Stepped(Shift(e, act), TRUE))
  <1> DEFINE p == Pushed(e, Consumed(e.input), act.nextstate)
             f == Shift(e, act)
             r == Stepped(f, TRUE)
  <1>1. PICK x : /\ Open(t, e.state)
                 /\ Shifts(t, e.state, x, act.nextstate) /\ Leads(t, e.state, x, act.nextstate)
    BY DeepState, TerminalShift
  <1>2. act.nextstate # HLR_SUCCESS
    BY <1>1 DEF Leads, HLR_SUCCESS
  <1>3. IsEngine(p) /\ KeepsInput(e, p) /\ Deep(t, p.state, p.stack)
    <2> DEFINE v == Consumed(e.input)
               next == act.nextstate
    <2>1. /\ Shifts(t, e.state, x, next) /\ Leads(t, e.state, x, next)
          /\ Open(t, e.state) /\ next # HLR_SUCCESS
      BY <1>1, <1>2
    <2> HIDE DEF v, next
    <2>2. LET q == Pushed(e, v, next)
          IN IsEngine(q) /\ KeepsInput(e, q) /\ Deep(t, q.state, q.stack)
      BY <2>1, PushedEngine, ZenonT(30)
    <2> QED BY <2>2 DEF v, next
  <1>4. f = [p EXCEPT !.input = AfterRead(@)]
    BY DEF Shift
  <1> HIDE DEF p, f
  <1>5. f = [state |-> p.state, stack |-> p.stack, input |-> AfterRead(p.input),
             merged |-> p.merged]
    BY <1>3, <1>4 DEF IsEngine
  <1>6. IsStream(AfterRead(p.input)) /\ AfterRead(p.input).last_chunk = e.input.last_chunk
    BY <1>3, ReadStream DEF IsEngine, KeepsInput
  <1>7. /\ f.state = p.state /\ f.stack = p.stack /\ f.input = AfterRead(p.input)
        /\ f = [state |-> f.state, stack |-> f.stack, input |-> f.input, merged |-> f.merged]
    BY <1>5
  <1>8. IsEngine(f)
    BY <1>3, <1>6, <1>7 DEF IsEngine
  <1>9. Deep(t, f.state, f.stack) /\ f.input.last_chunk = e.input.last_chunk
    BY <1>3, <1>6, <1>7
  <1>10. r.engine = f /\ r.run = TRUE
    BY DEF Stepped
  <1> HIDE DEF r
  <1>11. HasResult(f)
    BY <1>8, <1>9, DeepState DEF HasResult
  <1>12. GoodStep(t, e, r)
    BY <1>8, <1>9, <1>10, <1>11 DEF GoodStep
  <1> QED BY <1>12 DEF r, f

\* A reduction pops and pushes.
LEMMA ReduceEngine ==
  ASSUME NEW g, NEW t, Sane(t), NEW e, IsEngine(e), Deep(t, e.state, e.stack),
         NEW act, act = h_lrengine_action(t, e), act.type = "REDUCE"
  PROVE  GoodStep(t, e, Reduce(g, t, e, act)) /\ GotoAsserts(t, e, act)
  <1> DEFINE p == Popped(e, act.length)
             value == Reshape(g, act.lhs, Values(e.stack, act.length))
             shift == nonterminal_lookup(t, p.state, act.lhs)
             r == Reduce(g, t, e, act)
  <1>1. act.length \in 0..Len(e.stack) /\ (act.length > 0 \/ Open(t, e.state))
    <2>1. act.length \in 0..Len(e.stack)
      BY ReductionKnown
    <2>2. e.state \in Rows(t)
      BY DeepState
    <2> QED BY <2>1, <2>2, EmptyReduction
  <1>2. /\ IsEngine(p) /\ KeepsInput(e, p)
        /\ Deep(t, p.state, p.stack) /\ Open(t, p.state)
    <2> DEFINE len == act.length
    <2>1. len \in 0..Len(e.stack) /\ (len = 0 => Open(t, e.state))
      BY <1>1
    <2> HIDE DEF len
    <2>2. LET q == Popped(e, len)
          IN /\ IsEngine(q) /\ KeepsInput(e, q)
             /\ Deep(t, q.state, q.stack) /\ Open(t, q.state)
      BY <2>1, PoppedEngine
    <2> QED BY <2>2 DEF len
  <1>3. p.state \in Rows(t) /\ HasResult(p)
    BY <1>2, DeepState DEF HasResult
  <1>4. r = IF ~Pred(g, act.lhs, value) \/ shift = NoAction THEN Stepped(p, FALSE)
            ELSE Stepped(Pushed(p, Action(g, act.lhs, value), shift.nextstate),
                         shift.nextstate # HLR_SUCCESS)
    BY DEF Reduce
  <1>5. ASSUME shift # NoAction
        PROVE  /\ shift.type = "SHIFT" /\ Shifts(t, p.state, act.lhs, shift.nextstate)
               /\ \/ shift.nextstate = HLR_SUCCESS /\ act.lhs = t.start
                  \/ Leads(t, p.state, act.lhs, shift.nextstate)
    <2> HIDE DEF p
    <2> QED BY <1>3, <1>5, GotoOfRow
  <1>6. GotoAsserts(t, e, act)
    <2>1. shift # NoAction /\ shift.nextstate = HLR_SUCCESS => act.lhs = t.start
      BY <1>5 DEF Leads, HLR_SUCCESS
    <2> HIDE DEF shift, p
    <2>2. /\ p.state \in 0..t.nrows - 1 /\ Open(t, p.state)
          /\ shift # NoAction =>
               shift.type = "SHIFT" /\ (shift.nextstate = HLR_SUCCESS => act.lhs = t.start)
      BY <1>2, <1>3, <1>5, <2>1 DEF Rows
    <2> QED BY <2>2 DEF GotoAsserts, Open, p, shift
  <1>7. CASE ~Pred(g, act.lhs, value) \/ shift = NoAction
    <2>1. r = [engine |-> p, run |-> FALSE]
      BY <1>4, <1>7 DEF Stepped
    <2> HIDE DEF p, r
    <2>2. r.engine = p /\ r.run = FALSE
      BY <2>1
    <2>3. GoodStep(t, e, r)
      BY <1>2, <1>3, <2>2 DEF GoodStep, KeepsInput
    <2> QED BY <1>6, <2>3 DEF r
  <1>8. CASE ~(~Pred(g, act.lhs, value) \/ shift = NoAction)
    <2> DEFINE q == Pushed(p, Action(g, act.lhs, value), shift.nextstate)
    <2>1. r = [engine |-> q, run |-> shift.nextstate # HLR_SUCCESS]
      BY <1>4, <1>8 DEF Stepped
    <2>2. /\ IsEngine(q) /\ HasResult(q) /\ KeepsInput(p, q)
          /\ shift.nextstate # HLR_SUCCESS => Deep(t, q.state, q.stack)
      <3> HIDE DEF p, shift
      <3> QED BY <1>2, <1>5, <1>8, PushedEngine
    <2> HIDE DEF q, r, shift, p
    <2>3. r.engine = q /\ r.run = (shift.nextstate # HLR_SUCCESS)
      BY <2>1
    <2>4. GoodStep(t, e, r)
      BY <1>2, <2>2, <2>3 DEF GoodStep, KeepsInput
    <2> QED BY <1>6, <2>4 DEF r
  <1> QED BY <1>7, <1>8

-----------------------------------------------------------------------------
(* The driver. *)

LEMMA InitIInv == Init /\ TableSane => IInv
  <1> SUFFICES ASSUME Init, TableSane PROVE IInv
    OBVIOUS
  <1> DEFINE s == Stream(<<>>, 0, FALSE)
  <1>1. <<>> \in Seq({}) /\ <<>> \in Seq(Bytes) /\ Len(<<>>) = 0
    OBVIOUS
  <1>2. IsStream(s)
    BY <1>1 DEF Stream, IsStream
  <1> HIDE DEF s
  <1>3. engine = [state |-> 0, stack |-> <<>>, input |-> s, merged |-> <<>>]
    BY DEF Init, h_lrengine_new, s
  <1>4. /\ engine.state = 0 /\ engine.stack = <<>> /\ engine.input = s
        /\ engine = [state |-> engine.state, stack |-> engine.stack, input |-> engine.input,
                     merged |-> engine.merged]
    BY <1>3
  <1>5. IsEngine(engine)
    BY <1>1, <1>2, <1>4 DEF IsEngine
  <1>6. 0 \in Rows(table) /\ Len(table.known[0]) = 0
    BY <1>1 DEF TableSane, Sane, Rows
  <1>7. Deep(table, 0, <<>>)
    <2> SUFFICES ASSUME NEW k \in 0..0
                 PROVE  /\ At(0, <<>>, k) \in Rows(table)
                        /\ k > 0 => Open(table, At(0, <<>>, k))
                        /\ Remembers(table, 0, <<>>, k)
      BY <1>1 DEF Deep
    <2>1. k = 0 /\ At(0, <<>>, k) = 0
      BY DEF At
    <2>2. Remembers(table, 0, <<>>, k)
      BY <1>1, <1>6, <2>1 DEF Remembers
    <2> QED BY <1>6, <2>1, <2>2
  <1>8. Deep(table, engine.state, engine.stack)
    BY <1>4, <1>7
  <1>9. HasResult(engine)
    BY <1>4 DEF HasResult, HLR_SUCCESS
  <1>10. pc = "idle" /\ input = <<>>
    BY DEF Init
  <1> QED BY <1>1, <1>5, <1>8, <1>9, <1>10 DEF IInv, Running

\* The loop goes on with an engine, or it ends, after the last chunk only when
\* the parser is done.
LEMMA LeaveIInv ==
  ASSUME NEW e, NEW d \in BOOLEAN, Leave(e, d), IsEngine(e), IInv, Running, HasResult(e),
         d = FALSE => Deep(table, e.state, e.stack) /\ pc \notin {"finish", "parse"}
  PROVE  IInv'
  <1>1. engine' = e /\ done' = d /\ table' = table /\ input' = input
    BY DEF Leave
  <1>2. pc' \in {"idle", "done"}
    BY DEF Leave, Running
  <1>3. IsEngine(e) /\ HasResult(e) /\ input \in Seq(Bytes)
    BY DEF IInv
  <1>4. (~done => Deep(table, engine.state, engine.stack))'
    BY <1>1
  <1>5. (Running => ~done)' /\ (pc \in {"finish", "parse"} => engine.input.last_chunk)'
        /\ (pc # "abort")'
    BY <1>2 DEF Running
  <1> QED BY <1>1, <1>3, <1>4, <1>5 DEF IInv

LEMMA ContinueIInv ==
  ASSUME NEW r, GoodStep(table, engine, r), IInv, Running, Continue(r)
  PROVE  IInv'
  <1>1. /\ r.run \in BOOLEAN /\ IsEngine(r.engine) /\ HasResult(r.engine)
        /\ r.run => Deep(table, r.engine.state, r.engine.stack)
        /\ pc \in {"finish", "parse"} => r.engine.input.last_chunk
    BY DEF GoodStep, IInv
  <1>2. CASE ~r.run
    <2>1. Leave(r.engine, TRUE)
      BY <1>2 DEF Continue
    <2> QED BY <1>1, <2>1, LeaveIInv
  <1>3. CASE r.run /\ r.engine.input.overrun /\ ~r.engine.input.last_chunk
    <2>1. Leave(r.engine, FALSE)
      BY <1>3 DEF Continue
    <2> QED BY <1>1, <1>3, <2>1, LeaveIInv
  <1>4. CASE r.run /\ ~(r.engine.input.overrun /\ ~r.engine.input.last_chunk)
    <2>1. engine' = r.engine /\ UNCHANGED <<table, input, done, pc>>
      BY <1>4 DEF Continue
    <2> QED BY <1>1, <1>4, <2>1 DEF IInv, Running
  <1> QED BY <1>1, <1>2, <1>3, <1>4

\* A call of the user gives the engine another stream.
LEMMA RunIInv ==
  ASSUME IInv, NEW call \in {"chunk", "finish", "parse"}, NEW bytes \in Seq(Bytes), NEW p,
         NEW last \in BOOLEAN, last = FALSE => call = "chunk",
         Run(call, Stream(bytes, p, last)), input' \in Seq(Bytes)
  PROVE  IInv'
  <1> DEFINE s == Stream(bytes, p, last)
  <1>1. /\ engine' = [engine EXCEPT !.input = s]
        /\ ~done /\ UNCHANGED <<table, done>> /\ pc' = call
    BY DEF Run
  <1>2. IsStream(s) /\ s.last_chunk = last
    BY DEF Stream, IsStream
  <1> HIDE DEF s
  <1>3. engine' = [state |-> engine.state, stack |-> engine.stack, input |-> s,
                   merged |-> engine.merged]
    BY <1>1 DEF IInv, IsEngine
  <1>4. /\ engine'.state = engine.state /\ engine'.stack = engine.stack /\ engine'.input = s
        /\ engine' = [state |-> engine'.state, stack |-> engine'.stack, input |-> engine'.input,
                      merged |-> engine'.merged]
    BY <1>3
  <1>5. IsEngine(engine') /\ HasResult(engine')
    BY <1>2, <1>4 DEF IInv, IsEngine, HasResult
  <1>6. Deep(table', engine'.state, engine'.stack)
    BY <1>1, <1>4 DEF IInv
  <1>7. call \in {"finish", "parse"} => engine'.input.last_chunk
    BY <1>2, <1>4
  <1> QED BY <1>1, <1>5, <1>6, <1>7 DEF IInv, Running

\* The engine asks for input at the end of a chunk that is not the last.
LEMMA AsksForMore ==
  ASSUME TableSane, IInv, Running, Now = NeedInput
  PROVE  /\ pc \notin {"finish", "parse"}
         /\ engine.input.index = Len(engine.input.bytes)
  <1> DEFINE row == table.rows[engine.state]
             s == engine.input
  <1>1. engine.state \in Rows(table) /\ IsStream(s)
    BY DeepState DEF IInv, IsEngine
  <1>2. \A act \in {row.tmap[c] : c \in DOMAIN row.tmap} \cup {row.forall} : act # NeedInput
    <2>1. \A act \in {row.tmap[c] : c \in DOMAIN row.tmap} \cup {row.forall} :
            act.type \in {"SHIFT", "REDUCE"} \/ act = NoAction
      BY <1>1 DEF TableSane, Rows
    <2> QED BY <2>1 DEF NeedInput, NoAction
  <1>3. Now = Lookahead(row.tmap, s)
    <2>1. row.forall # NeedInput
      BY <1>2
    <2> QED BY <2>1 DEF Now, h_lrengine_action
  <1>4. \A c : ActionAt(row.tmap, c) # NeedInput
    BY <1>2 DEF ActionAt, NeedInput, NoAction
  <1>5. ~(s.index < Len(s.bytes)) /\ ~s.last_chunk
    BY <1>3, <1>4 DEF Lookahead
  <1>6. s.index = Len(s.bytes)
    BY <1>1, <1>5 DEF IsStream
  <1>7. pc \notin {"finish", "parse"}
    BY <1>5 DEF IInv
  <1> QED BY <1>6, <1>7

LEMMA ChunkType ==
  ASSUME NEW bytes \in Chunks, input \in Seq(Bytes)
  PROVE  bytes \in Seq(Bytes) /\ input \o bytes \in Seq(Bytes)
  <1>1. Room \in Int
    BY BoundAssumption DEF Room
  <1>2. PICK n \in 0..Room : bytes \in [1..n -> Bytes]
    BY DEF Chunks
  <1>3. n \in Nat
    BY <1>1, <1>2
  <1>4. bytes \in Seq(Bytes)
    BY <1>2, <1>3
  <1> QED BY <1>4

LEMMA NextIInv == TableSane /\ IInv /\ [Next]_vars => IInv'
  <1> SUFFICES ASSUME TableSane, IInv, [Next]_vars PROVE IInv'
    OBVIOUS
  <1> input \in Seq(Bytes) /\ <<>> \in Seq(Bytes)
    BY DEF IInv
  <1>1. ASSUME NEW bytes \in Chunks, h_parse_chunk(bytes) PROVE IInv'
    BY <1>1, ChunkType, RunIInv DEF h_parse_chunk
  <1>2. ASSUME NEW bytes \in Chunks, h_parse(bytes) PROVE IInv'
    BY <1>2, ChunkType, RunIInv DEF h_parse
  <1>3. CASE h_parse_finish
    BY <1>3, RunIInv DEF h_parse_finish
  <1>4. CASE FinishDone
    BY <1>4 DEF FinishDone, IInv, Running
  <1>5. ASSUME Running
        PROVE  Deep(table, engine.state, engine.stack) /\ IsEngine(engine) /\ HasResult(engine)
    BY <1>5 DEF IInv
  <1>6. CASE NeedsInput
    BY <1>5, <1>6, AsksForMore, LeaveIInv DEF NeedsInput
  <1>7. CASE NoHandle
    BY <1>5, <1>7, LeaveIInv DEF NoHandle
  <1>8. CASE ShiftStep
    <2> DEFINE r == Stepped(Shift(engine, Now), TRUE)
    <2>1. GoodStep(table, engine, r)
      BY <1>5, <1>8, ShiftEngine DEF ShiftStep, Now, TableSane
    <2>2. Running /\ Continue(r)
      BY <1>8 DEF ShiftStep
    <2> HIDE DEF r
    <2> QED BY <2>1, <2>2, ContinueIInv
  <1>9. CASE ReduceStep
    <2> DEFINE r == Reduce(grammar, table, engine, Now)
    <2>1. GoodStep(table, engine, r)
      BY <1>5, <1>9, ReduceEngine DEF ReduceStep, Now, TableSane
    <2>2. Running /\ Continue(r)
      BY <1>9 DEF ReduceStep
    <2> HIDE DEF r
    <2> QED BY <2>1, <2>2, ContinueIInv
  <1>10. CASE UNCHANGED vars
    BY <1>10 DEF vars, IInv, Running
  <1> QED BY <1>1, <1>2, <1>3, <1>4, <1>6, <1>7, <1>8, <1>9, <1>10 DEF Next

LEMMA IInvHolds == Spec /\ []TableSane => []IInv
  BY InitIInv, NextIInv, PTL DEF Spec

-----------------------------------------------------------------------------
(* The theorems. *)

\* For every sane table, whatever the grammar does with values and in any division
\* of the input into chunks: a reduction of h_lrengine_step, which tests nothing,
\* takes the values of its own right side from the stack.
THEOREM LRHandleOnTop == Spec /\ []TableSane => []HandleOnTop
  <1>1. TableSane /\ IInv => HandleOnTop
    <2> SUFFICES ASSUME TableSane, IInv, Running, Now.type = "REDUCE"
                 PROVE  /\ Now.length = Len(Now.rhs)
                        /\ Spells(table, engine.state, engine.stack, Now.rhs)
      BY DEF HandleOnTop
    <2>1. Deep(table, engine.state, engine.stack) /\ IsEngine(engine) /\ Sane(table)
      BY DEF IInv, TableSane
    <2> DEFINE act == Now
    <2>2. act = h_lrengine_action(table, engine) /\ act.type = "REDUCE"
      BY DEF Now
    <2> HIDE DEF act
    <2>3. Spells(table, engine.state, engine.stack, act.rhs)
      BY <2>1, <2>2, ReductionSpelled
    <2>4. /\ act.length \in 0..Len(table.known[engine.state])
          /\ act.rhs = [k \in 1..act.length |->
                          table.known[engine.state][act.length + 1 - k]]
          /\ Len(table.known[engine.state]) \in Nat
      BY <2>1, <2>2, ReductionKnown
    <2>5. act.length = Len(act.rhs)
      BY <2>4
    <2> QED BY <2>3, <2>5 DEF act
  <1> QED BY <1>1, IInvHolds, PTL

\* For every sane table without a conflict, in any division of the input into
\* chunks: no assertion of the LR engine or of its drivers fails.
THEOREM LRNoAbort == Spec /\ []TableSane => []NoAbort
  <1>1. TableSane /\ IInv => NoAbort
    <2> SUFFICES ASSUME TableSane, IInv PROVE NoAbort
      OBVIOUS
    <2>1. pc # "abort" /\ (engine.state = HLR_SUCCESS => engine.stack # <<>>)
      BY DEF IInv, HasResult
    <2>2. ASSUME Running
          PROVE  /\ RowAsserts(table, engine)
                 /\ Now = NeedInput =>
                      pc # "parse" /\ engine.input.index = Len(engine.input.bytes)
                 /\ Now.type \in {"SHIFT", "REDUCE", "NULL", "NEED_INPUT"}
                 /\ Now.type = "REDUCE" => GotoAsserts(table, engine, Now)
      <3> DEFINE act == Now
                 row == table.rows[engine.state]
      <3>1. Deep(table, engine.state, engine.stack) /\ IsEngine(engine) /\ Sane(table)
        BY <2>2 DEF IInv, TableSane
      <3>2. engine.state \in Rows(table)
        BY <3>1, DeepState
      <3>3. RowAsserts(table, engine)
        <4>1. RowSane(table, engine.state)
          BY <3>1, <3>2 DEF Sane, Rows
        <4>2. row.forall # NoAction => RowSymbols(row) = {}
          BY <4>1 DEF RowSane
        <4>3. RowSymbols(row) = {} => DOMAIN row.ntmap = {} /\ DOMAIN row.tmap = {}
          BY DEF RowSymbols
        <4> QED BY <3>2, <4>2, <4>3 DEF RowAsserts, Rows
      <3>4. act = h_lrengine_action(table, engine)
        BY DEF Now
      <3> HIDE DEF act
      <3>5. act.type \in {"SHIFT", "REDUCE", "NULL", "NEED_INPUT"}
        <4>1. CASE act \in {NoAction, NeedInput}
          BY <4>1 DEF NoAction, NeedInput
        <4>2. CASE act \notin {NoAction, NeedInput}
          <5>1. act \in {row.tmap[c] : c \in DOMAIN row.tmap} \cup {row.forall}
            BY <3>4, <4>2, ActionOfRow
          <5>2. act.type \in {"SHIFT", "REDUCE"} \/ act = NoAction
            BY <3>2, <5>1 DEF TableSane, Rows
          <5> QED BY <4>2, <5>2
        <4> QED BY <4>1, <4>2
      <3>6. act.type = "REDUCE" => GotoAsserts(table, engine, act)
        BY <3>1, <3>4, ReduceEngine
      <3>7. Now = NeedInput => pc # "parse" /\ engine.input.index = Len(engine.input.bytes)
        BY <2>2, AsksForMore
      <3> QED BY <3>3, <3>5, <3>6, <3>7 DEF act
    <2> QED BY <2>1, <2>2 DEF NoAbort
  <1> QED BY <1>1, IInvHolds, PTL
=============================================================================
