--------------------------- MODULE PackratProofs ---------------------------
(***************************************************************************)
(* Proofs about module Packrat, for every grammar and every input: the     *)
(* cache never loses a result, the assertions of packrat.c on it hold      *)
(* whenever they are evaluated, lr_stack follows the rules that are        *)
(* running, recursion_heads the recursions that are growing, and a put     *)
(* finds its name as it left it.                                           *)
(***************************************************************************)
EXTENDS Packrat, SequenceTheorems, TLAPS

-----------------------------------------------------------------------------
(* Sequences whose elements have no type of interest. *)

IsSequence(s) == \E S : s \in Seq(S)

LEMMA AppendTo ==
  ASSUME NEW s, IsSequence(s), NEW e
  PROVE  /\ IsSequence(Append(s, e))
         /\ Len(s) \in Nat /\ DOMAIN s = 1..Len(s)
         /\ DOMAIN Append(s, e) = 1 .. Len(s) + 1
         /\ Len(Append(s, e)) = Len(s) + 1
         /\ \A i \in 1..Len(s) : Append(s, e)[i] = s[i]
         /\ Append(s, e)[Len(s) + 1] = e
<1>1. PICK S : s \in Seq(S)
  BY DEF IsSequence
<1>2. s \in Seq(S \cup {e}) /\ e \in S \cup {e}
  BY <1>1
<1>3. Append(s, e) \in Seq(S \cup {e})
  BY <1>2
<1>4. QED
  BY <1>2, <1>3 DEF IsSequence

LEMMA PopFrom ==
  ASSUME NEW s, IsSequence(s), s # <<>>
  PROVE  LET t == SubSeq(s, 1, Len(s) - 1) IN
         /\ IsSequence(t)
         /\ Len(s) \in Nat \ {0} /\ DOMAIN s = 1..Len(s)
         /\ Len(t) = Len(s) - 1 /\ DOMAIN t = 1 .. Len(s) - 1
         /\ \A i \in 1 .. Len(s) - 1 : t[i] = s[i]
<1>1. PICK S : s \in Seq(S)
  BY DEF IsSequence
<1>2. Len(s) \in Nat \ {0} /\ DOMAIN s = 1..Len(s)
  BY <1>1
<1>3. \A i \in 1 .. Len(s) - 1 : s[i] \in S
  BY <1>1, <1>2
<1>4. SubSeq(s, 1, Len(s) - 1) \in Seq(S)
  BY <1>1, <1>2, <1>3, SubSeqProperties
<1>5. QED
  BY <1>1, <1>2, <1>4 DEF IsSequence

ReplaceTop(s, e) == [s EXCEPT ![Len(s)] = e]

LEMMA ReplaceLast ==
  ASSUME NEW s, IsSequence(s), s # <<>>, NEW e
  PROVE  LET t == ReplaceTop(s, e) IN
         /\ IsSequence(t) /\ DOMAIN t = DOMAIN s
         /\ \A i \in 1 .. Len(s) - 1 : t[i] = s[i]
         /\ t[Len(s)] = e
<1> DEFINE n == Len(s)
           t == ReplaceTop(s, e)
<1>1. PICK S : s \in Seq(S)
  BY DEF IsSequence
<1>2. n \in Nat \ {0} /\ DOMAIN s = 1..n
  BY <1>1
<1>3. t = [i \in 1..n |-> IF i = n THEN e ELSE s[i]]
  BY <1>2 DEF ReplaceTop
<1> HIDE DEF n, t
<1>4. /\ DOMAIN t = 1..n
      /\ \A i \in 1 .. n - 1 : t[i] = s[i]
      /\ t[n] = e
  BY <1>2, <1>3
<1>5. t \in Seq({t[i] : i \in 1..n})
  BY <1>2, <1>3
<1>6. IsSequence(t)
  BY <1>5 DEF IsSequence
<1>7. QED
  BY <1>2, <1>4, <1>6 DEF n, t

-----------------------------------------------------------------------------
(* The inductive invariant.  Its parts are operators of the cache, the cells *)
(* and the frames, so that the lemmas below apply to any two of their states.*)

HasResult(ca, ce, k) == k \in DOMAIN ca /\ ce[ca[k]].type = "PC_RIGHT"

\* Cells have addresses below the next free one, and the cache refers to them.
MemoOK(ca, ce, n) ==
  /\ n \in Nat \ {0}
  /\ \A a \in DOMAIN ce : a \in Nat \ {0} /\ a < n
                          /\ "type" \in DOMAIN ce[a] /\ "left" \in DOMAIN ce[a]
  /\ \A k \in DOMAIN ca : ca[k] \in DOMAIN ce

\* What a step may do to the cache: keys stay, results stay results.
MemoStep(ca, ce, ca2, ce2) ==
  \A k \in DOMAIN ca :
    k \in DOMAIN ca2 /\ (HasResult(ca, ce, k) => HasResult(ca2, ce2, k))

\* A rule that is running has a cell, and one that is growing has a result.
FrameOK(f, ca, ce) ==
  /\ f = [p |-> f.p, pos |-> f.pos, how |-> f.how, lr |-> f.lr,
          head |-> f.head, old |-> f.old, old_res |-> f.old_res]
  /\ f.how = "base" => <<f.pos, f.p>> \in DOMAIN ca
  /\ f.how = "grow" => HasResult(ca, ce, <<f.pos, f.p>>)

StackOK(s, ca, ce) ==
  /\ IsSequence(s)
  /\ \A n \in DOMAIN s : FrameOK(s[n], ca, ce)

\* The stack is empty only before the first call, when nothing is cached, and
\* after the last return.
Started ==
  stack = <<>> => \/ pc = "done"
                  \/ pc = "call" /\ cache = <<>> /\ recursion_heads = <<>>

IInv == MemoOK(cache, cells, next) /\ StackOK(stack, cache, cells) /\ Started

-----------------------------------------------------------------------------
(* What can happen to the cache. *)

LEMMA MemoSame ==
  ASSUME NEW ca, NEW ce
  PROVE  MemoStep(ca, ce, ca, ce)
BY DEF MemoStep

\* Cells of the same addresses and types, such as those whose position moved.
SameTypes(ce, ce2) ==
  /\ DOMAIN ce2 = DOMAIN ce
  /\ \A a \in DOMAIN ce : /\ "type" \in DOMAIN ce2[a] /\ ce2[a].type = ce[a].type
                          /\ "left" \in DOMAIN ce2[a] /\ ce2[a].left = ce[a].left

LEMMA MemoMoved ==
  ASSUME NEW ca, NEW ce, NEW n, MemoOK(ca, ce, n), NEW a, NEW s
  PROVE  SameTypes(ce, [ce EXCEPT ![a].input_stream = s])
BY DEF MemoOK, SameTypes

LEMMA MemoSameTypes ==
  ASSUME NEW ca, NEW ce, NEW n, MemoOK(ca, ce, n), NEW ce2, SameTypes(ce, ce2)
  PROVE  MemoOK(ca, ce2, n) /\ MemoStep(ca, ce, ca, ce2)
BY DEF MemoOK, MemoStep, SameTypes, HasResult

\* A result in a new cell is entered.
LEMMA MemoResult ==
  ASSUME NEW ca, NEW ce, NEW n, MemoOK(ca, ce, n), NEW ce2, SameTypes(ce, ce2),
         NEW k, NEW r, NEW s
  PROVE  LET ca3 == Bind(ca, k, n)
             ce3 == Bind(ce2, n, cached_result(r, s))
         IN /\ MemoOK(ca3, ce3, n + 1)
            /\ MemoStep(ca, ce, ca3, ce3)
            /\ HasResult(ca3, ce3, k)
<1> DEFINE ca3 == Bind(ca, k, n)
           ce3 == Bind(ce2, n, cached_result(r, s))
<1>1. /\ DOMAIN ca3 = DOMAIN ca \cup {k}
      /\ ca3[k] = n
      /\ \A x \in DOMAIN ca : x # k => ca3[x] = ca[x]
  BY DEF Bind
<1>2. /\ DOMAIN ce3 = DOMAIN ce \cup {n}
      /\ ce3[n] = cached_result(r, s)
      /\ \A a \in DOMAIN ce : a # n => ce3[a] = ce2[a]
  BY DEF Bind, SameTypes
<1>3. n \notin DOMAIN ce
  BY DEF MemoOK
<1>4. "type" \in DOMAIN ce3[n] /\ "left" \in DOMAIN ce3[n] /\ ce3[n].type = "PC_RIGHT"
  BY <1>2 DEF cached_result
<1> HIDE DEF ca3, ce3
<1>5. MemoOK(ca3, ce3, n + 1)
  BY <1>1, <1>2, <1>3, <1>4 DEF MemoOK, SameTypes
<1>6. MemoStep(ca, ce, ca3, ce3) /\ HasResult(ca3, ce3, k)
  BY <1>1, <1>2, <1>3, <1>4 DEF MemoOK, MemoStep, SameTypes, HasResult
<1>7. QED
  BY <1>5, <1>6 DEF ca3, ce3

\* A cell is replaced by a result.
LEMMA MemoReplaced ==
  ASSUME NEW ca, NEW ce, NEW n, MemoOK(ca, ce, n), NEW a, NEW r, NEW s
  PROVE  LET ce2 == [ce EXCEPT ![a] = cached_result(r, s)]
         IN MemoOK(ca, ce2, n) /\ MemoStep(ca, ce, ca, ce2)
<1> DEFINE ce2 == [ce EXCEPT ![a] = cached_result(r, s)]
<1>1. /\ DOMAIN ce2 = DOMAIN ce
      /\ \A b \in DOMAIN ce : ce2[b] = ce[b] \/ ce2[b] = cached_result(r, s)
  OBVIOUS
<1>2. LET v == cached_result(r, s)
      IN "type" \in DOMAIN v /\ "left" \in DOMAIN v /\ v.type = "PC_RIGHT"
  BY DEF cached_result
<1> HIDE DEF ce2
<1>3. MemoOK(ca, ce2, n) /\ MemoStep(ca, ce, ca, ce2)
  BY <1>1, <1>2 DEF MemoOK, MemoStep, HasResult
<1>4. QED
  BY <1>3 DEF ce2

\* A left recursion is entered where nothing was cached.
LEMMA MemoRecursion ==
  ASSUME NEW ca, NEW ce, NEW n, MemoOK(ca, ce, n), NEW k, k \notin DOMAIN ca,
         NEW l, NEW s
  PROVE  LET ca2 == Bind(ca, k, n + 1)
             ce2 == Bind(ce, n + 1, cached_lr(l, s))
         IN /\ MemoOK(ca2, ce2, n + 2)
            /\ MemoStep(ca, ce, ca2, ce2)
            /\ k \in DOMAIN ca2
<1> DEFINE ca2 == Bind(ca, k, n + 1)
           ce2 == Bind(ce, n + 1, cached_lr(l, s))
<1>1. /\ DOMAIN ca2 = DOMAIN ca \cup {k}
      /\ ca2[k] = n + 1
      /\ \A x \in DOMAIN ca : ca2[x] = ca[x]
  BY DEF Bind
<1>2. /\ DOMAIN ce2 = DOMAIN ce \cup {n + 1}
      /\ ce2[n + 1] = cached_lr(l, s)
      /\ \A a \in DOMAIN ce : a # n + 1 => ce2[a] = ce[a]
  BY DEF Bind
<1>3. n + 1 \notin DOMAIN ce
  BY DEF MemoOK
<1>4. "type" \in DOMAIN ce2[n + 1] /\ "left" \in DOMAIN ce2[n + 1]
  BY <1>2 DEF cached_lr
<1> HIDE DEF ca2, ce2
<1>5. MemoOK(ca2, ce2, n + 2)
  BY <1>1, <1>2, <1>3, <1>4 DEF MemoOK
<1>6. MemoStep(ca, ce, ca2, ce2) /\ k \in DOMAIN ca2
  BY <1>1, <1>2, <1>3 DEF MemoOK, MemoStep, HasResult
<1>7. QED
  BY <1>5, <1>6 DEF ca2, ce2

-----------------------------------------------------------------------------
(* What can happen to the stack meanwhile. *)

LEMMA FrameStays ==
  ASSUME NEW ca, NEW ce, NEW ca2, NEW ce2, MemoStep(ca, ce, ca2, ce2),
         NEW f, FrameOK(f, ca, ce)
  PROVE  FrameOK(f, ca2, ce2)
BY DEF FrameOK, MemoStep, HasResult

LEMMA StackSame ==
  ASSUME NEW ca, NEW ce, NEW ca2, NEW ce2, MemoStep(ca, ce, ca2, ce2),
         NEW s, StackOK(s, ca, ce)
  PROVE  StackOK(s, ca2, ce2)
BY FrameStays DEF StackOK

LEMMA StackPush ==
  ASSUME NEW ca, NEW ce, NEW ca2, NEW ce2, MemoStep(ca, ce, ca2, ce2),
         NEW s, StackOK(s, ca, ce), NEW f, FrameOK(f, ca2, ce2)
  PROVE  StackOK(Append(s, f), ca2, ce2) /\ Append(s, f) # <<>>
<1>1. IsSequence(s) /\ \A n \in DOMAIN s : FrameOK(s[n], ca2, ce2)
  BY FrameStays DEF StackOK
<1>2. QED
  BY <1>1, AppendTo DEF StackOK

LEMMA StackPop ==
  ASSUME NEW ca, NEW ce, NEW ca2, NEW ce2, MemoStep(ca, ce, ca2, ce2),
         NEW s, StackOK(s, ca, ce), s # <<>>
  PROVE  /\ StackOK(SubSeq(s, 1, Len(s) - 1), ca2, ce2)
         /\ SubSeq(s, 1, Len(s) - 1) = <<>> => Len(s) = 1
<1>1. IsSequence(s) /\ \A n \in DOMAIN s : FrameOK(s[n], ca2, ce2)
  BY FrameStays DEF StackOK
<1> DEFINE t == SubSeq(s, 1, Len(s) - 1)
<1>2. /\ IsSequence(t)
      /\ Len(s) \in Nat \ {0} /\ DOMAIN s = 1..Len(s)
      /\ Len(t) = Len(s) - 1 /\ DOMAIN t = 1 .. Len(s) - 1
      /\ \A i \in 1 .. Len(s) - 1 : t[i] = s[i]
  BY <1>1, PopFrom
<1> HIDE DEF t
<1>3. StackOK(t, ca2, ce2)
  <2>1. \A n \in DOMAIN t : n \in DOMAIN s /\ t[n] = s[n]
    BY <1>2
  <2>2. QED
    BY <1>1, <1>2, <2>1 DEF StackOK
<1>4. t = <<>> => Len(s) = 1
  <2> SUFFICES ASSUME t = <<>> PROVE Len(s) = 1
    OBVIOUS
  <2>1. Len(t) = 0
    OBVIOUS
  <2>2. Len(t) = Len(s) - 1 /\ Len(s) \in Nat
    BY <1>2
  <2>3. QED
    BY <2>1, <2>2
<1>5. QED
  BY <1>3, <1>4 DEF t

LEMMA StackReplace ==
  ASSUME NEW ca, NEW ce, NEW ca2, NEW ce2, MemoStep(ca, ce, ca2, ce2),
         NEW s, StackOK(s, ca, ce), s # <<>>, NEW f, FrameOK(f, ca2, ce2)
  PROVE  StackOK(ReplaceTop(s, f), ca2, ce2) /\ ReplaceTop(s, f) # <<>>
<1> DEFINE t == ReplaceTop(s, f)
<1>1. IsSequence(s) /\ \A n \in DOMAIN s : FrameOK(s[n], ca2, ce2)
  BY FrameStays DEF StackOK
<1>2. Len(s) \in Nat \ {0} /\ DOMAIN s = 1..Len(s)
  BY <1>1, PopFrom
<1>3. /\ IsSequence(t) /\ DOMAIN t = DOMAIN s
      /\ \A i \in 1 .. Len(s) - 1 : t[i] = s[i]
      /\ t[Len(s)] = f
  BY <1>1, ReplaceLast
<1> HIDE DEF t
<1>4. QED
  BY <1>1, <1>2, <1>3 DEF StackOK, t

-----------------------------------------------------------------------------
(* The steps. *)

\* A parse function leaves the activations alone and allocates at most one
\* result.
LEMMA ParseFootprint ==
  ASSUME Parse
  PROVE  /\ pc = "run" /\ pc' \in {"call", "run", "return"}
         /\ UNCHANGED stack
         /\ next' = next \/ next' = next + 1
<1> USE DEF Running, CallParse, Return, ReturnNew, frame_vars
<1>1. CASE ParsePrimitive
  BY <1>1 DEF ParsePrimitive, ParseCh, ParseToken, ParseEnd, ParseEpsilon,
              ParseNothing, ParseWhitespace, ParseIntRange, ParseLengthValue,
              CallOnly, RepeatReturns, Iterate
<1>2. CASE ParseSequence \/ ParseIgnoreSeq
  BY <1>2 DEF ParseSequence, ParseIgnoreSeq
<1>3. CASE ParseMany
  BY <1>3 DEF ParseMany, RepeatReturns, Iterate
<1>4. CASE ParseChoice \/ ParseOptional \/ ParseAnd \/ ParseNot
  BY <1>4 DEF ParseChoice, ParseOptional, ParseAnd, ParseNot, CallOnly
<1>5. CASE ParseButNot \/ ParseXor
  BY <1>5 DEF ParseButNot, ParseXor, CallOnly
<1>6. CASE ParseIndirect \/ ParseIgnore \/ ParseAction \/ ParseAttrBool
  BY <1>6 DEF ParseIndirect, ParseIgnore, ParseAction, ParseAttrBool, CallOnly
<1>7. CASE ParseGet \/ ParsePut
  BY <1>7 DEF ParseGet, ParsePut, CallOnly
<1>8. CASE ParsePermutation
  BY <1>8 DEF ParsePermutation, PermutationTail
<1>9. QED
  BY <1>1, <1>2, <1>3, <1>4, <1>5, <1>6, <1>7, <1>8 DEF Parse, ParseHigher

\* The step of the cache, as ResultsStay states it.
CacheStep == MemoStep(cache, cells, cache', cells')

LEMMA ParseStep ==
  ASSUME IInv, Parse, UNCHANGED memo_vars
  PROVE  IInv' /\ CacheStep
<1>1. UNCHANGED <<cache, cells, recursion_heads>>
  BY DEF memo_vars, tables, objects
<1>2. CacheStep
  BY <1>1, MemoSame DEF CacheStep
<1>3. MemoOK(cache', cells', next')
  BY <1>1, ParseFootprint DEF IInv, MemoOK
<1>4. StackOK(stack', cache', cells')
  BY <1>1, ParseFootprint DEF IInv
<1>5. Started'
  BY ParseFootprint DEF IInv, Started
<1>6. QED
  BY <1>2, <1>3, <1>4, <1>5 DEF IInv

\* The keys of the cache of a call.
LEMMA NotCached ==
  ASSUME IInv, NEW p
  PROVE  Cached(p) = NULL => Key(p) \notin DOMAIN cache
BY DEF IInv, MemoOK, Cached, Get, NULL

LEMMA CallStep ==
  ASSUME IInv,
         CallPrimitive \/ CallMiss \/ CallUninvolved \/ CallEval \/ CallHit
           \/ CallLeftRecursion
  PROVE  IInv' /\ CacheStep
<1> USE DEF memo_vars, tables, objects
<1>1. MemoOK(cache, cells, next) /\ StackOK(stack, cache, cells)
  BY DEF IInv
<1>2. CASE CallPrimitive \/ CallEval
  <2>1. UNCHANGED <<cache, cells, next>>
    BY <1>2 DEF CallPrimitive, CallEval
  <2>2. PICK how \in {"prim", "eval"} :
          \E old : stack' = Append(stack, Frame(arg, how, NULL, NULL, old, NULL))
    BY <1>2 DEF CallPrimitive, CallEval, Enter
  <2>3. PICK old : stack' = Append(stack, Frame(arg, how, NULL, NULL, old, NULL))
    BY <2>2
  <2>4. FrameOK(Frame(arg, how, NULL, NULL, old, NULL), cache, cells)
    BY DEF FrameOK, Frame
  <2>5. CacheStep
    BY <2>1, MemoSame DEF CacheStep
  <2>6. StackOK(stack', cache', cells') /\ stack' # <<>>
    BY <1>1, <2>1, <2>3, <2>4, MemoSame, StackPush
  <2>7. QED
    BY <1>1, <2>1, <2>5, <2>6 DEF IInv, Started
<1>3. CASE CallMiss
  <2>1. /\ cells' = Bind(cells, next + 1, cached_lr(next, input_stream))
        /\ cache' = Bind(cache, Key(arg), next + 1)
        /\ next' = next + 2
        /\ stack' = Append(stack, Frame(arg, "base", next, NULL, NULL, NULL))
        /\ Cached(arg) = NULL
    BY <1>3 DEF CallMiss, Enter
  <2>2. /\ MemoOK(cache', cells', next')
        /\ CacheStep
        /\ Key(arg) \in DOMAIN cache'
    BY <1>1, <2>1, NotCached, MemoRecursion DEF CacheStep
  <2>3. FrameOK(Frame(arg, "base", next, NULL, NULL, NULL), cache', cells')
    BY <2>2 DEF FrameOK, Frame, Key
  <2>4. StackOK(stack', cache', cells') /\ stack' # <<>>
    BY <1>1, <2>1, <2>2, <2>3, StackPush DEF CacheStep
  <2>5. QED
    BY <2>2, <2>4 DEF IInv, Started
<1>4. CASE CallUninvolved \/ CallHit \/ CallLeftRecursion
  <2>1. UNCHANGED <<cache, cells, stack>> /\ pc = "call" /\ next' \in {next, next + 1}
    BY <1>4 DEF CallUninvolved, CallHit, CallLeftRecursion, frame_vars
  <2>2. stack # <<>>
    <3>1. HeadHere # NULL \/ Cached(arg) # NULL
      BY <1>4 DEF CallUninvolved, CallHit, CallLeftRecursion
    <3>2. input_stream \in DOMAIN recursion_heads \/ Key(arg) \in DOMAIN cache
      BY <3>1 DEF Cached, HeadHere, Get
    <3>3. DOMAIN <<>> = {}
      OBVIOUS
    <3>4. QED
      BY <2>1, <3>2, <3>3 DEF IInv, Started
  <2>3. MemoOK(cache', cells', next') /\ CacheStep
    BY <1>1, <2>1, MemoSame DEF MemoOK, CacheStep
  <2>4. QED
    BY <1>1, <2>1, <2>2, <2>3 DEF IInv, Started
<1>5. QED
  BY <1>2, <1>3, <1>4

\* An activation ends, or its rule is grown once more.
LEMMA LeaveStep ==
  ASSUME IInv, pc = "return", MemoOK(cache', cells', next'), CacheStep,
         NEW r, NEW s, Leave(r, s)
  PROVE  IInv'
<1>1. stack # <<>>
  BY DEF IInv, Started
<1>2. /\ StackOK(stack', cache', cells')
      /\ stack' = <<>> => Len(stack) = 1
  BY <1>1, StackPop DEF IInv, CacheStep, Leave
<1>3. stack' = <<>> => pc' = "done"
  BY <1>2 DEF Leave
<1>4. QED
  BY <1>2, <1>3 DEF IInv, Started

LEMMA GrowStep ==
  ASSUME IInv, pc = "return", MemoOK(cache', cells', next'), CacheStep,
         HasResult(cache', cells', TopKey),
         NEW head, NEW old, NEW old_res, Grow(head, old, old_res)
  PROVE  IInv'
<1> DEFINE f == [p |-> Top.p, pos |-> Top.pos, how |-> "grow", lr |-> Top.lr,
                 head |-> head, old |-> old, old_res |-> old_res]
<1>1. stack # <<>>
  BY DEF IInv, Started
<1>2. stack' = ReplaceTop(stack, f)
  BY DEF Grow, ReplaceTop
<1>3. FrameOK(f, cache', cells')
  BY DEF FrameOK, TopKey
<1> HIDE DEF f
<1>4. StackOK(stack', cache', cells') /\ stack' # <<>>
  BY <1>1, <1>2, <1>3, StackReplace DEF IInv, CacheStep
<1>5. QED
  BY <1>4 DEF IInv, Started

LEMMA ReturnStep ==
  ASSUME IInv,
         ReturnPrimitive \/ ReturnEval \/ ReturnPlain \/ ReturnInvolved
           \/ ReturnHead \/ GrowAgain \/ GrowEnds
  PROVE  IInv' /\ CacheStep
<1>1. MemoOK(cache, cells, next)
  BY DEF IInv
<1>2. SameTypes(cells, cells)
  BY <1>1 DEF SameTypes, MemoOK
<1>3. SameTypes(cells, MovedCells)
  BY <1>1, MemoMoved DEF MovedCells
<1>4. CASE ReturnPrimitive
  <2>1. MemoOK(cache', cells', next') /\ CacheStep
    BY <1>1, <1>2, <1>4, MemoResult DEF ReturnPrimitive, CacheStep
  <2>2. QED
    BY <1>4, <2>1, LeaveStep DEF ReturnPrimitive
<1>5. CASE ReturnEval
  <2>1. MemoOK(cache', cells', next') /\ CacheStep
    <3>1. CASE Top.old = NULL
      BY <1>1, <1>2, <1>5, <3>1, MemoResult DEF ReturnEval, CacheStep
    <3>2. CASE Top.old # NULL
      BY <1>1, <1>5, <3>2, MemoReplaced DEF ReturnEval, CacheStep
    <3>3. QED
      BY <3>1, <3>2
  <2>2. QED
    BY <1>5, <2>1, LeaveStep DEF ReturnEval
<1>6. CASE ReturnPlain
  <2>1. MemoOK(cache', cells', next') /\ CacheStep
    BY <1>1, <1>3, <1>6, MemoResult DEF ReturnPlain, CacheStep
  <2>2. QED
    BY <1>6, <2>1, LeaveStep DEF ReturnPlain, BaseReturns
<1>7. CASE ReturnInvolved
  <2>1. MemoOK(cache', cells', next') /\ CacheStep
    BY <1>1, <1>3, <1>7, MemoSameTypes DEF ReturnInvolved, CacheStep
  <2>2. QED
    BY <1>7, <2>1, LeaveStep DEF ReturnInvolved, BaseReturns
<1>8. CASE ReturnHead
  <2>1. /\ MemoOK(cache', cells', next') /\ CacheStep
        /\ HasResult(cache', cells', TopKey)
    BY <1>1, <1>3, <1>8, MemoResult DEF ReturnHead, CacheStep
  <2>2. pc = "return"
    BY <1>8 DEF ReturnHead, BaseReturns
  <2>3. \/ Leave(NULL, input_stream)
        \/ Grow(lrs[Top.lr].head, next, Outcome)
    BY <1>8 DEF ReturnHead
  <2>4. QED
    BY <2>1, <2>2, <2>3, LeaveStep, GrowStep
<1>9. CASE GrowAgain
  <2>1. /\ MemoOK(cache', cells', next') /\ CacheStep
        /\ HasResult(cache', cells', TopKey)
    BY <1>1, <1>2, <1>9, MemoResult DEF GrowAgain, CacheStep
  <2>2. QED
    BY <1>9, <2>1, GrowStep DEF GrowAgain
<1>10. CASE GrowEnds
  <2>1. MemoOK(cache', cells', next') /\ CacheStep
    BY <1>1, <1>10, MemoSame DEF GrowEnds, objects, CacheStep
  <2>2. PICK r, s : Leave(r, s)
    BY <1>10 DEF GrowEnds
  <2>3. QED
    BY <1>10, <2>1, <2>2, LeaveStep DEF GrowEnds
<1>11. QED
  BY <1>4, <1>5, <1>6, <1>7, <1>8, <1>9, <1>10

-----------------------------------------------------------------------------
(* The theorems. *)

LEMMA InitIInv == Init => IInv
<1> SUFFICES ASSUME Init PROVE IInv
  OBVIOUS
<1>1. DOMAIN <<>> = {} /\ <<>> \in Seq({})
  OBVIOUS
<1>2. MemoOK(cache, cells, next)
  BY <1>1 DEF Init, MemoOK
<1>3. StackOK(stack, cache, cells)
  BY <1>1 DEF Init, StackOK, IsSequence
<1>4. QED
  BY <1>2, <1>3 DEF Init, IInv, Started

LEMMA NextIInv == IInv /\ [Next]_vars => IInv' /\ CacheStep
<1> SUFFICES ASSUME IInv, [Next]_vars PROVE IInv' /\ CacheStep
  OBVIOUS
<1>1. CASE UNCHANGED vars
  <2>1. UNCHANGED <<cache, cells, next, stack, pc, recursion_heads>>
    BY <1>1 DEF vars, memo_vars, tables, objects, frame_vars
  <2>2. QED
    BY <2>1, MemoSame DEF IInv, Started, CacheStep
<1>2. CASE Parse /\ UNCHANGED memo_vars
  BY <1>2, ParseStep
<1>3. CASE HDoParse
  BY <1>3, CallStep, ReturnStep DEF HDoParse
<1>4. QED
  BY <1>1, <1>2, <1>3 DEF Next, Halted

LEMMA IInvAlways == Spec => []IInv
BY InitIInv, NextIInv, PTL DEF Spec

\* When h_do_parse has run a rule, the rule still has an entry in the cache:
\* assert(cached != NULL) in h_do_parse never fails.
THEOREM PackratCached == Spec => []CachedAssert
<1>1. IInv => CachedAssert
  <2> SUFFICES ASSUME IInv, pc = "return", Top.how = "base"
               PROVE  TopKey \in DOMAIN cache
    BY DEF CachedAssert
  <2>1. stack # <<>>
    BY DEF IInv, Started
  <2>2. FrameOK(Top, cache, cells)
    BY <2>1, PopFrom DEF IInv, StackOK, Top
  <2>3. QED
    BY <2>2 DEF FrameOK, TopKey
<1>2. QED
  BY <1>1, IInvAlways, PTL

\* When grow takes its answer back from the cache it finds a result there:
\* errx("impossible match") is never reached.
THEOREM PackratNoImpossibleMatch == Spec => []ImpossibleMatch
<1>1. IInv => ImpossibleMatch
  <2> SUFFICES ASSUME IInv, pc = "return", Top.how = "grow"
               PROVE  IsResult(TopKey)
    BY DEF ImpossibleMatch
  <2>1. stack # <<>>
    BY DEF IInv, Started
  <2>2. FrameOK(Top, cache, cells)
    BY <2>1, PopFrom DEF IInv, StackOK, Top
  <2>3. QED
    BY <2>2 DEF FrameOK, TopKey, HasResult, IsResult
<1>2. QED
  BY <1>1, IInvAlways, PTL

\* No test of the packrat backend ends the program, for any grammar and input.
THEOREM PackratNoAbort == Spec => []NoAbort
BY PackratCached, PackratNoImpossibleMatch, PTL DEF NoAbort

\* No step of the parser drops a key from the cache or replaces a result in it
\* by a left recursion.
THEOREM PackratResultsStay == Spec => ResultsStay
<1> DEFINE Step == \A k \in DOMAIN cache :
                     k \in DOMAIN cache' /\ (IsResult(k) => IsResult(k)')
<1>1. IInv /\ [Next]_vars => [Step]_vars
  BY NextIInv DEF CacheStep, MemoStep, HasResult, IsResult
<1>2. QED
  BY <1>1, IInvAlways, PTL DEF Spec, ResultsStay

-----------------------------------------------------------------------------
(* The stack of left recursions.  Both stacks are ordered by address, so the *)
(* last left recursion is that of the last base frame, and popping one of    *)
(* each keeps them equal.                                                    *)

Base(s) == {m \in DOMAIN s : s[m].how = "base"}

LRMatch(s, l, n) ==
  /\ IsSequence(l)
  /\ \A j \in DOMAIN l : l[j] \in Nat /\ l[j] < n
  /\ {l[j] : j \in DOMAIN l} = {s[m].lr : m \in Base(s)}
  /\ \A i, j \in DOMAIN l : i < j => l[i] < l[j]
  /\ \A m, k \in Base(s) : m < k => s[m].lr < s[k].lr

LRInv == LRMatch(stack, lr_stack, next)

\* The base frames of two stacks are the same, or the last frame is one of the
\* first stack only.
SameBase(s, t) == Base(t) = Base(s) /\ \A m \in Base(s) : t[m] = s[m]

LostBase(s, t) ==
  /\ Len(s) \in Base(s) /\ Base(t) = Base(s) \ {Len(s)}
  /\ \A m \in Base(t) : t[m] = s[m]

LEMMA LRSame ==
  ASSUME NEW s, NEW t, NEW l, NEW n \in Nat, NEW k \in Nat, n <= k, LRMatch(s, l, n), SameBase(s, t)
  PROVE  LRMatch(t, l, k)
<1>1. {t[m].lr : m \in Base(t)} = {s[m].lr : m \in Base(s)}
  BY DEF SameBase
<1>2. \A j \in DOMAIN l : l[j] \in Nat /\ l[j] < k
  BY DEF LRMatch
<1>3. \A m, j \in Base(t) : m < j => t[m].lr < t[j].lr
  BY DEF LRMatch, SameBase
<1>4. QED
  BY <1>1, <1>2, <1>3 DEF LRMatch

\* A rule that is not in the cache is entered.
LEMMA LRPush ==
  ASSUME NEW s, IsSequence(s), NEW l, NEW n \in Nat, LRMatch(s, l, n),
         NEW f, f.how = "base", f.lr = n
  PROVE  LRMatch(Append(s, f), Append(l, n), n + 2)
<1> DEFINE t == Append(s, f)
           k == Append(l, n)
<1>1. /\ IsSequence(k) /\ Len(l) \in Nat /\ DOMAIN l = 1..Len(l)
      /\ DOMAIN k = 1 .. Len(l) + 1 /\ k[Len(l) + 1] = n
      /\ \A i \in 1..Len(l) : k[i] = l[i]
  BY AppendTo DEF LRMatch
<1>2. /\ Len(s) \in Nat /\ DOMAIN s = 1..Len(s)
      /\ DOMAIN t = 1 .. Len(s) + 1 /\ t[Len(s) + 1] = f
      /\ \A i \in 1..Len(s) : t[i] = s[i]
  BY AppendTo
<1> HIDE DEF t, k
<1>3. /\ Base(t) = Base(s) \cup {Len(s) + 1}
      /\ \A m \in Base(s) : m \in 1..Len(s) /\ t[m] = s[m]
  BY <1>2 DEF Base
<1>4. {k[j] : j \in DOMAIN k} = {l[j] : j \in DOMAIN l} \cup {n}
  BY <1>1
<1>5. {t[m].lr : m \in Base(t)} = {s[m].lr : m \in Base(s)} \cup {n}
  BY <1>2, <1>3
<1>6. \A j \in DOMAIN k : k[j] \in Nat /\ k[j] < n + 2
  BY <1>1 DEF LRMatch
<1>7. \A i, j \in DOMAIN k : i < j => k[i] < k[j]
  BY <1>1 DEF LRMatch
<1>8. \A m \in Base(s) : s[m].lr \in Nat /\ s[m].lr < n
  <2>1. \A m \in Base(s) : s[m].lr \in {l[j] : j \in DOMAIN l}
    BY DEF LRMatch
  <2>2. QED
    BY <2>1 DEF LRMatch
<1>9. \A m, j \in Base(t) : m < j => t[m].lr < t[j].lr
  <2> SUFFICES ASSUME NEW m \in Base(t), NEW j \in Base(t), m < j PROVE t[m].lr < t[j].lr
    OBVIOUS
  <2>1. m \in Base(s)
    BY <1>2, <1>3
  <2>2. CASE j = Len(s) + 1
    BY <1>2, <1>3, <1>8, <2>1, <2>2
  <2>3. CASE j \in Base(s)
    BY <1>3, <2>1, <2>3 DEF LRMatch
  <2>4. QED
    BY <1>3, <2>2, <2>3
<1>10. QED
  BY <1>1, <1>4, <1>5, <1>6, <1>7, <1>9 DEF LRMatch, t, k

\* Its activation is over, or it is grown: its left recursion is popped.
LEMMA LRPop ==
  ASSUME NEW s, IsSequence(s), NEW t, NEW l, NEW n \in Nat, LRMatch(s, l, n), LostBase(s, t),
         NEW free \in Nat, n <= free
  PROVE  LRMatch(t, SubSeq(l, 1, Len(l) - 1), free)
<1> DEFINE k == SubSeq(l, 1, Len(l) - 1)
           top == s[Len(s)].lr
<1>1. PICK e \in DOMAIN l : l[e] = top
  <2>1. top \in {s[m].lr : m \in Base(s)}
    BY DEF LostBase
  <2>2. QED
    BY <2>1 DEF LRMatch
<1>2. l # <<>>
  BY <1>1
<1>3. /\ IsSequence(k)
      /\ Len(l) \in Nat \ {0} /\ DOMAIN l = 1..Len(l) /\ DOMAIN k = 1 .. Len(l) - 1
      /\ \A i \in 1 .. Len(l) - 1 : k[i] = l[i]
  BY <1>2, PopFrom DEF LRMatch
<1> HIDE DEF k
<1>4. /\ \A m \in Base(s) : m \in Nat /\ m <= Len(s) /\ s[m].lr \in Nat
      /\ Len(s) \in Nat
  <2>1. Len(s) \in Nat /\ DOMAIN s = 1..Len(s)
    BY AppendTo
  <2>2. \A m \in Base(s) : m \in DOMAIN s
    BY DEF Base
  <2>3. \A m \in Base(s) : s[m].lr \in {l[j] : j \in DOMAIN l}
    BY DEF LRMatch
  <2>4. \A m \in Base(s) : s[m].lr \in Nat
    BY <2>3 DEF LRMatch
  <2>5. QED
    BY <2>1, <2>2, <2>4
<1>5. \A m \in Base(s) : m # Len(s) => s[m].lr < top
  BY <1>4 DEF LRMatch, LostBase
<1>6. l[Len(l)] = top
  <2>0. l[Len(l)] \in {l[j] : j \in DOMAIN l}
    BY <1>3
  <2>1. PICK m \in Base(s) : l[Len(l)] = s[m].lr
    BY <2>0 DEF LRMatch
  <2>2. e # Len(l) => top < l[Len(l)]
    BY <1>1, <1>3 DEF LRMatch
  <2>3. l[Len(l)] \in Nat /\ top \in Nat
    BY <1>1, <1>3 DEF LRMatch
  <2>4. QED
    BY <1>1, <1>5, <2>1, <2>2, <2>3
<1>7. {k[j] : j \in DOMAIN k} = {l[j] : j \in DOMAIN l} \ {top}
  <2>1. \A j \in 1 .. Len(l) - 1 : l[j] # top
    <3>1. \A j \in 1 .. Len(l) - 1 : j \in DOMAIN l /\ j < Len(l) /\ Len(l) \in DOMAIN l
      BY <1>3
    <3>2. \A j \in 1 .. Len(l) - 1 : l[j] \in Nat /\ l[j] < l[Len(l)]
      BY <3>1 DEF LRMatch
    <3>3. QED
      BY <1>6, <3>2
  <2>2. QED
    BY <1>3, <1>6, <2>1
<1>8. {t[m].lr : m \in Base(t)} = {s[m].lr : m \in Base(s)} \ {top}
  <2>1. \A m \in Base(s) : m # Len(s) => s[m].lr # top
    <3>1. top \in Nat
      BY <1>4 DEF LostBase
    <3>2. QED
      BY <1>4, <1>5, <3>1
  <2>2. QED
    BY <2>1 DEF LostBase
<1>9. \A j \in DOMAIN k : k[j] \in Nat /\ k[j] < free
  BY <1>3 DEF LRMatch
<1>10. \A i, j \in DOMAIN k : i < j => k[i] < k[j]
  BY <1>3 DEF LRMatch
<1>11. \A m, j \in Base(t) : m < j => t[m].lr < t[j].lr
  BY DEF LRMatch, LostBase
<1>12. QED
  BY <1>3, <1>7, <1>8, <1>9, <1>10, <1>11 DEF LRMatch, k

\* What the operations on the stack of activations do to its base frames.
LEMMA BasePush ==
  ASSUME NEW s, IsSequence(s), NEW f, f.how # "base"
  PROVE  SameBase(s, Append(s, f))
BY AppendTo DEF SameBase, Base

LEMMA BasePop ==
  ASSUME NEW s, IsSequence(s), s # <<>>
  PROVE  LET t == SubSeq(s, 1, Len(s) - 1)
         IN IF s[Len(s)].how = "base" THEN LostBase(s, t) ELSE SameBase(s, t)
<1> DEFINE t == SubSeq(s, 1, Len(s) - 1)
<1>1. /\ Len(s) \in Nat \ {0} /\ DOMAIN s = 1..Len(s) /\ DOMAIN t = 1 .. Len(s) - 1
      /\ \A i \in 1 .. Len(s) - 1 : t[i] = s[i]
  BY PopFrom
<1> HIDE DEF t
<1>2. Len(s) \in DOMAIN s /\ DOMAIN t = DOMAIN s \ {Len(s)} /\ \A i \in DOMAIN t : t[i] = s[i]
  BY <1>1
<1>3. IF s[Len(s)].how = "base" THEN LostBase(s, t) ELSE SameBase(s, t)
  BY <1>2 DEF LostBase, SameBase, Base
<1>4. QED
  BY <1>3 DEF t

LEMMA BaseReplace ==
  ASSUME NEW s, IsSequence(s), s # <<>>, NEW f, f.how # "base"
  PROVE  LET t == ReplaceTop(s, f)
         IN IF s[Len(s)].how = "base" THEN LostBase(s, t) ELSE SameBase(s, t)
<1> DEFINE t == ReplaceTop(s, f)
<1>1. /\ Len(s) \in Nat \ {0} /\ DOMAIN s = 1..Len(s)
      /\ DOMAIN t = DOMAIN s /\ t[Len(s)] = f
      /\ \A i \in 1 .. Len(s) - 1 : t[i] = s[i]
  BY PopFrom, ReplaceLast
<1> HIDE DEF t
<1>2. /\ Len(s) \in DOMAIN s /\ DOMAIN t = DOMAIN s /\ t[Len(s)].how # "base"
      /\ \A i \in DOMAIN t : i # Len(s) => t[i] = s[i]
  BY <1>1
<1>3. IF s[Len(s)].how = "base" THEN LostBase(s, t) ELSE SameBase(s, t)
  BY <1>2 DEF LostBase, SameBase, Base
<1>4. QED
  BY <1>3 DEF t

\* An activation that is not a base frame ends, or is grown once more.
LEMMA LRKept ==
  ASSUME IInv, LRInv, pc = "return", Top.how # "base", lr_stack' = lr_stack,
         next' \in {next, next + 1},
         \/ \E r, s : Leave(r, s)
         \/ \E head, old, old_res : Grow(head, old, old_res)
  PROVE  LRInv'
<1>1. IsSequence(stack) /\ stack # <<>> /\ next \in Nat
  BY DEF IInv, Started, StackOK, MemoOK
<1>2. SameBase(stack, stack')
  <2>1. CASE \E r, s : Leave(r, s)
    BY <1>1, <2>1, BasePop DEF Leave, Top
  <2>2. CASE \E head, old, old_res : Grow(head, old, old_res)
    <3>1. PICK head, old, old_res : Grow(head, old, old_res)
      BY <2>2
    <3> DEFINE f == [p |-> Top.p, pos |-> Top.pos, how |-> "grow", lr |-> Top.lr,
                     head |-> head, old |-> old, old_res |-> old_res]
    <3>2. stack' = ReplaceTop(stack, f)
      BY <3>1 DEF Grow, ReplaceTop
    <3>3. f.how # "base"
      OBVIOUS
    <3> HIDE DEF f
    <3>4. QED
      BY <1>1, <3>2, <3>3, BaseReplace DEF Top
  <2>3. QED
    BY <2>1, <2>2
<1>3. next' \in Nat /\ next <= next'
  BY <1>1
<1>4. QED
  BY <1>1, <1>2, <1>3, LRSame DEF LRInv

\* A base frame ends, or begins to grow.
LEMMA LRPopped ==
  ASSUME IInv, LRInv, pc = "return", Top.how = "base", lr_stack' = PopLR,
         next' \in {next, next + 1},
         \/ \E r, s : Leave(r, s)
         \/ \E head, old, old_res : Grow(head, old, old_res)
  PROVE  LRInv'
<1>1. IsSequence(stack) /\ stack # <<>> /\ next \in Nat
  BY DEF IInv, Started, StackOK, MemoOK
<1>2. LostBase(stack, stack')
  <2>1. CASE \E r, s : Leave(r, s)
    BY <1>1, <2>1, BasePop DEF Leave, Top
  <2>2. CASE \E head, old, old_res : Grow(head, old, old_res)
    <3>1. PICK head, old, old_res : Grow(head, old, old_res)
      BY <2>2
    <3> DEFINE f == [p |-> Top.p, pos |-> Top.pos, how |-> "grow", lr |-> Top.lr,
                     head |-> head, old |-> old, old_res |-> old_res]
    <3>2. stack' = ReplaceTop(stack, f)
      BY <3>1 DEF Grow, ReplaceTop
    <3>3. f.how # "base"
      OBVIOUS
    <3> HIDE DEF f
    <3>4. QED
      BY <1>1, <3>2, <3>3, BaseReplace DEF Top
  <2>3. QED
    BY <2>1, <2>2
<1>3. next' \in Nat /\ next <= next'
  BY <1>1
<1>4. QED
  BY <1>1, <1>2, <1>3, LRPop DEF LRInv, PopLR

LEMMA NextLRInv == IInv /\ LRInv /\ [Next]_vars => LRInv'
<1> SUFFICES ASSUME IInv, LRInv, [Next]_vars PROVE LRInv'
  OBVIOUS
<1>0. IsSequence(stack) /\ next \in Nat /\ SameBase(stack, stack)
  BY DEF IInv, StackOK, MemoOK, SameBase
<1>1. CASE UNCHANGED vars
  BY <1>1 DEF vars, memo_vars, tables, frame_vars, LRInv
<1>2. CASE Parse /\ UNCHANGED memo_vars
  <2>1. UNCHANGED <<stack, lr_stack>> /\ next' \in Nat /\ next <= next'
    BY <1>0, <1>2, ParseFootprint DEF memo_vars, tables
  <2>2. QED
    BY <1>0, <2>1, LRSame DEF LRInv
<1>3. CASE CallPrimitive \/ CallEval
  <2>1. UNCHANGED <<lr_stack, next>>
    BY <1>3 DEF CallPrimitive, CallEval, memo_vars, tables
  <2>2. PICK f : stack' = Append(stack, f) /\ f.how # "base"
    BY <1>3 DEF CallPrimitive, CallEval, Enter, Frame
  <2>3. SameBase(stack, stack')
    BY <1>0, <2>2, BasePush
  <2>4. QED
    BY <1>0, <2>1, <2>3, LRSame DEF LRInv
<1>4. CASE CallMiss
  <2>1. /\ lr_stack' = Append(lr_stack, next) /\ next' = next + 2
        /\ \E f : stack' = Append(stack, f) /\ f.how = "base" /\ f.lr = next
    BY <1>4 DEF CallMiss, Enter, Frame
  <2>2. QED
    BY <1>0, <2>1, LRPush DEF LRInv
<1>5. CASE CallUninvolved \/ CallHit \/ CallLeftRecursion
  <2>1. UNCHANGED <<stack, lr_stack>> /\ next' \in {next, next + 1}
    BY <1>5 DEF CallUninvolved, CallHit, CallLeftRecursion, frame_vars, memo_vars, tables
  <2>2. next' \in Nat /\ next <= next'
    BY <1>0, <2>1
  <2>3. QED
    BY <1>0, <2>1, <2>2, LRSame DEF LRInv
<1>6. CASE ReturnPrimitive \/ ReturnEval \/ GrowAgain \/ GrowEnds
  <2>1. /\ pc = "return" /\ Top.how # "base" /\ lr_stack' = lr_stack
        /\ next' \in {next, next + 1}
    BY <1>6 DEF ReturnPrimitive, ReturnEval, GrowAgain, GrowEnds
  <2>2. \/ \E r, s : Leave(r, s)
        \/ \E head, old, old_res : Grow(head, old, old_res)
    BY <1>6 DEF ReturnPrimitive, ReturnEval, GrowAgain, GrowEnds
  <2>3. QED
    BY <2>1, <2>2, LRKept
<1>7. CASE ReturnPlain \/ ReturnInvolved \/ ReturnHead
  <2>1. /\ pc = "return" /\ Top.how = "base" /\ lr_stack' = PopLR
        /\ next' \in {next, next + 1}
    BY <1>7 DEF ReturnPlain, ReturnInvolved, ReturnHead, BaseReturns
  <2>2. \/ \E r, s : Leave(r, s)
        \/ \E head, old, old_res : Grow(head, old, old_res)
    BY <1>7 DEF ReturnPlain, ReturnInvolved, ReturnHead
  <2>3. QED
    BY <2>1, <2>2, LRPopped
<1>8. QED
  BY <1>1, <1>2, <1>3, <1>4, <1>5, <1>6, <1>7 DEF Next, HDoParse, Halted

\* The left recursion h_do_parse pops is the one it pushed, for every grammar
\* and input, however often rules were evaluated again or grown in between.
THEOREM PackratLRStack == Spec => []LRStackMatches
<1>1. Init => LRInv
  <2> SUFFICES ASSUME Init PROVE LRInv
    OBVIOUS
  <2>1. DOMAIN <<>> = {} /\ <<>> \in Seq({})
    OBVIOUS
  <2>2. QED
    BY <2>1 DEF Init, LRInv, LRMatch, Base, IsSequence
<1>2. LRInv => LRStackMatches
  BY DEF LRInv, LRMatch, LRStackMatches, BaseFrames, Base
<1>3. QED
  BY <1>1, <1>2, IInvAlways, NextLRInv, PTL DEF Spec
-----------------------------------------------------------------------------
(* Recursion heads.  recall answers for every rule that is not involved in a *)
(* growing recursion, so h_do_parse enters a rule at the position of such a  *)
(* recursion only if the rule is involved and not in the cache.  There is    *)
(* none as long as a head lists rules at one position: each of them was met  *)
(* there.  lp and hp below are the positions of left recursions and heads.   *)

IsLR(l) == l = [seed |-> l.seed, rule |-> l.rule, head |-> l.head]
IsHead(h) == h = [head_parser |-> h.head_parser, involved_set |-> h.involved_set,
                  eval_set |-> h.eval_set]

\* A left recursion in the cache belongs to the position of its key,
Lefts(ca, ce, lr, lp) ==
  \A k \in DOMAIN ca : ce[ca[k]].type = "PC_LEFT" =>
    ce[ca[k]].left \in DOMAIN lr /\ lp[ce[ca[k]].left] = k[1]

\* its head to the same position,
LRsAt(lr, he, hp, lp) ==
  \A l \in DOMAIN lr :
    /\ IsLR(lr[l])
    /\ lr[l].head # NULL => lr[l].head \in DOMAIN he /\ hp[lr[l].head] = lp[l]

\* where every rule the head lists is in the cache.
Listed(he, ca, hp) ==
  \A h \in DOMAIN he :
    /\ IsHead(he[h])
    /\ \A r \in he[h].involved_set \cup {he[h].head_parser} : <<hp[h], r>> \in DOMAIN ca

\* The activation of a rule, and one that grows, are at these positions too.
FrameAt(f, lr, he, hp, lp) ==
  /\ f.how = "base" => f.lr \in DOMAIN lr /\ lp[f.lr] = f.pos /\ lr[f.lr].rule = f.p
  /\ f.how = "grow" => f.head \in DOMAIN he /\ hp[f.head] = f.pos

Places(ca, ce, lr, he, s, hp, lp) ==
  /\ Lefts(ca, ce, lr, lp) /\ LRsAt(lr, he, hp, lp) /\ Listed(he, ca, hp)
  /\ \A m \in DOMAIN s : FrameAt(s[m], lr, he, hp, lp)

Grows_(s) == {m \in DOMAIN s : s[m].how = "grow"}

\* What HeadsAreGrowing says, and that no rule was entered at the position of a
\* recursion that was already growing.
Growing(s, rh) ==
  /\ DOMAIN rh = {s[m].pos : m \in Grows_(s)}
  /\ \A m \in Grows_(s) : rh[s[m].pos] = s[m].head
  /\ \A m, n \in Grows_(s) : s[m].pos = s[n].pos => m = n
  /\ \A m \in Grows_(s), n \in Base(s) : m < n => s[m].pos # s[n].pos

Addresses(lr, he, n) == \A a \in DOMAIN lr \cup DOMAIN he : a \in Nat \ {0} /\ a < n

HeadInv ==
  ~strayed =>
    /\ Addresses(lrs, heads, next)
    /\ Growing(stack, recursion_heads)
    /\ \E hp, lp : Places(cache, cells, lrs, heads, stack, hp, lp)

-----------------------------------------------------------------------------
(* What the steps leave as it is. *)

\* No left recursion comes into the cache.
KeepsLeft(ca, ce, ca2, ce2) ==
  \A k \in DOMAIN ca2 : ce2[ca2[k]].type = "PC_LEFT" =>
    k \in DOMAIN ca /\ ce[ca[k]].type = "PC_LEFT" /\ ce2[ca2[k]].left = ce[ca[k]].left

\* Only seeds, and only eval sets, change.
SameRecs(lr, lr2) ==
  /\ DOMAIN lr2 = DOMAIN lr
  /\ \A l \in DOMAIN lr : IsLR(lr2[l]) /\ lr2[l].rule = lr[l].rule /\ lr2[l].head = lr[l].head

SameHeads(he, he2) ==
  /\ DOMAIN he2 = DOMAIN he
  /\ \A h \in DOMAIN he : /\ IsHead(he2[h]) /\ he2[h].head_parser = he[h].head_parser
                          /\ he2[h].involved_set = he[h].involved_set

LEMMA QuietPlaces ==
  ASSUME NEW ca, NEW ce, NEW ca2, NEW ce2, NEW lr, NEW lr2, NEW he, NEW he2, NEW s, NEW s2,
         NEW hp, NEW lp, Places(ca, ce, lr, he, s, hp, lp),
         KeepsLeft(ca, ce, ca2, ce2), MemoStep(ca, ce, ca2, ce2),
         SameRecs(lr, lr2), SameHeads(he, he2),
         \A m \in DOMAIN s2 : \/ \E k \in DOMAIN s : s2[m] = s[k]
                              \/ FrameAt(s2[m], lr, he, hp, lp)
  PROVE  Places(ca2, ce2, lr2, he2, s2, hp, lp)
<1>1. Lefts(ca2, ce2, lr2, lp)
  BY DEF Places, Lefts, KeepsLeft, SameRecs
<1>2. LRsAt(lr2, he2, hp, lp)
  BY DEF Places, LRsAt, SameRecs, SameHeads
<1>3. Listed(he2, ca2, hp)
  BY DEF Places, Listed, SameHeads, MemoStep
<1>4. \A m \in DOMAIN s2 : FrameAt(s2[m], lr, he, hp, lp)
  BY DEF Places
<1>5. \A m \in DOMAIN s2 : FrameAt(s2[m], lr2, he2, hp, lp)
  BY <1>4 DEF FrameAt, SameRecs, SameHeads
<1>6. QED
  BY <1>1, <1>2, <1>3, <1>5 DEF Places

LEMMA KeepsLeftSame ==
  ASSUME NEW ca, NEW ce
  PROVE  KeepsLeft(ca, ce, ca, ce)
BY DEF KeepsLeft

LEMMA KeepsLeftMoved ==
  ASSUME NEW ca, NEW ce, NEW n, MemoOK(ca, ce, n), NEW ce2, SameTypes(ce, ce2)
  PROVE  KeepsLeft(ca, ce, ca, ce2)
BY DEF KeepsLeft, SameTypes, MemoOK

LEMMA KeepsLeftResult ==
  ASSUME NEW ca, NEW ce, NEW n, MemoOK(ca, ce, n), NEW ce2, SameTypes(ce, ce2),
         NEW k, NEW r, NEW s
  PROVE  KeepsLeft(ca, ce, Bind(ca, k, n), Bind(ce2, n, cached_result(r, s)))
<1> DEFINE ca3 == Bind(ca, k, n)
           ce3 == Bind(ce2, n, cached_result(r, s))
<1>1. /\ DOMAIN ca3 = DOMAIN ca \cup {k}
      /\ ca3[k] = n
      /\ \A x \in DOMAIN ca : x # k => ca3[x] = ca[x]
  BY DEF Bind
<1>2. /\ ce3[n].type = "PC_RIGHT"
      /\ \A a \in DOMAIN ce : a # n => ce3[a] = ce2[a]
  BY DEF Bind, SameTypes, cached_result
<1>3. \A x \in DOMAIN ca : ca[x] \in DOMAIN ce /\ ca[x] # n
  BY DEF MemoOK
<1> HIDE DEF ca3, ce3
<1>4. KeepsLeft(ca, ce, ca3, ce3)
  BY <1>1, <1>2, <1>3 DEF KeepsLeft, SameTypes
<1>5. QED
  BY <1>4 DEF ca3, ce3

LEMMA KeepsLeftReplaced ==
  ASSUME NEW ca, NEW ce, NEW n, MemoOK(ca, ce, n), NEW a, NEW r, NEW s
  PROVE  KeepsLeft(ca, ce, ca, [ce EXCEPT ![a] = cached_result(r, s)])
<1> DEFINE ce2 == [ce EXCEPT ![a] = cached_result(r, s)]
<1>1. \A b \in DOMAIN ce : ce2[b] = ce[b] \/ ce2[b] = cached_result(r, s)
  OBVIOUS
<1>2. cached_result(r, s).type = "PC_RIGHT"
  BY DEF cached_result
<1> HIDE DEF ce2
<1>3. KeepsLeft(ca, ce, ca, ce2)
  BY <1>1, <1>2 DEF KeepsLeft, MemoOK
<1>4. QED
  BY <1>3 DEF ce2

SeedSet(lr, l, r) == [lr EXCEPT ![l].seed = r]

LEMMA SeedOnly ==
  ASSUME NEW lr, \A x \in DOMAIN lr : IsLR(lr[x]), NEW l, NEW r
  PROVE  SameRecs(lr, SeedSet(lr, l, r))
<1> DEFINE lr2 == SeedSet(lr, l, r)
<1>1. /\ DOMAIN lr2 = DOMAIN lr
      /\ \A x \in DOMAIN lr : lr2[x] = IF x = l THEN [lr[x] EXCEPT !.seed = r] ELSE lr[x]
  BY DEF SeedSet
<1>2. ASSUME NEW y, IsLR(y)
      PROVE  LET z == [y EXCEPT !.seed = r] IN IsLR(z) /\ z.rule = y.rule /\ z.head = y.head
  BY <1>2 DEF IsLR
<1> HIDE DEF lr2
<1>3. SameRecs(lr, lr2)
  BY <1>1, <1>2 DEF SameRecs
<1>4. QED
  BY <1>3 DEF lr2

EvalSetTo(he, h, e) == [he EXCEPT ![h].eval_set = e]

LEMMA EvalSetOnly ==
  ASSUME NEW he, \A x \in DOMAIN he : IsHead(he[x]), NEW h, NEW e
  PROVE  SameHeads(he, EvalSetTo(he, h, e))
<1> DEFINE he2 == EvalSetTo(he, h, e)
<1>1. /\ DOMAIN he2 = DOMAIN he
      /\ \A x \in DOMAIN he : he2[x] = IF x = h THEN [he[x] EXCEPT !.eval_set = e] ELSE he[x]
  BY DEF EvalSetTo
<1>2. ASSUME NEW y, IsHead(y)
      PROVE  LET z == [y EXCEPT !.eval_set = e]
             IN IsHead(z) /\ z.head_parser = y.head_parser /\ z.involved_set = y.involved_set
  BY <1>2 DEF IsHead
<1> HIDE DEF he2
<1>3. SameHeads(he, he2)
  BY <1>1, <1>2 DEF SameHeads
<1>4. QED
  BY <1>3 DEF he2

-----------------------------------------------------------------------------
(* What happens to the frames that grow. *)

\* The growing frames stay, and no base frame is added.
LEMMA GrowingSame ==
  ASSUME NEW s, NEW t, NEW rh, Growing(s, rh), Grows_(t) = Grows_(s),
         Base(t) \subseteq Base(s), \A m \in Grows_(s) \cup Base(t) : t[m] = s[m]
  PROVE  Growing(t, rh)
<1>1. {t[m].pos : m \in Grows_(t)} = {s[m].pos : m \in Grows_(s)}
  OBVIOUS
<1>2. QED
  BY <1>1 DEF Growing

LEMMA GrowingPush ==
  ASSUME NEW s, IsSequence(s), NEW rh, Growing(s, rh), NEW f,
         f.how # "grow", f.how = "base" => f.pos \notin DOMAIN rh
  PROVE  Growing(Append(s, f), rh)
<1> DEFINE t == Append(s, f)
           n == Len(s) + 1
<1>1. /\ DOMAIN s = 1..Len(s) /\ Len(s) \in Nat /\ DOMAIN t = 1..n
      /\ \A i \in 1..Len(s) : t[i] = s[i]
      /\ t[n] = f
  BY AppendTo
<1> HIDE DEF t
<1>2. n \notin DOMAIN s /\ DOMAIN t = DOMAIN s \cup {n} /\ \A i \in DOMAIN s : i < n /\ t[i] = s[i]
  BY <1>1
<1> HIDE DEF n
<1>3. Grows_(t) = Grows_(s)
  BY <1>1, <1>2 DEF Grows_
<1>4. CASE f.how # "base"
  <2>1. Base(t) = Base(s)
    BY <1>1, <1>2, <1>4 DEF Base
  <2>2. \A m \in Grows_(s) \cup Base(t) : t[m] = s[m]
    BY <1>2, <2>1 DEF Grows_, Base
  <2>3. QED
    BY <1>3, <2>1, <2>2, GrowingSame DEF t
<1>5. CASE f.how = "base"
  <2>1. Base(t) = Base(s) \cup {n}
    BY <1>1, <1>2, <1>5 DEF Base
  <2>2. \A m \in Grows_(s) \cup Base(s) : t[m] = s[m] /\ m \in DOMAIN s
    BY <1>2 DEF Grows_, Base
  <2>3. {t[m].pos : m \in Grows_(t)} = {s[m].pos : m \in Grows_(s)}
    BY <1>3, <2>2
  <2>4. \A m \in Grows_(s) : s[m].pos \in DOMAIN rh
    BY DEF Growing
  <2>5. \A m \in Grows_(t), j \in Base(t) : m < j => t[m].pos # t[j].pos
    <3> SUFFICES ASSUME NEW m \in Grows_(t), NEW j \in Base(t), m < j
                 PROVE  t[m].pos # t[j].pos
      OBVIOUS
    <3>1. CASE j = n
      BY <1>1, <1>3, <1>5, <2>2, <2>4, <3>1
    <3>2. CASE j # n
      BY <1>3, <2>1, <2>2, <3>2 DEF Growing
    <3>3. QED
      BY <3>1, <3>2
  <2>6. QED
    BY <1>3, <2>2, <2>3, <2>5 DEF Growing, t
<1>6. QED
  BY <1>4, <1>5

LEMMA GrowingPop ==
  ASSUME NEW s, IsSequence(s), s # <<>>, NEW rh, Growing(s, rh)
  PROVE  LET t == SubSeq(s, 1, Len(s) - 1)
             f == s[Len(s)]
         IN  Growing(t, IF f.how = "grow" THEN [x \in DOMAIN rh \ {f.pos} |-> rh[x]] ELSE rh)
<1> DEFINE t == SubSeq(s, 1, Len(s) - 1)
           n == Len(s)
           f == s[n]
           rh2 == [x \in DOMAIN rh \ {f.pos} |-> rh[x]]
<1>1. /\ n \in Nat \ {0} /\ DOMAIN s = 1..n /\ DOMAIN t = 1 .. n - 1
      /\ \A i \in 1 .. n - 1 : t[i] = s[i]
  BY PopFrom
<1> HIDE DEF t
<1>2. n \in DOMAIN s /\ DOMAIN t = DOMAIN s \ {n} /\ \A i \in DOMAIN t : t[i] = s[i]
  BY <1>1
<1>3. Base(t) \subseteq Base(s) /\ \A m \in Base(t) \cup Grows_(t) : t[m] = s[m]
  BY <1>2 DEF Base, Grows_
<1>4. CASE f.how # "grow"
  <2>1. Grows_(t) = Grows_(s)
    BY <1>2, <1>4 DEF Grows_
  <2>2. Growing(t, rh)
    BY <1>3, <2>1, GrowingSame
  <2>3. QED
    BY <1>4, <2>2 DEF t
<1>5. CASE f.how = "grow"
  <2>1. Grows_(t) = Grows_(s) \ {n} /\ n \in Grows_(s)
    BY <1>2, <1>5 DEF Grows_
  <2>2. DOMAIN rh2 = DOMAIN rh \ {f.pos} /\ \A x \in DOMAIN rh2 : rh2[x] = rh[x]
    OBVIOUS
  <2> HIDE DEF rh2
  <2>3. \A m \in Grows_(t) : s[m].pos # f.pos /\ s[m].pos \in DOMAIN rh
    BY <2>1 DEF Growing
  <2>4. DOMAIN rh = {s[m].pos : m \in Grows_(s)}
    BY DEF Growing
  <2>5. DOMAIN rh2 = {s[m].pos : m \in Grows_(t)}
    <3>1. \A x \in DOMAIN rh : x # f.pos => x \in {s[m].pos : m \in Grows_(t)}
      BY <2>1, <2>4
    <3>2. QED
      BY <2>2, <2>3, <3>1
  <2>6. {t[m].pos : m \in Grows_(t)} = {s[m].pos : m \in Grows_(t)}
    BY <1>3
  <2>7. \A m \in Grows_(t) : rh2[t[m].pos] = t[m].head
    BY <1>3, <2>1, <2>2, <2>3 DEF Growing
  <2>8. Growing(t, rh2)
    BY <1>3, <2>1, <2>5, <2>6, <2>7 DEF Growing
  <2>9. QED
    BY <1>5, <2>8 DEF t, rh2
<1>6. QED
  BY <1>4, <1>5

LEMMA GrowingReplace ==
  ASSUME NEW s, IsSequence(s), s # <<>>, NEW rh, Growing(s, rh),
         s[Len(s)].how \in {"base", "grow"},
         NEW f, f.how = "grow", f.pos = s[Len(s)].pos
  PROVE  Growing(ReplaceTop(s, f), Bind(rh, f.pos, f.head))
<1> DEFINE t == ReplaceTop(s, f)
           n == Len(s)
           rh2 == Bind(rh, f.pos, f.head)
<1>1. /\ n \in Nat \ {0} /\ DOMAIN s = 1..n /\ DOMAIN t = DOMAIN s /\ t[n] = f
      /\ \A i \in 1 .. n - 1 : t[i] = s[i]
  BY PopFrom, ReplaceLast
<1> HIDE DEF t
<1>2. n \in DOMAIN s /\ \A i \in DOMAIN s : i <= n /\ (i # n => i < n /\ t[i] = s[i])
  BY <1>1
<1>a. \A i \in DOMAIN s : ~(n < i)
  BY <1>1
<1>3. /\ DOMAIN rh2 = DOMAIN rh \cup {f.pos} /\ rh2[f.pos] = f.head
      /\ \A x \in DOMAIN rh : x # f.pos => rh2[x] = rh[x]
  BY DEF Bind
<1> HIDE DEF rh2
<1>4. /\ Grows_(t) = Grows_(s) \cup {n}
      /\ Base(t) = Base(s) \ {n}
      /\ n \in Base(s) \/ n \in Grows_(s)
  BY <1>1, <1>2 DEF Grows_, Base
<1>5. \A m \in Grows_(s) \cup Base(s) : m # n => t[m] = s[m] /\ m < n
  BY <1>2 DEF Grows_, Base
<1>6. \A m \in Grows_(s) : m # n => s[m].pos # f.pos /\ s[m].pos \in DOMAIN rh
  BY <1>4, <1>5 DEF Growing
<1>7. DOMAIN rh2 = {t[m].pos : m \in Grows_(t)}
  <2>1. DOMAIN rh = {s[m].pos : m \in Grows_(s)}
    BY DEF Growing
  <2>2. \A m \in Grows_(t) : t[m].pos \in DOMAIN rh2
    BY <1>1, <1>3, <1>4, <1>5, <1>6
  <2>3. f.pos \in {t[m].pos : m \in Grows_(t)}
    BY <1>1, <1>4
  <2>4. \A m \in Grows_(s) : s[m].pos \in {t[k].pos : k \in Grows_(t)}
    BY <1>4, <1>5, <2>3
  <2>5. QED
    BY <1>3, <2>1, <2>2, <2>3, <2>4
<1>8. \A m \in Grows_(t) : rh2[t[m].pos] = t[m].head
  <2> SUFFICES ASSUME NEW m \in Grows_(t) PROVE rh2[t[m].pos] = t[m].head
    OBVIOUS
  <2>1. CASE m = n
    BY <1>1, <1>3, <2>1
  <2>2. CASE m # n
    BY <1>3, <1>4, <1>5, <1>6, <2>2 DEF Growing
  <2>3. QED
    BY <2>1, <2>2
<1>9. \A m, k \in Grows_(t) : t[m].pos = t[k].pos => m = k
  BY <1>1, <1>4, <1>5, <1>6 DEF Growing
<1>10. \A m \in Grows_(t), k \in Base(t) : m < k => t[m].pos # t[k].pos
  <2> SUFFICES ASSUME NEW m \in Grows_(t), NEW k \in Base(t), m < k
               PROVE  t[m].pos # t[k].pos
    OBVIOUS
  <2>1. m # n
    BY <1>a, <1>4 DEF Base
  <2>2. QED
    BY <1>4, <1>5, <2>1 DEF Growing
<1>11. Growing(t, rh2)
  BY <1>7, <1>8, <1>9, <1>10 DEF Growing
<1>12. QED
  BY <1>11 DEF t, rh2

-----------------------------------------------------------------------------
(* The steps that list rules: a rule is entered, or found to be left         *)
(* recursive.                                                                *)

NewLR(p) == [seed |-> NULL, rule |-> p, head |-> NULL]

LEMMA EnteredPlaces ==
  ASSUME NEW ca, NEW ce, NEW lr, NEW he, NEW s, NEW hp, NEW lp, NEW n,
         Places(ca, ce, lr, he, s, hp, lp), MemoOK(ca, ce, n), Addresses(lr, he, n),
         IsSequence(s), NEW p, NEW in, <<in, p>> \notin DOMAIN ca,
         NEW f, f.how = "base", f.lr = n, f.p = p, f.pos = in
  PROVE  \E lp2 : Places(Bind(ca, <<in, p>>, n + 1), Bind(ce, n + 1, cached_lr(n, in)),
                         Bind(lr, n, NewLR(p)), he, Append(s, f), hp, lp2)
<1> DEFINE k == <<in, p>>
           ca2 == Bind(ca, k, n + 1)
           ce2 == Bind(ce, n + 1, cached_lr(n, in))
           lr2 == Bind(lr, n, NewLR(p))
           s2 == Append(s, f)
           lp2 == [x \in DOMAIN lr \cup {n} |-> IF x = n THEN in ELSE lp[x]]
<1>1. n \in Nat /\ n \notin DOMAIN lr /\ n + 1 # n
  BY DEF MemoOK, Addresses
<1>2. /\ DOMAIN ca2 = DOMAIN ca \cup {k} /\ ca2[k] = n + 1
      /\ \A x \in DOMAIN ca : ca2[x] = ca[x]
  BY DEF Bind
<1>3. /\ ce2[n + 1].left = n
      /\ \A a \in DOMAIN ce : a # n + 1 => ce2[a] = ce[a]
  BY DEF Bind, cached_lr
<1>4. \A x \in DOMAIN ca : ca[x] \in DOMAIN ce /\ ca[x] # n + 1
  BY DEF MemoOK
<1>5. /\ DOMAIN lr2 = DOMAIN lr \cup {n} /\ lr2[n] = NewLR(p)
      /\ \A l \in DOMAIN lr : lr2[l] = lr[l]
  BY <1>1 DEF Bind
<1>6. lp2[n] = in /\ \A l \in DOMAIN lr : lp2[l] = lp[l]
  BY <1>1
<1>7. /\ DOMAIN s2 = DOMAIN s \cup {Len(s) + 1} /\ s2[Len(s) + 1] = f
      /\ \A m \in DOMAIN s : s2[m] = s[m]
  BY AppendTo
<1>8. k[1] = in
  OBVIOUS
<1> HIDE DEF k, ca2, ce2, lr2, s2, lp2
<1>9. Lefts(ca2, ce2, lr2, lp2)
  BY <1>2, <1>3, <1>4, <1>5, <1>6, <1>8 DEF Places, Lefts
<1>10. LRsAt(lr2, he, hp, lp2)
  BY <1>5, <1>6 DEF Places, LRsAt, IsLR, NewLR
<1>11. Listed(he, ca2, hp)
  BY <1>2 DEF Places, Listed
<1>12. \A m \in DOMAIN s2 : FrameAt(s2[m], lr2, he, hp, lp2)
  BY <1>5, <1>6, <1>7 DEF Places, FrameAt, NewLR
<1>13. Places(ca2, ce2, lr2, he, s2, hp, lp2)
  BY <1>9, <1>10, <1>11, <1>12 DEF Places
<1>14. \E x : Places(ca2, ce2, lr2, he, s2, hp, x)
  BY <1>13
<1>15. QED
  BY <1>14 DEF k, ca2, ce2, lr2, s2

\* The head of a recursion, with the rules that setupLR adds to it.
HeadWith(old, rules) == [old EXCEPT !.involved_set = @ \cup rules]

\* What setupLR does when every rule it visits is at its own position, in: rec
\* and the left recursions V get the head h.
Marking(ca, lr, he, lp, n, in, p, rec, V, h, old, rules, lr2) ==
  /\ n \notin DOMAIN he /\ <<in, p>> \in DOMAIN ca
  /\ rec \in DOMAIN lr /\ lp[rec] = in
  /\ \A l \in V : l \in DOMAIN lr /\ lp[l] = in /\ <<in, lr[l].rule>> \in DOMAIN ca
  /\ h # NULL /\ h = IF lr[rec].head = NULL THEN n ELSE lr[rec].head
  /\ old = IF lr[rec].head = NULL
             THEN [head_parser |-> p, involved_set |-> {}, eval_set |-> {}]
             ELSE he[h]
  /\ rules = {lr[l].rule : l \in V}
  /\ lr2 = [l \in DOMAIN lr |-> IF l \in V \cup {rec}
                                  THEN [lr[l] EXCEPT !.head = h] ELSE lr[l]]

LEMMA MarkedPlaces ==
  ASSUME NEW ca, NEW ce, NEW lr, NEW he, NEW s, NEW hp, NEW lp,
         Places(ca, ce, lr, he, s, hp, lp),
         NEW n, NEW in, NEW p, NEW rec, NEW V, NEW h, NEW old, NEW rules, NEW lr2,
         Marking(ca, lr, he, lp, n, in, p, rec, V, h, old, rules, lr2)
  PROVE  \E hp2 : Places(ca, ce, lr2, Bind(he, h, HeadWith(old, rules)), s, hp2, lp)
<1> DEFINE mark == HeadWith(old, rules)
           he2 == Bind(he, h, mark)
           hp2 == [x \in DOMAIN he \cup {h} |-> IF x = h THEN in ELSE hp[x]]
<1>0. /\ n \notin DOMAIN he /\ <<in, p>> \in DOMAIN ca
      /\ rec \in DOMAIN lr /\ lp[rec] = in
      /\ \A l \in V : l \in DOMAIN lr /\ lp[l] = in
      /\ h # NULL /\ h = IF lr[rec].head = NULL THEN n ELSE lr[rec].head
      /\ old = IF lr[rec].head = NULL
                 THEN [head_parser |-> p, involved_set |-> {}, eval_set |-> {}]
                 ELSE he[h]
  BY DEF Marking
<1>1. \A r \in rules : <<in, r>> \in DOMAIN ca
  BY DEF Marking
<1>2. /\ IsHead(old) /\ <<in, old.head_parser>> \in DOMAIN ca
      /\ \A r \in old.involved_set : <<in, r>> \in DOMAIN ca
  <2>1. CASE lr[rec].head = NULL
    BY <1>0, <2>1 DEF IsHead
  <2>2. CASE lr[rec].head # NULL
    <3>1. h \in DOMAIN he /\ hp[h] = in /\ old = he[h]
      BY <1>0, <2>2 DEF Places, LRsAt
    <3>2. QED
      BY <3>1 DEF Places, Listed
  <2>3. QED
    BY <2>1, <2>2
<1>3. IsHead(mark) /\ mark.head_parser = old.head_parser
      /\ mark.involved_set = old.involved_set \cup rules
  BY <1>2 DEF IsHead, HeadWith
<1> HIDE DEF mark
<1>4. /\ DOMAIN he2 = DOMAIN he \cup {h} /\ he2[h] = mark
      /\ \A x \in DOMAIN he : x # h => he2[x] = he[x]
  BY DEF Bind
<1>5. h \in DOMAIN he => hp[h] = in
  BY <1>0 DEF Places, LRsAt
<1>6. hp2[h] = in /\ \A x \in DOMAIN he : hp2[x] = hp[x]
  BY <1>5
<1>7. \A l \in DOMAIN lr : IsLR(lr[l])
  BY DEF Places, LRsAt
<1>8. ASSUME NEW y, IsLR(y)
      PROVE  LET z == [y EXCEPT !.head = h] IN IsLR(z) /\ z.rule = y.rule /\ z.head = h
  BY <1>8 DEF IsLR
<1>9. /\ DOMAIN lr2 = DOMAIN lr
      /\ \A l \in DOMAIN lr : /\ IsLR(lr2[l]) /\ lr2[l].rule = lr[l].rule
                              /\ lr2[l].head = (IF l \in V \cup {rec} THEN h ELSE lr[l].head)
  BY <1>7, <1>8 DEF Marking
<1> HIDE DEF he2, hp2
<1>10. Lefts(ca, ce, lr2, lp)
  BY <1>9 DEF Places, Lefts
<1>11. LRsAt(lr2, he2, hp2, lp)
  <2> SUFFICES ASSUME NEW l \in DOMAIN lr2, lr2[l].head # NULL
               PROVE  lr2[l].head \in DOMAIN he2 /\ hp2[lr2[l].head] = lp[l]
    BY <1>9 DEF LRsAt
  <2>1. CASE l \in V \cup {rec}
    BY <1>0, <1>4, <1>6, <1>9, <2>1
  <2>2. CASE l \notin V \cup {rec}
    BY <1>4, <1>6, <1>9, <2>2 DEF Places, LRsAt
  <2>3. QED
    BY <2>1, <2>2
<1>12. Listed(he2, ca, hp2)
  <2>1. \A x \in DOMAIN he2 : x = h \/ x \in DOMAIN he
    BY <1>4
  <2>2. IsHead(he2[h]) /\ \A r \in he2[h].involved_set \cup {he2[h].head_parser} :
                            <<hp2[h], r>> \in DOMAIN ca
    BY <1>1, <1>2, <1>3, <1>4, <1>6
  <2>3. \A x \in DOMAIN he : x # h =>
          IsHead(he2[x]) /\ \A r \in he2[x].involved_set \cup {he2[x].head_parser} :
                              <<hp2[x], r>> \in DOMAIN ca
    BY <1>4, <1>6 DEF Places, Listed
  <2>4. QED
    BY <2>1, <2>2, <2>3 DEF Listed
<1>13. \A m \in DOMAIN s : FrameAt(s[m], lr2, he2, hp2, lp)
  BY <1>4, <1>6, <1>9 DEF Places, FrameAt
<1>14. Places(ca, ce, lr2, he2, s, hp2, lp)
  BY <1>10, <1>11, <1>12, <1>13 DEF Places
<1>15. \E x : Places(ca, ce, lr2, he2, s, x, lp)
  BY <1>14
<1>16. QED
  BY <1>15 DEF he2, mark

-----------------------------------------------------------------------------
(* The steps of the parser. *)

LEMMA QuietStep ==
  ASSUME IInv, HeadInv, CacheStep, KeepsLeft(cache, cells, cache', cells'),
         strayed' = strayed, next' \in {next, next + 1},
         lrs' = lrs \/ \E l, r : lrs' = SeedSet(lrs, l, r),
         heads' = heads \/ \E h, e : heads' = EvalSetTo(heads, h, e),
         ~strayed => Growing(stack', recursion_heads'),
         \A hp, lp : ~strayed /\ Places(cache, cells, lrs, heads, stack, hp, lp) =>
           \A m \in DOMAIN stack' : \/ \E k \in DOMAIN stack : stack'[m] = stack[k]
                                    \/ FrameAt(stack'[m], lrs, heads, hp, lp)
  PROVE  HeadInv'
<1>1. DOMAIN lrs' = DOMAIN lrs /\ DOMAIN heads' = DOMAIN heads
  BY DEF SeedSet, EvalSetTo
<1>2. next \in Nat
  BY DEF IInv, MemoOK
<1>3. ~strayed => Addresses(lrs', heads', next')
  BY <1>1, <1>2 DEF HeadInv, Addresses
<1>4. ASSUME ~strayed
      PROVE  \E hp, lp : Places(cache', cells', lrs', heads', stack', hp, lp)
  <2>1. PICK hp, lp : Places(cache, cells, lrs, heads, stack, hp, lp)
    BY <1>4 DEF HeadInv
  <2>2. /\ \A l \in DOMAIN lrs : IsLR(lrs[l])
        /\ \A h \in DOMAIN heads : IsHead(heads[h])
    BY <2>1 DEF Places, LRsAt, Listed
  <2>3. SameRecs(lrs, lrs')
    <3>1. CASE lrs' = lrs
      BY <2>2, <3>1 DEF SameRecs
    <3>2. CASE \E l, r : lrs' = SeedSet(lrs, l, r)
      BY <2>2, <3>2, SeedOnly
    <3>3. QED
      BY <3>1, <3>2
  <2>4. SameHeads(heads, heads')
    <3>1. CASE heads' = heads
      BY <2>2, <3>1 DEF SameHeads
    <3>2. CASE \E h, e : heads' = EvalSetTo(heads, h, e)
      BY <2>2, <3>2, EvalSetOnly
    <3>3. QED
      BY <3>1, <3>2
  <2>5. \A m \in DOMAIN stack' : \/ \E k \in DOMAIN stack : stack'[m] = stack[k]
                                 \/ FrameAt(stack'[m], lrs, heads, hp, lp)
    BY <1>4, <2>1
  <2>6. Places(cache', cells', lrs', heads', stack', hp, lp)
    BY <2>1, <2>3, <2>4, <2>5, QuietPlaces DEF CacheStep
  <2>7. QED
    BY <2>6
<1>5. QED
  BY <1>3, <1>4 DEF HeadInv

\* An activation ends.
LEMMA LeaveHeads ==
  ASSUME IInv, HeadInv, CacheStep, KeepsLeft(cache, cells, cache', cells'),
         pc = "return", strayed' = strayed, next' \in {next, next + 1},
         lrs' = lrs \/ \E l, r : lrs' = SeedSet(lrs, l, r), heads' = heads,
         recursion_heads' = (IF Top.how = "grow" THEN WithoutHead ELSE recursion_heads),
         NEW r, NEW s, Leave(r, s)
  PROVE  HeadInv'
<1>1. stack # <<>> /\ IsSequence(stack)
  BY DEF IInv, Started, StackOK
<1>2. stack' = SubSeq(stack, 1, Len(stack) - 1)
  BY DEF Leave
<1>3. ~strayed => Growing(stack', recursion_heads')
  BY <1>1, <1>2, GrowingPop DEF HeadInv, Top, WithoutHead
<1>4. \A m \in DOMAIN stack' : m \in DOMAIN stack /\ stack'[m] = stack[m]
  BY <1>1, <1>2, PopFrom
<1>5. QED
  BY <1>3, <1>4, QuietStep

\* A rule is grown, and its recursion has the position of its activation.
LEMMA GrowHeads ==
  ASSUME IInv, HeadInv, CacheStep, KeepsLeft(cache, cells, cache', cells'),
         pc = "return", strayed' = strayed, next' \in {next, next + 1},
         lrs' = lrs \/ \E l, r : lrs' = SeedSet(lrs, l, r),
         Top.how \in {"base", "grow"},
         NEW head, NEW old, NEW old_res, Grow(head, old, old_res),
         \A hp, lp : ~strayed /\ Places(cache, cells, lrs, heads, stack, hp, lp) =>
                       head \in DOMAIN heads /\ hp[head] = Top.pos
  PROVE  HeadInv'
<1> DEFINE f == [p |-> Top.p, pos |-> Top.pos, how |-> "grow", lr |-> Top.lr,
                 head |-> head, old |-> old, old_res |-> old_res]
<1>1. stack # <<>> /\ IsSequence(stack)
  BY DEF IInv, Started, StackOK
<1>2. /\ stack' = ReplaceTop(stack, f)
      /\ recursion_heads' = Bind(recursion_heads, Top.pos, head)
      /\ heads' = EvalSetTo(heads, head, EvalSet(head))
  BY DEF Grow, ReplaceTop, EvalSetTo
<1>3. f.how = "grow" /\ f.pos = Top.pos /\ f.head = head
  OBVIOUS
<1> HIDE DEF f
<1>4. ~strayed => Growing(stack', recursion_heads')
  <2>1. ~strayed => Growing(ReplaceTop(stack, f), Bind(recursion_heads, f.pos, f.head))
    BY <1>1, <1>3, GrowingReplace DEF HeadInv, Top
  <2>2. QED
    BY <1>2, <1>3, <2>1
<1>5. \A m \in DOMAIN stack' : stack'[m] = f \/ (m \in DOMAIN stack /\ stack'[m] = stack[m])
  <2>1. /\ Len(stack) \in Nat \ {0} /\ DOMAIN stack = 1 .. Len(stack)
        /\ DOMAIN stack' = DOMAIN stack /\ stack'[Len(stack)] = f
        /\ \A i \in 1 .. Len(stack) - 1 : stack'[i] = stack[i]
    BY <1>1, <1>2, PopFrom, ReplaceLast
  <2>2. QED
    BY <2>1
<1>6. ASSUME NEW hp, NEW lp, ~strayed, Places(cache, cells, lrs, heads, stack, hp, lp)
      PROVE  FrameAt(f, lrs, heads, hp, lp)
  BY <1>3, <1>6 DEF FrameAt
<1>7. QED
  BY <1>2, <1>4, <1>5, <1>6, QuietStep

LEMMA CallHeads ==
  ASSUME IInv, LRInv, HeadInv, CacheStep,
         CallPrimitive \/ CallEval \/ CallUninvolved \/ CallHit
  PROVE  HeadInv'
<1> USE DEF memo_vars, tables, objects, frame_vars
<1>1. IsSequence(stack)
  BY DEF IInv, StackOK
<1>2. UNCHANGED <<cache, cells, recursion_heads, lrs, next, strayed>>
  BY DEF CallPrimitive, CallEval, CallUninvolved, CallHit
<1>3. KeepsLeft(cache, cells, cache', cells')
  BY <1>2, KeepsLeftSame
<1>4. CASE CallPrimitive \/ CallEval
  <2>1. PICK f : stack' = Append(stack, f) /\ f.how \in {"prim", "eval"}
    BY <1>4 DEF CallPrimitive, CallEval, Enter, Frame
  <2>2. heads' = heads \/ \E h, e : heads' = EvalSetTo(heads, h, e)
    BY <1>4 DEF CallPrimitive, CallEval, EvalSetTo
  <2>3. ~strayed => Growing(stack', recursion_heads')
    BY <1>1, <1>2, <2>1, GrowingPush DEF HeadInv
  <2>4. \A m \in DOMAIN stack' : stack'[m] = f \/ (m \in DOMAIN stack /\ stack'[m] = stack[m])
    BY <1>1, <2>1, AppendTo
  <2>5. \A hp, lp : FrameAt(f, lrs, heads, hp, lp)
    BY <2>1 DEF FrameAt
  <2>6. QED
    BY <1>2, <1>3, <2>2, <2>3, <2>4, <2>5, QuietStep
<1>5. CASE CallUninvolved \/ CallHit
  BY <1>2, <1>3, <1>5, QuietStep DEF CallUninvolved, CallHit, HeadInv
<1>6. QED
  BY <1>4, <1>5

\* No rule is entered at the position of a recursion that is growing: one that
\* is involved was met there before.
LEMMA MissNotGrowing ==
  ASSUME IInv, HeadInv, ~strayed, CallMiss
  PROVE  input_stream \notin DOMAIN recursion_heads
<1> SUFFICES ASSUME input_stream \in DOMAIN recursion_heads PROVE FALSE
  OBVIOUS
<1>1. PICK hp, lp : Places(cache, cells, lrs, heads, stack, hp, lp)
  BY DEF HeadInv
<1>2. PICK m \in Grows_(stack) : stack[m].pos = input_stream
  BY DEF HeadInv, Growing
<1>3. recursion_heads[input_stream] = stack[m].head
  BY <1>2 DEF HeadInv, Growing
<1>4. stack[m].head \in DOMAIN heads /\ hp[stack[m].head] = input_stream
  BY <1>1, <1>2 DEF Places, FrameAt, Grows_
<1>5. HeadHere = stack[m].head /\ HeadHere # NULL
  BY <1>3, <1>4 DEF HeadHere, Get, HeadInv, Addresses, NULL
<1>6. Involved(arg, HeadHere)
  BY <1>5 DEF CallMiss
<1>7. Key(arg) \in DOMAIN cache
  BY <1>1, <1>4, <1>5, <1>6 DEF Involved, Places, Listed, Key
<1>8. QED
  BY <1>7, NotCached DEF CallMiss

LEMMA MissHeads ==
  ASSUME IInv, HeadInv, CallMiss
  PROVE  HeadInv'
<1> DEFINE f == Frame(arg, "base", next, NULL, NULL, NULL)
<1>1. /\ stack' = Append(stack, f)
      /\ f.how = "base" /\ f.lr = next /\ f.p = arg /\ f.pos = input_stream
  BY DEF CallMiss, Enter, Frame
<1> HIDE DEF f
<1>2. /\ cache' = Bind(cache, <<input_stream, arg>>, next + 1)
      /\ cells' = Bind(cells, next + 1, cached_lr(next, input_stream))
      /\ lrs' = Bind(lrs, next, NewLR(arg))
      /\ next' = next + 2
      /\ UNCHANGED <<heads, recursion_heads, strayed>>
  BY DEF CallMiss, Key, NewLR
<1>3. IsSequence(stack) /\ MemoOK(cache, cells, next) /\ next \in Nat \ {0}
  BY DEF IInv, StackOK, MemoOK
<1>4. ~strayed => Addresses(lrs, heads, next)
  BY DEF HeadInv
<1>5. ~strayed => Addresses(lrs', heads', next')
  BY <1>2, <1>3, <1>4 DEF Addresses, Bind
<1>6. <<input_stream, arg>> \notin DOMAIN cache
  BY NotCached DEF CallMiss, Key
<1>7. ASSUME ~strayed
      PROVE  /\ Growing(stack', recursion_heads')
             /\ \E hp, lp : Places(cache', cells', lrs', heads', stack', hp, lp)
  <2>1. Growing(stack', recursion_heads')
    BY <1>1, <1>2, <1>3, <1>7, MissNotGrowing, GrowingPush DEF HeadInv
  <2>2. PICK hp, lp : Places(cache, cells, lrs, heads, stack, hp, lp)
    BY <1>7 DEF HeadInv
  <2>3. \E lp2 : Places(cache', cells', lrs', heads', stack', hp, lp2)
    BY <1>1, <1>2, <1>3, <1>4, <1>6, <1>7, <2>2, EnteredPlaces
  <2>4. QED
    BY <2>1, <2>3
<1>8. QED
  BY <1>2, <1>5, <1>7 DEF HeadInv

LEMMA LeftRecursionHeads ==
  ASSUME IInv, LRInv, HeadInv, CallLeftRecursion
  PROVE  HeadInv'
<1> DEFINE rec == cells[Cached(arg)].left
           h == IF lrs[rec].head = NULL THEN next ELSE lrs[rec].head
           V == {lr_stack[j] : j \in setupLR_visits(arg)}
           fresh == [head_parser |-> arg, involved_set |-> {}, eval_set |-> {}]
           old == IF lrs[rec].head = NULL THEN fresh ELSE heads[h]
           rules == {lrs[l].rule : l \in V}
<1>1. /\ heads' = Bind(heads, h, HeadWith(old, rules))
      /\ lrs' = [l \in DOMAIN lrs |-> IF l \in V \cup {rec}
                                        THEN [lrs[l] EXCEPT !.head = h] ELSE lrs[l]]
      /\ next' = IF lrs[rec].head = NULL THEN next + 1 ELSE next
      /\ strayed' = (strayed \/ \E n \in BaseFrames : /\ stack[n].lr \in V
                                                      /\ stack[n].pos # input_stream)
  BY DEF CallLeftRecursion, HeadWith
<1>2. /\ UNCHANGED <<cache, cells, stack, recursion_heads>>
      /\ Cached(arg) # NULL /\ cells[Cached(arg)].type = "PC_LEFT"
  BY DEF CallLeftRecursion, tables, frame_vars
<1>3. MemoOK(cache, cells, next) /\ next \in Nat \ {0}
  BY DEF IInv, MemoOK
<1>4. Key(arg) \in DOMAIN cache /\ Cached(arg) = cache[Key(arg)] /\ Key(arg)[1] = input_stream
  BY <1>2 DEF Cached, Get, Key
<1> HIDE DEF rec, h, V, fresh, old, rules
<1> SUFFICES ASSUME ~strayed'
             PROVE  /\ Addresses(lrs', heads', next')
                    /\ Growing(stack', recursion_heads')
                    /\ \E hp, lp : Places(cache', cells', lrs', heads', stack', hp, lp)
  BY DEF HeadInv
<1>5. ~strayed /\ \A n \in BaseFrames : stack[n].lr \in V => stack[n].pos = input_stream
  BY <1>1
<1>6. Addresses(lrs, heads, next) /\ Growing(stack, recursion_heads)
  BY <1>5 DEF HeadInv
<1>7. PICK hp, lp : Places(cache, cells, lrs, heads, stack, hp, lp)
  BY <1>5 DEF HeadInv
<1>8. rec \in DOMAIN lrs /\ lp[rec] = input_stream
  BY <1>2, <1>4, <1>7 DEF Places, Lefts, rec
<1>9. h \in Nat \ {0} /\ (h # next => h \in DOMAIN heads)
  BY <1>3, <1>6, <1>7, <1>8 DEF h, Places, LRsAt, Addresses
<1>10. Addresses(lrs', heads', next')
  <2>1. next' \in Nat /\ next <= next' /\ (h = next => next < next')
    <3>1. CASE lrs[rec].head = NULL
      BY <1>1, <1>3, <3>1
    <3>2. CASE lrs[rec].head # NULL
      BY <1>1, <1>3, <1>6, <1>7, <1>8, <3>2 DEF h, Places, LRsAt, Addresses
    <3>3. QED
      BY <3>1, <3>2
  <2>2. DOMAIN lrs' = DOMAIN lrs /\ DOMAIN heads' = DOMAIN heads \cup {h}
    BY <1>1 DEF Bind
  <2>3. \A a \in DOMAIN lrs \cup DOMAIN heads : a \in Nat \ {0} /\ a < next'
    BY <1>3, <1>6, <2>1 DEF Addresses
  <2>4. h < next'
    BY <1>9, <2>1, <2>3
  <2>5. QED
    BY <1>9, <2>2, <2>3, <2>4 DEF Addresses
<1>11. ASSUME NEW l \in V
       PROVE  /\ l \in DOMAIN lrs /\ lp[l] = input_stream
              /\ <<input_stream, lrs[l].rule>> \in DOMAIN cache
  <2>1. l \in {lr_stack[j] : j \in DOMAIN lr_stack}
    BY <1>11 DEF V, setupLR_visits
  <2>2. l \in {stack[m].lr : m \in Base(stack)}
    BY <2>1 DEF LRInv, LRMatch
  <2>3. PICK m \in Base(stack) : stack[m].lr = l
    BY <2>2
  <2>4. stack[m].pos = input_stream
    BY <1>5, <1>11, <2>3 DEF BaseFrames, Base
  <2>5. m \in DOMAIN stack /\ stack[m].how = "base"
    BY DEF Base
  <2>6. l \in DOMAIN lrs /\ lp[l] = input_stream /\ lrs[l].rule = stack[m].p
    BY <1>7, <2>3, <2>4, <2>5 DEF Places, FrameAt
  <2>7. <<stack[m].pos, stack[m].p>> \in DOMAIN cache
    BY <2>5 DEF IInv, StackOK, FrameOK
  <2>8. QED
    BY <2>4, <2>6, <2>7
<1>12. \E hp2 : Places(cache, cells, lrs', heads', stack, hp2, lp)
  <2>1. next \notin DOMAIN heads
    BY <1>3, <1>6 DEF Addresses
  <2>2. <<input_stream, arg>> \in DOMAIN cache
    BY <1>4 DEF Key
  <2>3. /\ h = (IF lrs[rec].head = NULL THEN next ELSE lrs[rec].head) /\ h # NULL
        /\ old = (IF lrs[rec].head = NULL
                    THEN [head_parser |-> arg, involved_set |-> {}, eval_set |-> {}]
                    ELSE heads[h])
    BY <1>9 DEF h, old, fresh, NULL
  <2>4. rules = {lrs[l].rule : l \in V}
    BY DEF rules
  <2>5. Marking(cache, lrs, heads, lp, next, input_stream, arg, rec, V, h, old, rules, lrs')
    BY <1>1, <1>8, <1>11, <2>1, <2>2, <2>3, <2>4 DEF Marking
  <2>6. QED
    BY <1>1, <1>7, <2>5, MarkedPlaces
<1>13. QED
  BY <1>2, <1>6, <1>10, <1>12

LEMMA ReturnHeads ==
  ASSUME IInv, HeadInv, CacheStep,
         ReturnPrimitive \/ ReturnEval \/ ReturnPlain \/ ReturnInvolved
           \/ ReturnHead \/ GrowAgain \/ GrowEnds
  PROVE  HeadInv'
<1>1. MemoOK(cache, cells, next)
  BY DEF IInv
<1>2. SameTypes(cells, cells) /\ SameTypes(cells, MovedCells)
  BY <1>1, MemoMoved DEF SameTypes, MemoOK, MovedCells
<1>3. CASE ReturnPrimitive
  <2>1. KeepsLeft(cache, cells, cache', cells')
    BY <1>1, <1>2, <1>3, KeepsLeftResult DEF ReturnPrimitive
  <2>2. QED
    BY <1>3, <2>1, LeaveHeads DEF ReturnPrimitive
<1>4. CASE ReturnEval
  <2>1. KeepsLeft(cache, cells, cache', cells')
    <3>1. CASE Top.old = NULL
      BY <1>1, <1>2, <1>4, <3>1, KeepsLeftResult DEF ReturnEval
    <3>2. CASE Top.old # NULL
      BY <1>1, <1>4, <3>2, KeepsLeftReplaced DEF ReturnEval
    <3>3. QED
      BY <3>1, <3>2
  <2>2. next' \in {next, next + 1}
    BY <1>4 DEF ReturnEval
  <2>3. QED
    BY <1>4, <2>1, <2>2, LeaveHeads DEF ReturnEval
<1>5. CASE ReturnPlain
  <2>1. KeepsLeft(cache, cells, cache', cells')
    BY <1>1, <1>2, <1>5, KeepsLeftResult DEF ReturnPlain
  <2>2. QED
    BY <1>5, <2>1, LeaveHeads DEF ReturnPlain, BaseReturns
<1>6. CASE ReturnInvolved
  <2>1. KeepsLeft(cache, cells, cache', cells')
    BY <1>1, <1>2, <1>6, KeepsLeftMoved DEF ReturnInvolved
  <2>2. lrs' = SeedSet(lrs, Top.lr, Outcome)
    BY <1>6 DEF ReturnInvolved, SeedSet
  <2>3. QED
    BY <1>6, <2>1, <2>2, LeaveHeads DEF ReturnInvolved, BaseReturns
<1>7. CASE ReturnHead
  <2>1. KeepsLeft(cache, cells, cache', cells')
    BY <1>1, <1>2, <1>7, KeepsLeftResult DEF ReturnHead
  <2>2. lrs' = SeedSet(lrs, Top.lr, Outcome)
    BY <1>7 DEF ReturnHead, SeedSet
  <2>3. /\ pc = "return" /\ Top.how = "base" /\ strayed' = strayed /\ next' = next + 1
        /\ lrs[Top.lr].head # NULL
    BY <1>7 DEF ReturnHead, BaseReturns
  <2>4. CASE Outcome = NULL
    BY <1>7, <2>1, <2>2, <2>3, <2>4, LeaveHeads DEF ReturnHead
  <2>5. CASE Outcome # NULL
    <3>1. Grow(lrs[Top.lr].head, next, Outcome)
      BY <1>7, <2>5 DEF ReturnHead
    <3>2. Len(stack) \in DOMAIN stack
      BY <2>3, PopFrom DEF IInv, Started, StackOK
    <3>3. ASSUME NEW hp, NEW lp, Places(cache, cells, lrs, heads, stack, hp, lp)
          PROVE  lrs[Top.lr].head \in DOMAIN heads /\ hp[lrs[Top.lr].head] = Top.pos
      <4>1. Top.lr \in DOMAIN lrs /\ lp[Top.lr] = Top.pos
        BY <2>3, <3>2, <3>3 DEF Top, Places, FrameAt
      <4>2. QED
        BY <2>3, <3>3, <4>1 DEF Places, LRsAt
    <3>4. QED
      BY <2>1, <2>2, <2>3, <3>1, <3>3, GrowHeads
  <2>6. QED
    BY <2>4, <2>5
<1>8. CASE GrowAgain
  <2>1. KeepsLeft(cache, cells, cache', cells')
    BY <1>1, <1>2, <1>8, KeepsLeftResult DEF GrowAgain
  <2>2. /\ pc = "return" /\ Top.how = "grow" /\ strayed' = strayed /\ next' = next + 1
        /\ lrs' = lrs /\ Grow(Top.head, next, Outcome)
    BY <1>8 DEF GrowAgain
  <2>3. Len(stack) \in DOMAIN stack
    BY <2>2, PopFrom DEF IInv, Started, StackOK
  <2>4. ASSUME NEW hp, NEW lp, Places(cache, cells, lrs, heads, stack, hp, lp)
        PROVE  Top.head \in DOMAIN heads /\ hp[Top.head] = Top.pos
    BY <2>2, <2>3, <2>4 DEF Top, Places, FrameAt
  <2>5. QED
    BY <2>1, <2>2, <2>4, GrowHeads
<1>9. CASE GrowEnds
  <2>1. /\ pc = "return" /\ Top.how = "grow" /\ recursion_heads' = WithoutHead
        /\ UNCHANGED <<cache, next, strayed, cells, lrs, heads>>
        /\ \E r, s : Leave(r, s)
    BY <1>9 DEF GrowEnds, objects
  <2>2. KeepsLeft(cache, cells, cache', cells')
    BY <2>1, KeepsLeftSame
  <2>3. QED
    BY <2>1, <2>2, LeaveHeads
<1>10. QED
  BY <1>3, <1>4, <1>5, <1>6, <1>7, <1>8, <1>9

LEMMA NextHeadInv == IInv /\ LRInv /\ HeadInv /\ [Next]_vars => HeadInv'
<1> SUFFICES ASSUME IInv, LRInv, HeadInv, [Next]_vars PROVE HeadInv'
  OBVIOUS
<1>1. CacheStep
  BY NextIInv
<1>2. CASE UNCHANGED vars
  BY <1>2 DEF vars, memo_vars, tables, objects, frame_vars, HeadInv
<1>3. CASE Parse /\ UNCHANGED memo_vars
  <2>1. /\ UNCHANGED <<cache, cells, recursion_heads, lrs, heads, strayed, stack>>
        /\ next' \in {next, next + 1}
    BY <1>3, ParseFootprint DEF memo_vars, tables, objects
  <2>2. KeepsLeft(cache, cells, cache', cells')
    BY <2>1, KeepsLeftSame
  <2>3. QED
    BY <1>1, <2>1, <2>2, QuietStep DEF HeadInv
<1>4. CASE HDoParse
  BY <1>1, <1>4, CallHeads, MissHeads, LeftRecursionHeads, ReturnHeads DEF HDoParse
<1>5. QED
  BY <1>2, <1>3, <1>4 DEF Next, Halted

\* recursion_heads holds the recursions that are growing and no other, and at
\* most one of them grows at a position, for every grammar and input on which
\* setupLR marks rules at its own position only.
THEOREM PackratHeads == Spec => []HeadsAreGrowing
<1>1. Init => LRInv /\ HeadInv
  <2> SUFFICES ASSUME Init PROVE LRInv /\ HeadInv
    OBVIOUS
  <2>1. DOMAIN <<>> = {} /\ <<>> \in Seq({})
    OBVIOUS
  <2>2. LRInv
    BY <2>1 DEF Init, LRInv, LRMatch, Base, IsSequence
  <2>3. Growing(<<>>, <<>>) /\ Addresses(<<>>, <<>>, 1)
    BY <2>1 DEF Growing, Grows_, Base, Addresses
  <2>4. Places(<<>>, <<>>, <<>>, <<>>, <<>>, <<>>, <<>>)
    BY <2>1 DEF Places, Lefts, LRsAt, Listed
  <2>5. QED
    BY <2>2, <2>3, <2>4 DEF Init, HeadInv
<1>2. HeadInv => HeadsAreGrowing
  BY DEF HeadInv, Growing, Grows_, HeadsAreGrowing, GrowFrames
<1>3. QED
  BY <1>1, <1>2, IInvAlways, NextLRInv, NextHeadInv, PTL DEF Spec
-----------------------------------------------------------------------------
(* Symbols.  A put binds its name after its inner parser has run, so what    *)
(* matters is which frames are below which: a frame runs parsers that can be *)
(* reached from the frames below it (Chain), and the names of the puts that  *)
(* have called their inner parser are free (Free).  Chain needs to know what *)
(* the parse functions call, for the repetitions from the local variable     *)
(* they keep their HRepeat in (LocalOK).                                     *)

RepeatOK(r, n) ==
  /\ r.p \in Children(n)
  /\ r.sep # <<>> => r.sep[1] \in Children(n)

LocalOK(l, n) ==
  /\ "i" \in DOMAIN l /\ "repeat" \in DOMAIN l
  /\ l.i \in Nat
  /\ l.repeat # <<>> => RepeatOK(l.repeat[1], n)
  /\ n.kind = "many" /\ l.i > 0 => l.repeat # <<>>

\* l2 has the fields of l, and i and repeat as given.
LocalLike(l, l2, i, repeat) ==
  /\ DOMAIN l2 = DOMAIN l
  /\ l2.i = i /\ l2.repeat = repeat

LEMMA LocalSet ==
  ASSUME NEW l, NEW n, LocalOK(l, n),
         NEW k, NEW a, NEW r, NEW s, NEW p, NEW b, NEW e
  PROVE  /\ LocalLike(l, [l EXCEPT !.i = k], k, l.repeat)
         /\ LocalLike(l, [l EXCEPT !.i = k, !.acc = a], k, l.repeat)
         /\ LocalLike(l, [l EXCEPT !.i = k, !.r1 = r], k, l.repeat)
         /\ LocalLike(l, [l EXCEPT !.i = k, !.r1 = r, !.after = s], k, l.repeat)
         /\ LocalLike(l, [l EXCEPT !.i = k, !.acc = a, !.path = p], k, l.repeat)
         /\ LocalLike(l, [l EXCEPT !.i = k, !.acc = a, !.bak = s, !.in_sep = b,
                                   !.repeat = e], k, e)
         /\ LocalLike(l, [l EXCEPT !.in_sep = b], l.i, l.repeat)
<1>1. "i" \in DOMAIN l /\ "repeat" \in DOMAIN l
  BY DEF LocalOK
<1>2. LocalLike(l, [l EXCEPT !.i = k], k, l.repeat)
  BY <1>1 DEF LocalLike
<1>3. LocalLike(l, [l EXCEPT !.i = k, !.acc = a], k, l.repeat)
  BY <1>1 DEF LocalLike
<1>4. LocalLike(l, [l EXCEPT !.i = k, !.r1 = r], k, l.repeat)
  BY <1>1 DEF LocalLike
<1>5. LocalLike(l, [l EXCEPT !.i = k, !.r1 = r, !.after = s], k, l.repeat)
  BY <1>1 DEF LocalLike
<1>6. LocalLike(l, [l EXCEPT !.i = k, !.acc = a, !.path = p], k, l.repeat)
  BY <1>1 DEF LocalLike
<1>7. LocalLike(l, [l EXCEPT !.i = k, !.acc = a, !.bak = s, !.in_sep = b,
                             !.repeat = e], k, e)
  BY <1>1 DEF LocalLike
<1>8. LocalLike(l, [l EXCEPT !.in_sep = b], l.i, l.repeat)
  BY <1>1 DEF LocalLike
<1>9. QED
  BY <1>2, <1>3, <1>4, <1>5, <1>6, <1>7, <1>8

LEMMA LocalKept ==
  ASSUME NEW l, NEW n, LocalOK(l, n), NEW l2, NEW k \in Nat,
         LocalLike(l, l2, k, l.repeat), n.kind = "many" => k = l.i
  PROVE  LocalOK(l2, n)
BY DEF LocalOK, LocalLike

LEMMA LocalAdvanced ==
  ASSUME NEW l, NEW n, LocalOK(l, n), NEW k \in Nat, n.kind # "many",
         NEW a, NEW r, NEW s, NEW p
  PROVE  /\ LocalOK([l EXCEPT !.i = k], n)
         /\ LocalOK([l EXCEPT !.i = k, !.acc = a], n)
         /\ LocalOK([l EXCEPT !.i = k, !.r1 = r], n)
         /\ LocalOK([l EXCEPT !.i = k, !.r1 = r, !.after = s], n)
         /\ LocalOK([l EXCEPT !.i = k, !.acc = a, !.path = p], n)
<1>0. \A l2 : LocalLike(l, l2, k, l.repeat) => LocalOK(l2, n)
  BY LocalKept
<1>1. LocalOK([l EXCEPT !.i = k], n)
  <2>1. LocalLike(l, [l EXCEPT !.i = k], k, l.repeat)
    BY LocalSet
  <2>2. QED
    BY <1>0, <2>1
<1>2. LocalOK([l EXCEPT !.i = k, !.acc = a], n)
  <2>1. LocalLike(l, [l EXCEPT !.i = k, !.acc = a], k, l.repeat)
    BY LocalSet
  <2>2. QED
    BY <1>0, <2>1
<1>3. LocalOK([l EXCEPT !.i = k, !.r1 = r], n)
  <2>1. LocalLike(l, [l EXCEPT !.i = k, !.r1 = r], k, l.repeat)
    BY LocalSet
  <2>2. QED
    BY <1>0, <2>1
<1>4. LocalOK([l EXCEPT !.i = k, !.r1 = r, !.after = s], n)
  <2>1. LocalLike(l, [l EXCEPT !.i = k, !.r1 = r, !.after = s], k, l.repeat)
    BY LocalSet
  <2>2. QED
    BY <1>0, <2>1
<1>5. LocalOK([l EXCEPT !.i = k, !.acc = a, !.path = p], n)
  <2>1. LocalLike(l, [l EXCEPT !.i = k, !.acc = a, !.path = p], k, l.repeat)
    BY LocalSet
  <2>2. QED
    BY <1>0, <2>1
<1>6. QED
  BY <1>1, <1>2, <1>3, <1>4, <1>5

LEMMA LocalRepeats ==
  ASSUME NEW l, NEW n, LocalOK(l, n), NEW k \in Nat, NEW r, RepeatOK(r, n),
         NEW a, NEW s, NEW b
  PROVE  LocalOK([l EXCEPT !.i = k, !.acc = a, !.bak = s, !.in_sep = b,
                           !.repeat = <<r>>], n)
<1> DEFINE l2 == [l EXCEPT !.i = k, !.acc = a, !.bak = s, !.in_sep = b,
                           !.repeat = <<r>>]
<1>1. LocalLike(l, l2, k, <<r>>)
  BY LocalSet
<1> HIDE DEF l2
<1>2. <<r>> # <<>> /\ <<r>>[1] = r
  OBVIOUS
<1>3. LocalOK(l2, n)
  BY <1>1, <1>2 DEF LocalOK, LocalLike
<1>4. QED
  BY <1>3 DEF l2

LEMMA LocalElement ==
  ASSUME NEW l, NEW n, LocalOK(l, n)
  PROVE  LocalOK([l EXCEPT !.in_sep = FALSE], n)
<1>1. l.i \in Nat
  BY DEF LocalOK
<1>2. QED
  BY <1>1, LocalSet, LocalKept

LEMMA LocalNew ==
  ASSUME NEW n
  PROVE  LocalOK(NewLocals, n) /\ NewLocals.i = 0
BY DEF NewLocals, LocalOK

LEMMA LocalAgain ==
  ASSUME NEW n, NEW s
  PROVE  LET l == [NewLocals EXCEPT !.bak = s, !.after = s]
         IN  LocalOK(l, n) /\ l.i = 0
<1> DEFINE l == [NewLocals EXCEPT !.bak = s, !.after = s]
<1>1. /\ "i" \in DOMAIN NewLocals /\ "repeat" \in DOMAIN NewLocals
      /\ NewLocals.i = 0 /\ NewLocals.repeat = <<>>
  BY DEF NewLocals
<1>2. /\ "i" \in DOMAIN l /\ "repeat" \in DOMAIN l
      /\ l.i = 0 /\ l.repeat = <<>>
  BY <1>1
<1> HIDE DEF l
<1>3. LocalOK(l, n) /\ l.i = 0
  BY <1>2 DEF LocalOK
<1>4. QED
  BY <1>3 DEF l

\* A step of a parse function calls an inner parser, takes back one of its own
\* activations, or returns.
Calls ==
  \E q, s, loc : /\ q \in Children(Env)
                 /\ LocalOK(loc, Env)
                 /\ CallParse(q, s, loc)

Stays ==
  \E loc : /\ LocalOK(loc, Env)
           /\ locals' = [locals EXCEPT ![Len(locals)] = loc]
           /\ pc' = "run" /\ Env.kind # "put"

Ends == pc' = "return" /\ UNCHANGED locals

LEMMA ChildrenOf ==
  ASSUME NEW n, NEW P, NodeOK(n, P)
  PROVE  /\ \A j \in DOMAIN n.sub : n.sub[j] \in Children(n)
         /\ \A j \in 1 .. Len(n.sub) : n.sub[j] \in Children(n)
         /\ n.kind \in WithOne => n.sub[1] \in Children(n)
         /\ n.kind \in WithTwo => n.sub[1] \in Children(n) /\ n.sub[2] \in Children(n)
         /\ n.kind = "many" /\ n.sep # <<>> => n.sep[1] \in Children(n)
         /\ Children(n) \subseteq P
         /\ Len(n.sub) \in Nat
BY DEF NodeOK, Children

LEMMA EndsBy ==
  ASSUME NEW r, NEW s, Return(r, s) \/ ReturnNew(r, s)
  PROVE  Ends
BY DEF Return, ReturnNew, Ends, frame_vars

LEMMA CallsOnly ==
  ASSUME NEW P, NodeOK(Env, P), LocalOK(Local, Env), CallOnly,
         Env.kind \in (WithOne \cup WithTwo) \ {"many"}
  PROVE  Calls
<1>1. Env.sub[1] \in Children(Env)
  BY ChildrenOf
<1>2. LocalOK([Local EXCEPT !.i = 1], Env)
  BY LocalAdvanced
<1>3. QED
  BY <1>1, <1>2 DEF CallOnly, Calls

LEMMA Iterates ==
  ASSUME LocalOK(Local, Env), NEW r, RepeatOK(r, Env), NEW count \in Nat,
         NEW acc, NEW s, Iterate(r, count, acc, s)
  PROVE  Calls \/ Ends
<1> DEFINE in_sep == count > 0 /\ r.sep # <<>>
           q == IF in_sep THEN r.sep[1] ELSE r.p
           loc == [Local EXCEPT !.i = count + 1, !.acc = acc, !.bak = s,
                                !.in_sep = in_sep, !.repeat = <<r>>]
<1>1. CallParse(q, s, loc) \/ ReturnNew(Seq_(acc), s)
  BY DEF Iterate
<1>2. q \in Children(Env)
  BY DEF RepeatOK
<1> HIDE DEF in_sep
<1>3. LocalOK(loc, Env)
  <2>1. count + 1 \in Nat
    OBVIOUS
  <2>2. QED
    BY <2>1, LocalRepeats
<1> HIDE DEF q, loc
<1>4. QED
  BY <1>1, <1>2, <1>3, EndsBy DEF Calls

LEMMA Repeats_ ==
  ASSUME LocalOK(Local, Env), Local.repeat # <<>>, RepeatReturns
  PROVE  Calls \/ Ends
<1> DEFINE r == Local.repeat[1]
<1>1. RepeatOK(r, Env) /\ Local.i \in Nat
  BY DEF LocalOK
<1>2. \/ CallParse(r.p, input_stream, [Local EXCEPT !.in_sep = FALSE])
      \/ Iterate(r, Local.i, PushAst(Local.acc, ret), input_stream)
      \/ ReturnNew(Seq_(Local.acc), Local.bak)
      \/ Return(NULL, Local.bak)
  BY DEF RepeatReturns
<1>3. r.p \in Children(Env)
  BY <1>1 DEF RepeatOK
<1> HIDE DEF r
<1>4. LocalOK([Local EXCEPT !.in_sep = FALSE], Env)
  BY LocalElement
<1>5. QED
  BY <1>1, <1>2, <1>3, <1>4, Iterates, EndsBy DEF Calls

LEMMA Permutes ==
  ASSUME NEW P, NodeOK(Env, P), LocalOK(Local, Env), Env.kind = "permutation",
         pc = "run", NEW path, NEW elements, PermutationTail(path, elements)
  PROVE  Calls \/ Ends \/ Stays
<1> DEFINE level == path[Len(path)]
           left == Available(path)
           untried == {j \in left : j > level.i}
<1>1. CASE \E j \in untried :
             CallParse(Env.sub[j], level.bak,
                       [Local EXCEPT !.i = 1, !.acc = elements,
                          !.path = [path EXCEPT ![Len(path)].i = j]])
  <2>1. PICK j \in untried :
             CallParse(Env.sub[j], level.bak,
                       [Local EXCEPT !.i = 1, !.acc = elements,
                          !.path = [path EXCEPT ![Len(path)].i = j]])
    BY <1>1
  <2>2. Env.sub[j] \in Children(Env)
    BY ChildrenOf DEF Available
  <2>3. LocalOK([Local EXCEPT !.i = 1, !.acc = elements,
                   !.path = [path EXCEPT ![Len(path)].i = j]], Env)
    BY LocalAdvanced
  <2>4. QED
    BY <2>1, <2>2, <2>3 DEF Calls
<1>2. CASE ReturnNew(Seq_(elements), level.bak) \/ Return(NULL, level.bak)
  BY <1>2, EndsBy
<1>3. CASE /\ locals' = [locals EXCEPT ![Len(locals)] =
                           [Local EXCEPT !.i = 2, !.acc = elements,
                              !.path = SubSeq(path, 1, Len(path) - 1)]]
           /\ pc' = pc
  <2>1. LocalOK([Local EXCEPT !.i = 2, !.acc = elements,
                   !.path = SubSeq(path, 1, Len(path) - 1)], Env)
    BY LocalAdvanced
  <2>2. QED
    BY <1>3, <2>1 DEF Stays
<1>4. QED
  BY <1>1, <1>2, <1>3 DEF PermutationTail

\* What a parse function does to its local variables, and which parsers it calls.
LEMMA ParseEffect ==
  ASSUME NEW P, NodeOK(Env, P), LocalOK(Local, Env), Parse
  PROVE  Calls \/ Ends \/ Stays
<1>0. Local.i \in Nat /\ Local.i + 1 \in Nat /\ pc = "run"
  BY ParseFootprint DEF LocalOK
<1>1. CASE ParseCh \/ ParseToken \/ ParseEnd \/ ParseEpsilon \/ ParseNothing \/ ParseGet
  BY <1>1, EndsBy DEF ParseCh, ParseToken, ParseEnd, ParseEpsilon, ParseNothing, ParseGet
<1>2. CASE ParseWhitespace
  <2>1. Env.kind = "whitespace"
    BY <1>2 DEF ParseWhitespace, Running
  <2>2. Env.sub[1] \in Children(Env)
    BY <2>1, ChildrenOf DEF WithOne
  <2>3. LocalOK([Local EXCEPT !.i = 1], Env)
    BY <2>1, LocalAdvanced
  <2>4. \/ \E s : CallParse(Env.sub[1], s, [Local EXCEPT !.i = 1])
        \/ Return(ret, input_stream)
    BY <1>2 DEF ParseWhitespace
  <2>5. QED
    BY <2>2, <2>3, <2>4, EndsBy DEF Calls
<1>3. CASE ParseLengthValue
  <2>1. Env.kind = "length_value"
    BY <1>3 DEF ParseLengthValue, Running
  <2>2. CASE CallOnly
    BY <2>1, <2>2, CallsOnly DEF WithTwo
  <2>3. CASE Return(NULL, input_stream)
    BY <2>3, EndsBy
  <2>4. CASE Iterate(HRepeat(Env.sub[2], <<>>, Ast(ret)[2], FALSE), 0, <<>>,
                     input_stream)
    <3> DEFINE r == HRepeat(Env.sub[2], <<>>, Ast(ret)[2], FALSE)
    <3>1. Env.sub[2] \in Children(Env)
      BY <2>1, ChildrenOf DEF WithTwo
    <3>2. RepeatOK(r, Env)
      BY <3>1 DEF RepeatOK, HRepeat
    <3> HIDE DEF r
    <3>3. QED
      BY <2>4, <3>2, Iterates DEF r
  <2>5. CASE Local.repeat # <<>> /\ RepeatReturns
    BY <2>5, Repeats_
  <2>6. QED
    BY <1>3, <2>2, <2>3, <2>4, <2>5 DEF ParseLengthValue
<1>4. CASE ParseMany
  <2>1. Env.kind = "many"
    BY <1>4 DEF ParseMany, Running
  <2>2. CASE Iterate(HRepeat(Env.sub[1], Env.sep, Env.count, Env.min_p), 0, <<>>,
                     input_stream)
    <3> DEFINE r == HRepeat(Env.sub[1], Env.sep, Env.count, Env.min_p)
    <3>1. Env.sub[1] \in Children(Env)
      BY <2>1, ChildrenOf DEF WithOne
    <3>2. Env.sep # <<>> => Env.sep[1] \in Children(Env)
      BY <2>1, ChildrenOf
    <3>3. RepeatOK(r, Env)
      BY <3>1, <3>2 DEF RepeatOK, HRepeat
    <3> HIDE DEF r
    <3>4. QED
      BY <2>2, <3>3, Iterates DEF r
  <2>3. CASE Local.i > 0 /\ RepeatReturns
    <3>1. Local.repeat # <<>>
      BY <2>1, <2>3 DEF LocalOK
    <3>2. QED
      BY <2>3, <3>1, Repeats_
  <2>4. QED
    BY <1>4, <2>2, <2>3 DEF ParseMany
<1>5. CASE ParseSequence
  <2>1. Env.kind = "sequence"
    BY <1>5 DEF ParseSequence, Running
  <2>2. PICK acc : \/ Return(NULL, input_stream)
                   \/ /\ Local.i < Len(Env.sub)
                      /\ CallParse(Env.sub[Local.i + 1], input_stream,
                                   [Local EXCEPT !.i = Local.i + 1, !.acc = acc])
                   \/ ReturnNew(Seq_(acc), input_stream)
    BY <1>5 DEF ParseSequence
  <2>3. LocalOK([Local EXCEPT !.i = Local.i + 1, !.acc = acc], Env)
    BY <1>0, <2>1, LocalAdvanced
  <2>4. Local.i < Len(Env.sub) => Env.sub[Local.i + 1] \in Children(Env)
    BY <1>0, ChildrenOf
  <2>5. QED
    BY <2>2, <2>3, <2>4, EndsBy DEF Calls
<1>6. CASE ParseIgnoreSeq
  <2>1. Env.kind = "ignoreseq"
    BY <1>6 DEF ParseIgnoreSeq, Running
  <2>2. PICK res : \/ Return(NULL, input_stream)
                   \/ /\ Local.i < Len(Env.sub)
                      /\ CallParse(Env.sub[Local.i + 1], input_stream,
                                   [Local EXCEPT !.i = Local.i + 1, !.r1 = res])
                   \/ Return(res, input_stream)
    BY <1>6 DEF ParseIgnoreSeq
  <2>3. LocalOK([Local EXCEPT !.i = Local.i + 1, !.r1 = res], Env)
    BY <1>0, <2>1, LocalAdvanced
  <2>4. Local.i < Len(Env.sub) => Env.sub[Local.i + 1] \in Children(Env)
    BY <1>0, ChildrenOf
  <2>5. QED
    BY <2>2, <2>3, <2>4, EndsBy DEF Calls
<1>7. CASE ParseChoice
  <2>1. Env.kind = "choice"
    BY <1>7 DEF ParseChoice, Running
  <2>2. PICK s : \/ Return(ret, input_stream) \/ Return(NULL, input_stream)
                 \/ /\ Local.i < Len(Env.sub)
                    /\ CallParse(Env.sub[Local.i + 1], s,
                                 [Local EXCEPT !.i = Local.i + 1])
    BY <1>7 DEF ParseChoice
  <2>3. LocalOK([Local EXCEPT !.i = Local.i + 1], Env)
    BY <1>0, <2>1, LocalAdvanced
  <2>4. Local.i < Len(Env.sub) => Env.sub[Local.i + 1] \in Children(Env)
    BY <1>0, ChildrenOf
  <2>5. QED
    BY <2>2, <2>3, <2>4, EndsBy DEF Calls
<1>8. CASE \/ ParseOptional \/ ParseAnd \/ ParseNot \/ ParseIntRange
           \/ ParseIndirect \/ ParseIgnore \/ ParseAction \/ ParseAttrBool \/ ParsePut
  <2>1. Env.kind \in WithOne \ {"many"}
    BY <1>8 DEF ParseOptional, ParseAnd, ParseNot, ParseIntRange, ParseIndirect,
                ParseIgnore, ParseAction, ParseAttrBool, ParsePut, Running, WithOne
  <2>2. CallOnly \/ \E r, s : Return(r, s) \/ ReturnNew(r, s)
    BY <1>8 DEF ParseOptional, ParseAnd, ParseNot, ParseIntRange, ParseIndirect,
                ParseIgnore, ParseAction, ParseAttrBool, ParsePut
  <2>3. QED
    BY <2>1, <2>2, CallsOnly, EndsBy
<1>9. CASE ParseButNot \/ ParseXor
  <2>1. Env.kind \in WithTwo
    BY <1>9 DEF ParseButNot, ParseXor, Running, WithTwo
  <2>2. Env.kind # "many"
    BY <2>1 DEF WithTwo
  <2>3. \/ CallOnly \/ \E r, s : Return(r, s)
        \/ CallParse(Env.sub[2], Local.bak,
                     [Local EXCEPT !.i = 2, !.r1 = ret, !.after = input_stream])
    BY <1>9 DEF ParseButNot, ParseXor
  <2>4. Env.sub[2] \in Children(Env)
    BY <2>1, ChildrenOf
  <2>5. LocalOK([Local EXCEPT !.i = 2, !.r1 = ret, !.after = input_stream], Env)
    BY <2>2, LocalAdvanced
  <2>6. QED
    BY <2>1, <2>2, <2>3, <2>4, <2>5, CallsOnly, EndsBy DEF Calls
<1>10. CASE ParsePermutation
  <2>1. Env.kind = "permutation"
    BY <1>10 DEF ParsePermutation, Running
  <2>2. (\E r, s : ReturnNew(r, s)) \/ \E path, elements : PermutationTail(path, elements)
    BY <1>10 DEF ParsePermutation
  <2>3. QED
    BY <1>0, <2>1, <2>2, Permutes, EndsBy
<1>11. QED
  BY <1>1, <1>2, <1>3, <1>4, <1>5, <1>6, <1>7, <1>8, <1>9, <1>10
     DEF Parse, ParsePrimitive, ParseHigher

LEMMA ReachesChild ==
  ASSUME NEW g, NEW p, NEW r, r \in Children(g.node[p])
  PROVE  Reaches(g, p, r)
BY DEF Reaches

LEMMA ReachesOn ==
  ASSUME NEW g, NEW p, NEW q, NEW r, Reaches(g, p, q), r \in Children(g.node[q])
  PROVE  Reaches(g, p, r)
BY DEF Reaches

\* The inductive invariant, in parts.
FramesKnown(g, s, l) ==
  /\ IsSequence(s) /\ IsSequence(l) /\ Len(l) = Len(s)
  /\ \A n \in DOMAIN s : /\ s[n].p \in DOMAIN g.node
                         /\ LocalOK(l[n], g.node[s[n].p])

Chain(g, s) == \A m, n \in DOMAIN s : m < n => Reaches(g, s[m].p, s[n].p)

\* The names of the puts among the first k frames are free.
Free(g, s, l, y, k) ==
  \A n \in 1..k :
    g.node[s[n].p].kind = "put" /\ l[n].i > 0
      => g.node[s[n].p].name \notin DOMAIN y

CalledOK ==
  pc = "call" => /\ arg \in DOMAIN grammar.node
                 /\ \A n \in DOMAIN stack : Reaches(grammar, stack[n].p, arg)

\* A put that returns may just have bound its name.
Depth == IF pc = "return" THEN Len(stack) - 1 ELSE Len(stack)

SymInv ==
  /\ grammar \in Grammars
  /\ FramesKnown(grammar, stack, locals)
  /\ Chain(grammar, stack)
  /\ CalledOK
  /\ Unnested(grammar) => Free(grammar, stack, locals, symbol_table, Depth)

LEMMA SymPush ==
  ASSUME NEW g, NEW s, NEW l, NEW y, NEW f, NEW e, FramesKnown(g, s, l), Chain(g, s),
         f.p \in DOMAIN g.node, LocalOK(e, g.node[f.p]), e.i = 0,
         \A n \in DOMAIN s : Reaches(g, s[n].p, f.p)
  PROVE  /\ FramesKnown(g, Append(s, f), Append(l, e))
         /\ Chain(g, Append(s, f))
         /\ Free(g, s, l, y, Len(s))
              => Free(g, Append(s, f), Append(l, e), y, Len(Append(s, f)))
<1> DEFINE s2 == Append(s, f)
           l2 == Append(l, e)
<1>0. PICK k : k = Len(s)
  OBVIOUS
<1>1. /\ k \in Nat /\ DOMAIN s = 1..k /\ IsSequence(s2)
      /\ DOMAIN s2 = 1 .. k + 1 /\ Len(s2) = k + 1
      /\ \A i \in 1..k : s2[i] = s[i]
      /\ s2[k + 1] = f
  BY <1>0, AppendTo DEF FramesKnown
<1>2. /\ IsSequence(l2) /\ Len(l2) = k + 1
      /\ \A i \in 1..k : l2[i] = l[i]
      /\ l2[k + 1] = e
  BY <1>0, AppendTo DEF FramesKnown
<1> HIDE DEF s2, l2
<1>3. \A n \in 1 .. k + 1 : n \in 1..k \/ n = k + 1
  BY <1>1
<1>4. FramesKnown(g, s2, l2)
  BY <1>1, <1>2, <1>3 DEF FramesKnown
<1>5. Chain(g, s2)
  <2> SUFFICES ASSUME NEW m \in 1 .. k + 1, NEW n \in 1 .. k + 1, m < n
               PROVE  Reaches(g, s2[m].p, s2[n].p)
    BY <1>1 DEF Chain
  <2>1. m \in 1..k
    BY <1>1
  <2>2. CASE n \in 1..k
    BY <1>1, <2>1, <2>2 DEF Chain
  <2>3. CASE n = k + 1
    BY <1>1, <2>1, <2>3
  <2>4. QED
    BY <1>3, <2>2, <2>3
<1>6. Free(g, s, l, y, k) => Free(g, s2, l2, y, k + 1)
  BY <1>1, <1>2, <1>3 DEF Free
<1>7. QED
  BY <1>0, <1>1, <1>4, <1>5, <1>6 DEF s2, l2

LEMMA SymPop ==
  ASSUME NEW g, NEW s, NEW l, NEW y, FramesKnown(g, s, l), Chain(g, s), s # <<>>
  PROVE  LET s2 == SubSeq(s, 1, Len(s) - 1)
             l2 == SubSeq(l, 1, Len(l) - 1)
         IN  /\ FramesKnown(g, s2, l2)
             /\ Chain(g, s2)
             /\ Free(g, s, l, y, Len(s) - 1) => Free(g, s2, l2, y, Len(s2))
<1> DEFINE s2 == SubSeq(s, 1, Len(s) - 1)
           l2 == SubSeq(l, 1, Len(l) - 1)
<1>0. PICK k : k = Len(s)
  OBVIOUS
<1>1. /\ k \in Nat \ {0} /\ DOMAIN s = 1..k /\ IsSequence(s2)
      /\ DOMAIN s2 = 1 .. k - 1 /\ Len(s2) = k - 1
      /\ \A i \in 1 .. k - 1 : s2[i] = s[i]
  BY <1>0, PopFrom DEF FramesKnown
<1>2. l # <<>> /\ IsSequence(l) /\ Len(l) = k
  <2>1. Len(<<>>) = 0
    OBVIOUS
  <2>2. IsSequence(l) /\ Len(l) = k
    BY <1>0 DEF FramesKnown
  <2>3. QED
    BY <1>1, <2>1, <2>2
<1>3. /\ IsSequence(l2) /\ Len(l2) = k - 1
      /\ \A i \in 1 .. k - 1 : l2[i] = l[i]
  BY <1>2, PopFrom
<1> HIDE DEF s2, l2
<1>4. \A n \in 1 .. k - 1 : n \in 1..k
  BY <1>1
<1>5. FramesKnown(g, s2, l2)
  BY <1>1, <1>3, <1>4 DEF FramesKnown
<1>6. Chain(g, s2)
  BY <1>1, <1>4 DEF Chain
<1>7. Free(g, s, l, y, k - 1) => Free(g, s2, l2, y, k - 1)
  BY <1>1, <1>3 DEF Free
<1>8. QED
  BY <1>0, <1>1, <1>5, <1>6, <1>7 DEF s2, l2

\* The top frame goes on with other local variables, or as one that grows.
SameParsers(s, s2) ==
  /\ IsSequence(s2) /\ DOMAIN s2 = DOMAIN s
  /\ \A n \in DOMAIN s : s2[n].p = s[n].p

\* All but the last of k elements stay.
Replaced(l, l2, e, k) == (\A n \in 1 .. k - 1 : l2[n] = l[n]) /\ l2[k] = e

LEMMA SymReplace ==
  ASSUME NEW g, NEW s, NEW l, NEW s2, NEW e,
         FramesKnown(g, s, l), Chain(g, s), s # <<>>, SameParsers(s, s2),
         LocalOK(e, g.node[s[Len(s)].p])
  PROVE  /\ FramesKnown(g, s2, ReplaceTop(l, e))
         /\ Chain(g, s2)
         /\ Len(s2) = Len(s)
         /\ Replaced(l, ReplaceTop(l, e), e, Len(s))
<1> DEFINE l2 == ReplaceTop(l, e)
<1>0. PICK k : k = Len(s)
  OBVIOUS
<1>1. k \in Nat \ {0} /\ DOMAIN s = 1..k
  BY <1>0, PopFrom DEF FramesKnown
<1>2. l # <<>> /\ IsSequence(l) /\ Len(l) = k
  <2>1. Len(<<>>) = 0
    OBVIOUS
  <2>2. IsSequence(l) /\ Len(l) = k
    BY <1>0 DEF FramesKnown
  <2>3. QED
    BY <1>1, <2>1, <2>2
<1>3. DOMAIN l = 1..k
  BY <1>2, PopFrom
<1>4. /\ IsSequence(l2) /\ DOMAIN l2 = 1..k
      /\ \A i \in 1 .. k - 1 : l2[i] = l[i]
      /\ l2[k] = e
  BY <1>2, <1>3, ReplaceLast
<1> HIDE DEF l2
<1>5. IsSequence(s2) /\ DOMAIN s2 = 1..k /\ \A n \in 1..k : s2[n].p = s[n].p
  BY <1>1 DEF SameParsers
<1>6. Len(l2) = k /\ Len(s2) = k
  <2>1. \A t : IsSequence(t) /\ DOMAIN t = 1..k => Len(t) = k
    <3> SUFFICES ASSUME NEW t, IsSequence(t), DOMAIN t = 1..k PROVE Len(t) = k
      OBVIOUS
    <3>1. Len(t) \in Nat /\ DOMAIN t = 1..Len(t)
      BY AppendTo
    <3>2. QED
      BY <1>1, <3>1
  <2>2. QED
    BY <1>4, <1>5, <2>1
<1>7. \A n \in 1..k : n \in 1 .. k - 1 \/ n = k
  BY <1>1
<1>8. FramesKnown(g, s2, l2)
  BY <1>0, <1>1, <1>4, <1>5, <1>6, <1>7 DEF FramesKnown
<1>9. Chain(g, s2)
  BY <1>1, <1>5 DEF Chain
<1>10. QED
  BY <1>0, <1>4, <1>6, <1>8, <1>9 DEF Replaced, l2

LEMMA SymLocal ==
  ASSUME NEW g, NEW s, NEW l, NEW e, FramesKnown(g, s, l),
         Chain(g, s), s # <<>>, LocalOK(e, g.node[s[Len(s)].p])
  PROVE  /\ FramesKnown(g, s, ReplaceTop(l, e))
         /\ Replaced(l, ReplaceTop(l, e), e, Len(s))
<1>1. SameParsers(s, s)
  BY DEF FramesKnown, SameParsers
<1>2. QED
  BY <1>1, SymReplace

\* Only a put that returns binds a name, and none calls its inner parser while
\* its name is bound.
LEMMA ParseSymbols ==
  ASSUME Parse
  PROVE  /\ \/ symbol_table' = symbol_table
            \/ /\ Env.kind = "put" /\ pc' = "return"
               /\ symbol_table' = Bind(symbol_table, Env.name, ret)
         /\ Env.kind = "put" /\ pc' = "call" =>
              symbol_table' = symbol_table /\ Env.name \notin DOMAIN symbol_table
<1>1. CASE ParsePut
  BY <1>1 DEF ParsePut, CallOnly, CallParse, Return, Running
<1>2. CASE (ParsePrimitive \/ ParseHigher) /\ UNCHANGED symbol_table
  <2>1. Env.kind # "put"
    BY <1>2 DEF ParsePrimitive, ParseHigher, ParseCh, ParseToken, ParseEnd, ParseEpsilon,
                ParseNothing, ParseWhitespace, ParseIntRange, ParseLengthValue,
                ParseSequence, ParseIgnoreSeq, ParseMany, ParseChoice, ParseOptional,
                ParseAnd, ParseNot, ParseButNot, ParseXor, ParseIndirect, ParseIgnore,
                ParseAction, ParseAttrBool, ParseGet, ParsePermutation, Running
  <2>2. QED
    BY <1>2, <2>1
<1>3. QED
  BY <1>1, <1>2 DEF Parse

\* The frame whose parse function is running.
LEMMA RunningFrame ==
  ASSUME SymInv, stack # <<>>
  PROVE  /\ Len(stack) \in Nat \ {0} /\ DOMAIN stack = 1..Len(stack)
         /\ Env = grammar.node[stack[Len(stack)].p]
         /\ Local = locals[Len(stack)]
         /\ Top.p \in DOMAIN grammar.node
         /\ NodeOK(Env, DOMAIN grammar.node)
         /\ LocalOK(Local, Env)
<1>1. Len(stack) \in Nat \ {0} /\ DOMAIN stack = 1..Len(stack)
  BY PopFrom DEF SymInv, FramesKnown
<1>2. Len(stack) \in DOMAIN stack
  BY <1>1
<1>3. Env = grammar.node[stack[Len(stack)].p] /\ Local = locals[Len(stack)]
  BY DEF Env, Node, Top, Local, SymInv, FramesKnown
<1>4. Top.p \in DOMAIN grammar.node /\ LocalOK(Local, Env)
  BY <1>2, <1>3 DEF SymInv, FramesKnown, Top
<1>5. NodeOK(Env, DOMAIN grammar.node)
  BY <1>4, GrammarsAssumption DEF SymInv, Env, Node
<1>6. QED
  BY <1>1, <1>3, <1>4, <1>5

LEMMA SymParse ==
  ASSUME IInv, SymInv, Parse
  PROVE  SymInv'
<1> DEFINE y == symbol_table
<1>0. PICK k : k = Len(stack)
  OBVIOUS
<1>1. pc = "run" /\ stack # <<>> /\ UNCHANGED <<stack, grammar>>
  BY ParseFootprint DEF IInv, Started, Parse
<1>2. /\ k \in Nat \ {0} /\ DOMAIN stack = 1..k
      /\ Env = grammar.node[stack[k].p] /\ Local = locals[k]
      /\ Top.p \in DOMAIN grammar.node
      /\ NodeOK(Env, DOMAIN grammar.node)
      /\ LocalOK(Local, Env)
  BY <1>0, <1>1, RunningFrame
<1>3. /\ grammar \in Grammars /\ FramesKnown(grammar, stack, locals)
      /\ Chain(grammar, stack)
      /\ Unnested(grammar) => Free(grammar, stack, locals, y, k)
  BY <1>0, <1>1 DEF SymInv, Depth
<1>4. k \in Nat \ {0} /\ k \in 1..k
  BY <1>2
<1>5. Calls \/ Ends \/ Stays
  BY <1>2, ParseEffect
<1>6. CASE Calls
  <2>1. PICK q, s, loc : /\ q \in Children(Env) /\ LocalOK(loc, Env)
                         /\ CallParse(q, s, loc)
    BY <1>6 DEF Calls
  <2>2. pc' = "call" /\ arg' = q /\ locals' = ReplaceTop(locals, loc)
    BY <2>1 DEF CallParse, ReplaceTop
  <2>3. FramesKnown(grammar, stack, locals') /\ Replaced(locals, locals', loc, k)
    BY <1>0, <1>1, <1>2, <1>3, <2>1, <2>2, SymLocal
  <2>4. q \in DOMAIN grammar.node
    BY <1>2, <2>1, ChildrenOf
  <2>5. ASSUME NEW n \in 1..k PROVE Reaches(grammar, stack[n].p, q)
    <3>1. CASE n = k
      BY <1>2, <2>1, <3>1, ReachesChild
    <3>2. CASE n # k
      <4>0. n < k
        BY <1>4, <3>2
      <4>1. Reaches(grammar, stack[n].p, stack[k].p)
        BY <1>2, <1>3, <1>4, <4>0 DEF Chain
      <4>2. QED
        BY <1>2, <2>1, <4>1, ReachesOn
    <3>3. QED
      BY <3>1, <3>2
  <2>6. CalledOK'
    BY <1>1, <1>2, <2>2, <2>4, <2>5 DEF CalledOK
  <2>7. symbol_table' = y /\ (Env.kind = "put" => Env.name \notin DOMAIN y)
    BY <2>2, ParseSymbols
  <2>8. ASSUME Unnested(grammar) PROVE Free(grammar, stack, locals', symbol_table', k)
    <3> SUFFICES ASSUME NEW n \in 1..k, grammar.node[stack[n].p].kind = "put",
                        locals'[n].i > 0
                 PROVE  grammar.node[stack[n].p].name \notin DOMAIN symbol_table'
      BY DEF Free
    <3>1. CASE n = k
      BY <1>2, <2>7, <3>1
    <3>2. CASE n # k
      <4>1. n \in 1 .. k - 1
        BY <1>4, <3>2
      <4>2. Free(grammar, stack, locals, y, k)
        BY <1>3, <2>8
      <4>3. QED
        BY <2>3, <2>7, <4>1, <4>2 DEF Free, Replaced
    <3>3. QED
      BY <3>1, <3>2
  <2>9. Depth' = k
    BY <1>0, <1>1, <2>2 DEF Depth
  <2>10. QED
    BY <1>1, <1>3, <2>3, <2>6, <2>8, <2>9 DEF SymInv
<1>7. CASE Stays
  <2>1. PICK loc : /\ LocalOK(loc, Env)
                   /\ locals' = ReplaceTop(locals, loc)
                   /\ pc' = "run" /\ Env.kind # "put"
    BY <1>7 DEF Stays, ReplaceTop
  <2>2. FramesKnown(grammar, stack, locals') /\ Replaced(locals, locals', loc, k)
    BY <1>0, <1>1, <1>2, <1>3, <2>1, SymLocal
  <2>3. symbol_table' = y
    BY <2>1, ParseSymbols
  <2>4. ASSUME Unnested(grammar) PROVE Free(grammar, stack, locals', symbol_table', k)
    <3> SUFFICES ASSUME NEW n \in 1..k, grammar.node[stack[n].p].kind = "put",
                        locals'[n].i > 0
                 PROVE  grammar.node[stack[n].p].name \notin DOMAIN symbol_table'
      BY DEF Free
    <3>1. n # k
      BY <1>2, <2>1
    <3>2. n \in 1 .. k - 1
      BY <1>2, <3>1
    <3>3. Free(grammar, stack, locals, y, k)
      BY <1>3, <2>4
    <3>4. QED
      BY <2>2, <2>3, <3>2, <3>3 DEF Free, Replaced
  <2>5. Depth' = k /\ CalledOK'
    BY <1>0, <1>1, <2>1 DEF Depth, CalledOK
  <2>6. QED
    BY <1>1, <1>3, <2>2, <2>4, <2>5 DEF SymInv
<1>8. CASE Ends
  <2>1. pc' = "return" /\ locals' = locals
    BY <1>8 DEF Ends
  <2>2. ASSUME Unnested(grammar)
        PROVE  Free(grammar, stack, locals, symbol_table', k - 1)
    <3> SUFFICES ASSUME NEW n \in 1 .. k - 1, grammar.node[stack[n].p].kind = "put",
                        locals[n].i > 0
                 PROVE  grammar.node[stack[n].p].name \notin DOMAIN symbol_table'
      BY DEF Free
    <3>0. n \in 1..k /\ n < k /\ k \in 1..k
      BY <1>2
    <3>1. grammar.node[stack[n].p].name \notin DOMAIN y
      BY <1>3, <2>2, <3>0 DEF Free
    <3>2. CASE symbol_table' = y
      BY <3>1, <3>2
    <3>3. CASE Env.kind = "put" /\ symbol_table' = Bind(y, Env.name, ret)
      <4>1. Reaches(grammar, stack[n].p, stack[k].p)
        BY <1>2, <1>3, <3>0 DEF Chain
      <4>2. stack[n].p \in DOMAIN grammar.node /\ stack[k].p \in DOMAIN grammar.node
        BY <1>2, <1>3, <3>0 DEF FramesKnown
      <4>3. grammar.node[stack[n].p].name # Env.name
        BY <1>2, <2>2, <3>3, <4>1, <4>2 DEF Unnested
      <4>4. QED
        BY <3>1, <3>3, <4>3 DEF Bind
    <3>4. QED
      BY <3>2, <3>3, ParseSymbols
  <2>3. Depth' = k - 1 /\ CalledOK'
    BY <1>0, <1>1, <2>1 DEF Depth, CalledOK
  <2>4. QED
    BY <1>1, <1>3, <2>1, <2>2, <2>3 DEF SymInv
<1>9. QED
  BY <1>5, <1>6, <1>7, <1>8

\* h_do_parse runs the parser it was called on, or answers from its tables.
LEMMA SymEnter ==
  ASSUME SymInv, pc = "call", NEW f, f.p = arg, Enter(f),
         UNCHANGED <<grammar, symbol_table>>
  PROVE  SymInv'
<1>1. /\ grammar \in Grammars /\ FramesKnown(grammar, stack, locals)
      /\ Chain(grammar, stack) /\ arg \in DOMAIN grammar.node
      /\ \A n \in DOMAIN stack : Reaches(grammar, stack[n].p, f.p)
      /\ Unnested(grammar) => Free(grammar, stack, locals, symbol_table, Len(stack))
  BY DEF SymInv, CalledOK, Depth
<1>2. stack' = Append(stack, f) /\ locals' = Append(locals, NewLocals) /\ pc' = "run"
  BY DEF Enter
<1>3. LocalOK(NewLocals, grammar.node[f.p]) /\ NewLocals.i = 0
  BY LocalNew
<1>4. /\ FramesKnown(grammar, stack', locals') /\ Chain(grammar, stack')
      /\ Free(grammar, stack, locals, symbol_table, Len(stack))
           => Free(grammar, stack', locals', symbol_table, Len(stack'))
  BY <1>1, <1>2, <1>3, SymPush
<1>5. Depth' = Len(stack') /\ CalledOK'
  BY <1>2 DEF Depth, CalledOK
<1>6. QED
  BY <1>1, <1>4, <1>5 DEF SymInv

LEMMA SymAnswer ==
  ASSUME SymInv, pc = "call", pc' = "run",
         UNCHANGED <<grammar, symbol_table, stack, locals>>
  PROVE  SymInv'
BY DEF SymInv, CalledOK, Depth

LEMMA SymLeave ==
  ASSUME IInv, SymInv, pc = "return", NEW r, NEW s, Leave(r, s),
         UNCHANGED <<grammar, symbol_table>>
  PROVE  SymInv'
<1>1. /\ grammar \in Grammars /\ FramesKnown(grammar, stack, locals)
      /\ Chain(grammar, stack)
      /\ Unnested(grammar) => Free(grammar, stack, locals, symbol_table, Len(stack) - 1)
  BY DEF SymInv, Depth
<1>2. /\ stack' = SubSeq(stack, 1, Len(stack) - 1)
      /\ locals' = SubSeq(locals, 1, Len(locals) - 1)
      /\ pc' \in {"done", "run"}
  BY DEF Leave
<1>3. stack # <<>>
  BY DEF IInv, Started
<1>4. /\ FramesKnown(grammar, stack', locals') /\ Chain(grammar, stack')
      /\ Free(grammar, stack, locals, symbol_table, Len(stack) - 1)
           => Free(grammar, stack', locals', symbol_table, Len(stack'))
  BY <1>1, <1>2, <1>3, SymPop
<1>5. Depth' = Len(stack') /\ CalledOK'
  BY <1>2 DEF Depth, CalledOK
<1>6. QED
  BY <1>1, <1>4, <1>5 DEF SymInv

\* A put that grows starts again with the look for its name.
LEMMA SymGrow ==
  ASSUME IInv, SymInv, pc = "return", NEW head, NEW old, NEW old_res,
         Grow(head, old, old_res), UNCHANGED <<grammar, symbol_table>>
  PROVE  SymInv'
<1> DEFINE f == [p |-> Top.p, pos |-> Top.pos, how |-> "grow", lr |-> Top.lr,
                 head |-> head, old |-> old, old_res |-> old_res]
           e == [NewLocals EXCEPT !.bak = Top.pos, !.after = Top.pos]
<1>0. PICK k : k = Len(stack)
  OBVIOUS
<1>1. /\ grammar \in Grammars /\ FramesKnown(grammar, stack, locals)
      /\ Chain(grammar, stack)
      /\ Unnested(grammar) => Free(grammar, stack, locals, symbol_table, k - 1)
  BY <1>0 DEF SymInv, Depth
<1>2. stack' = ReplaceTop(stack, f) /\ locals' = ReplaceTop(locals, e) /\ pc' = "run"
  BY DEF Grow, ReplaceTop
<1>3. stack # <<>> /\ IsSequence(stack)
  BY DEF IInv, Started, StackOK
<1>4. f.p = stack[k].p
  BY <1>0 DEF Top
<1>5. LocalOK(e, grammar.node[stack[k].p]) /\ e.i = 0
  BY LocalAgain
<1> HIDE DEF f, e
<1>6. k \in Nat \ {0} /\ DOMAIN stack = 1..k
  BY <1>0, <1>3, PopFrom
<1>7. \A n \in 1..k : n \in 1 .. k - 1 \/ n = k
  BY <1>6
<1>8. SameParsers(stack, stack')
  <2>1. /\ IsSequence(stack') /\ DOMAIN stack' = DOMAIN stack
        /\ \A i \in 1 .. k - 1 : stack'[i] = stack[i]
        /\ stack'[k] = f
    BY <1>0, <1>2, <1>3, ReplaceLast
  <2>2. QED
    BY <1>4, <1>6, <1>7, <2>1 DEF SameParsers
<1>9. /\ FramesKnown(grammar, stack', locals') /\ Chain(grammar, stack')
      /\ Len(stack') = k /\ Replaced(locals, locals', e, k)
  BY <1>0, <1>1, <1>2, <1>3, <1>5, <1>8, SymReplace
<1>10. ASSUME Unnested(grammar)
       PROVE  Free(grammar, stack', locals', symbol_table, k)
  <2> SUFFICES ASSUME NEW n \in 1..k, grammar.node[stack'[n].p].kind = "put",
                      locals'[n].i > 0
               PROVE  grammar.node[stack'[n].p].name \notin DOMAIN symbol_table
    BY DEF Free
  <2>1. n # k
    BY <1>5, <1>9 DEF Replaced
  <2>2. n \in 1 .. k - 1 /\ stack'[n].p = stack[n].p
    BY <1>6, <1>7, <1>8, <2>1 DEF SameParsers
  <2>3. locals'[n] = locals[n]
    BY <1>9, <2>2 DEF Replaced
  <2>4. QED
    BY <1>1, <1>10, <2>2, <2>3 DEF Free
<1>11. Depth' = k /\ CalledOK'
  BY <1>2, <1>9 DEF Depth, CalledOK
<1>12. QED
  BY <1>1, <1>9, <1>10, <1>11 DEF SymInv

LEMMA NextSymInv == IInv /\ SymInv /\ [Next]_vars => SymInv'
<1> SUFFICES ASSUME IInv, SymInv, [Next]_vars PROVE SymInv'
  OBVIOUS
<1>1. CASE UNCHANGED vars
  BY <1>1 DEF vars, frame_vars, SymInv, CalledOK, Depth
<1>2. CASE Parse /\ UNCHANGED memo_vars
  BY <1>2, SymParse
<1>3. CASE CallPrimitive \/ CallMiss \/ CallEval
  <2>1. pc = "call" /\ UNCHANGED <<grammar, symbol_table>>
    BY <1>3 DEF CallPrimitive, CallMiss, CallEval
  <2>2. PICK f : Enter(f) /\ f.p = arg
    BY <1>3 DEF CallPrimitive, CallMiss, CallEval, Frame
  <2>3. QED
    BY <2>1, <2>2, SymEnter
<1>4. CASE CallUninvolved \/ CallHit \/ CallLeftRecursion
  <2>1. pc = "call" /\ pc' = "run" /\ UNCHANGED <<grammar, symbol_table, stack, locals>>
    BY <1>4 DEF CallUninvolved, CallHit, CallLeftRecursion, frame_vars
  <2>2. QED
    BY <2>1, SymAnswer
<1>5. CASE \/ ReturnPrimitive \/ ReturnEval \/ ReturnPlain \/ ReturnInvolved
           \/ ReturnHead \/ GrowAgain \/ GrowEnds
  <2>1. pc = "return" /\ UNCHANGED <<grammar, symbol_table>>
    BY <1>5 DEF ReturnPrimitive, ReturnEval, ReturnPlain, ReturnInvolved, ReturnHead,
                GrowAgain, GrowEnds, BaseReturns
  <2>2. \/ \E r, s : Leave(r, s)
        \/ \E head, old, old_res : Grow(head, old, old_res)
    BY <1>5 DEF ReturnPrimitive, ReturnEval, ReturnPlain, ReturnInvolved, ReturnHead,
                GrowAgain, GrowEnds
  <2>3. QED
    BY <2>1, <2>2, SymLeave, SymGrow
<1>6. QED
  BY <1>1, <1>2, <1>3, <1>4, <1>5 DEF Next, HDoParse, Halted

\* The assertion of h_symbol_put holds for every grammar in which no put is
\* inside another one of its name, and every input: whatever is backed out of,
\* answered from the cache or grown, the name that was free before the inner
\* parser ran is free after it.
THEOREM PackratSymbols == Spec => []SymbolAssert
<1>1. Init => SymInv
  <2> SUFFICES ASSUME Init PROVE SymInv
    OBVIOUS
  <2>1. DOMAIN <<>> = {} /\ <<>> \in Seq({}) /\ Len(<<>>) = 0
    OBVIOUS
  <2>2. FramesKnown(grammar, stack, locals) /\ Chain(grammar, stack)
    BY <2>1 DEF Init, FramesKnown, Chain, IsSequence
  <2>3. CalledOK
    BY <2>1, GrammarsAssumption DEF Init, CalledOK
  <2>4. Free(grammar, stack, locals, symbol_table, Depth)
    BY <2>1 DEF Init, Free, Depth
  <2>5. QED
    BY <2>2, <2>3, <2>4 DEF SymInv, Init
<1>2. IInv /\ SymInv => SymbolAssert
  <2> SUFFICES ASSUME IInv, SymInv, pc = "run", Env.kind = "put", ChildMatched,
                      Unnested(grammar)
               PROVE  Env.name \notin DOMAIN symbol_table
    BY DEF SymbolAssert
  <2>1. stack # <<>>
    BY DEF IInv, Started
  <2>2. /\ Len(stack) \in Nat \ {0}
        /\ Env = grammar.node[stack[Len(stack)].p] /\ Local = locals[Len(stack)]
    BY <2>1, RunningFrame
  <2>3. Free(grammar, stack, locals, symbol_table, Len(stack)) /\ Local.i > 0
    BY DEF SymInv, Depth, ChildMatched
  <2>4. QED
    BY <2>2, <2>3 DEF Free
<1>3. QED
  BY <1>1, <1>2, IInvAlways, NextSymInv, PTL DEF Spec
=============================================================================
