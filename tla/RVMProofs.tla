----------------------------- MODULE RVMProofs -----------------------------
(* The stack of threads of h_rvm_run__m never outgrows its allocation, and   *)
(* no assertion of run_trace or of an action fails in programs with shapes.  *)
EXTENDS RVMShapes, FiniteSetTheorems, FunctionTheorems, SequenceTheorems, TLAPS

SvmOps == {"SVM_NOP", "SVM_PUSH", "SVM_ACTION", "SVM_CAPTURE", "SVM_ACCEPT"}
Traces == Seq([op : SvmOps, arg : Nat, input_pos : Nat])
Threads(A) == [ip : A, trace : Traces]

\* The instructions that were processed or queued for this byte.
Marked(seen, A) == {ip \in A : seen[ip] # 0}

\* Every thread on the stack q but the running one was put there by a fork,
\* which marked an instruction that was not marked before.
Paid(q, seen, A) ==
  q # <<>> => Len(q) <= Cardinality(Marked(seen, A) \cup {q[Len(q)].ip})

QueueOK(q, seen, A) ==
  /\ seen \in [A -> 0..2]
  /\ q \in Seq(Threads(A))
  /\ Paid(q, seen, A)

HeadsOK == heads_p \in Seq(Threads(Addresses)) /\ heads_n \in Seq(Threads(Addresses))

IInv ==
  /\ prog \in Programs /\ off \in Nat /\ visit \in Nat
  /\ HeadsOK
  /\ QueueOK(ip_queue, insn_seen, Addresses)

-----------------------------------------------------------------------------
(* The stack of threads, whatever the instruction. *)

\* The running thread.
LEMMA Running ==
  ASSUME NEW A, NEW q \in Seq(Threads(A)), q # <<>>
  PROVE  /\ Len(q) \in Nat /\ Len(q) > 0
         /\ q[Len(q)] \in Threads(A) /\ q[Len(q)].ip \in A
         /\ Front(q) \in Seq(Threads(A)) /\ Len(Front(q)) = Len(q) - 1
<1>1. Len(q) \in Nat /\ Len(q) > 0 /\ q[Len(q)] \in Threads(A)
  OBVIOUS
<1>2. q[Len(q)].ip \in A
  BY <1>1 DEF Threads
<1>3. Front(q) \in Seq(Threads(A)) /\ Len(Front(q)) = Len(q) - 1
  <2> DEFINE n == Len(q) - 1
  <2>1. n \in Int /\ n >= 0 /\ \A i \in 1..n : q[i] \in Threads(A)
    BY <1>1
  <2> HIDE DEF n
  <2>2. /\ SubSeq(q, 1, n) \in Seq(Threads(A))
        /\ Len(SubSeq(q, 1, n)) = IF 1 <= n THEN n - 1 + 1 ELSE 0
    BY <2>1, SubSeqProperties
  <2>3. (IF 1 <= n THEN n - 1 + 1 ELSE 0) = n
    BY <2>1
  <2>4. QED
    BY <2>2, <2>3 DEF Front, n
<1>4. QED
  BY <1>1, <1>2, <1>3

\* More marks, and no more threads.
LEMMA Enough ==
  ASSUME NEW A, IsFiniteSet(A), NEW q, NEW r, NEW seen, NEW more,
         QueueOK(q, seen, A), q # <<>>, r \in Seq(Threads(A)),
         Marked(seen, A) \cup {q[Len(q)].ip} \subseteq Marked(more, A),
         Len(r) <= Len(q)
  PROVE  Paid(r, more, A)
<1> DEFINE S == Marked(seen, A) \cup {q[Len(q)].ip}
           T == Marked(more, A) \cup {r[Len(r)].ip}
<1>1. SUFFICES ASSUME r # <<>> PROVE Len(r) <= Cardinality(T)
  BY DEF Paid
<1>2. r[Len(r)].ip \in A
  BY <1>1, Running
<1>3. T \subseteq A /\ S \subseteq T
  BY <1>2 DEF Marked
<1>4. IsFiniteSet(T) /\ Cardinality(T) \in Nat
  BY <1>3, FS_Subset, FS_CardinalityType
<1>5. Cardinality(S) <= Cardinality(T) /\ Cardinality(S) \in Nat
  BY <1>3, <1>4, FS_Subset, FS_CardinalityType
<1>6. Len(q) <= Cardinality(S)
  BY DEF QueueOK, Paid
<1>7. Len(q) \in Nat /\ Len(r) \in Nat
  BY DEF QueueOK
<1> HIDE DEF S, T
<1>8. QED
  BY <1>4, <1>5, <1>6, <1>7

\* The running thread ends, its instruction being marked.
LEMMA Pop ==
  ASSUME NEW A, IsFiniteSet(A), NEW q, NEW seen, QueueOK(q, seen, A), q # <<>>
  PROVE  LET ip == q[Len(q)].ip
         IN /\ QueueOK(Front(q), [seen EXCEPT ![ip] = 1], A)
            /\ seen[ip] = 1 => QueueOK(Front(q), seen, A)
<1> DEFINE ip == q[Len(q)].ip
           more == [seen EXCEPT ![ip] = 1]
<1>1. ip \in A /\ Len(q) \in Nat /\ Len(q) > 0
  BY Running DEF QueueOK
<1>2. Front(q) \in Seq(Threads(A)) /\ Len(Front(q)) = Len(q) - 1
  BY Running DEF QueueOK
<1>3. more \in [A -> 0..2] /\ Marked(seen, A) \cup {ip} \subseteq Marked(more, A)
  BY <1>1 DEF QueueOK, Marked
<1>4. Paid(Front(q), more, A)
  <2> HIDE DEF ip, more
  <2>1. QED
    BY <1>1, <1>2, <1>3, Enough DEF ip
<1>5. ASSUME seen[ip] = 1 PROVE Paid(Front(q), seen, A)
  <2>1. Marked(seen, A) \cup {ip} \subseteq Marked(seen, A)
    BY <1>1, <1>5 DEF Marked
  <2>2. QED
    BY <1>1, <1>2, <2>1, Enough
<1>6. QED
  BY <1>2, <1>3, <1>4, <1>5 DEF QueueOK

\* The running thread goes on elsewhere, its instruction being marked.
LEMMA Move ==
  ASSUME NEW A, IsFiniteSet(A), NEW q, NEW seen, QueueOK(q, seen, A), q # <<>>,
         NEW t \in Threads(A)
  PROVE  QueueOK(Append(Front(q), t), [seen EXCEPT ![q[Len(q)].ip] = 1], A)
<1> DEFINE ip == q[Len(q)].ip
           more == [seen EXCEPT ![ip] = 1]
           r == Append(Front(q), t)
<1>1. ip \in A /\ Len(q) \in Nat /\ Len(q) > 0
  BY Running DEF QueueOK
<1>2. r \in Seq(Threads(A)) /\ Len(r) = Len(q)
  <2>1. Front(q) \in Seq(Threads(A)) /\ Len(Front(q)) = Len(q) - 1
    BY Running DEF QueueOK
  <2>2. QED
    BY <1>1, <2>1
<1>3. more \in [A -> 0..2] /\ Marked(seen, A) \cup {ip} \subseteq Marked(more, A)
  BY <1>1 DEF QueueOK, Marked
<1>4. Paid(r, more, A)
  <2> HIDE DEF ip, more, r
  <2>1. QED
    BY <1>1, <1>2, <1>3, Enough DEF ip
<1>5. QED
  BY <1>2, <1>3, <1>4 DEF QueueOK

\* A fork: the new thread's instruction was not marked.
Forked(q, t, u) == Append(Append(Front(q), t), u)
Queued(seen, ip, then) == [[seen EXCEPT ![ip] = 1] EXCEPT ![then] = 2]
LEMMA Fork ==
  ASSUME NEW A, IsFiniteSet(A), NEW q, NEW seen, QueueOK(q, seen, A), q # <<>>,
         NEW t \in Threads(A), NEW u \in Threads(A),
         [seen EXCEPT ![q[Len(q)].ip] = 1][u.ip] = 0
  PROVE  QueueOK(Forked(q, t, u), Queued(seen, q[Len(q)].ip, t.ip), A)
<1> DEFINE ip == q[Len(q)].ip
           more == Queued(seen, ip, t.ip)
           r == Forked(q, t, u)
           S == Marked(seen, A) \cup {ip}
           T == Marked(more, A) \cup {u.ip}
<1>1. ip \in A /\ Len(q) \in Nat /\ Len(q) > 0
  BY Running DEF QueueOK
<1>2. r \in Seq(Threads(A)) /\ Len(r) = Len(q) + 1 /\ r[Len(r)] = u
  <2>1. Front(q) \in Seq(Threads(A)) /\ Len(Front(q)) = Len(q) - 1
    BY Running DEF QueueOK
  <2>2. QED
    BY <1>1, <2>1 DEF Forked
<1>3. t.ip \in A /\ u.ip \in A
  BY DEF Threads
<1>4. more \in [A -> 0..2] /\ S \subseteq Marked(more, A)
  BY <1>1, <1>3 DEF QueueOK, Marked, Queued
<1>5. u.ip \notin S
  BY <1>1, <1>3 DEF QueueOK, Marked
<1>6. S \cup {u.ip} \subseteq T /\ T \subseteq A /\ S \subseteq A
  BY <1>1, <1>3, <1>4 DEF Marked
<1>7. IsFiniteSet(S) /\ IsFiniteSet(T) /\ Cardinality(S) \in Nat /\ Cardinality(T) \in Nat
  BY <1>6, FS_Subset, FS_CardinalityType
<1>8. Cardinality(S \cup {u.ip}) = Cardinality(S) + 1
  BY <1>5, <1>7, FS_AddElement
<1>9. Cardinality(S \cup {u.ip}) <= Cardinality(T)
  BY <1>6, <1>7, FS_Subset
<1>10. Len(q) <= Cardinality(S)
  BY DEF QueueOK, Paid
<1>11. Len(r) <= Cardinality(T)
  <2> HIDE DEF S, T, r
  <2>1. QED
    BY <1>1, <1>2, <1>7, <1>8, <1>9, <1>10
<1>12. Paid(r, more, A)
  BY <1>2, <1>11 DEF Paid
<1>13. QED
  BY <1>2, <1>4, <1>12 DEF QueueOK

\* The bound follows: marks and running instruction are all addresses.
LEMMA Bound ==
  ASSUME NEW n \in Nat, NEW q, NEW seen, QueueOK(q, seen, 0..n - 1)
  PROVE  Len(q) <= n
<1> DEFINE A == 0..n - 1
           S == Marked(seen, A) \cup {q[Len(q)].ip}
<1>1. CASE q = <<>>
  BY <1>1
<1>2. CASE q # <<>>
  <2>1. Len(q) <= Cardinality(S) /\ Len(q) \in Nat
    BY <1>2 DEF QueueOK, Paid
  <2>2. S \subseteq A
    BY <1>2, Running DEF QueueOK, Marked
  <2>3. IsFiniteSet(A) /\ Cardinality(A) = n
    BY FS_Interval
  <2>4. Cardinality(S) <= n /\ Cardinality(S) \in Nat
    BY <2>2, <2>3, FS_Subset, FS_CardinalityType
  <2> HIDE DEF S
  <2>5. QED
    BY <2>1, <2>4
<1>3. QED
  BY <1>1, <1>2

-----------------------------------------------------------------------------
(* The instructions. *)

\* Jumps stay in the program, and so does the next address, because a program
\* ends with RVM_ACCEPT.
LEMMA Program ==
  ASSUME prog \in Programs
  PROVE  /\ Length \in Nat /\ Length > 0 /\ IsFiniteSet(Addresses) /\ 0 \in Addresses
         /\ \A ip \in Addresses :
              /\ ip \in Nat
              /\ Insn(ip).op # "RVM_ACCEPT" => ip + 1 \in Addresses
              /\ Insn(ip).op \in {"RVM_GOTO", "RVM_FORK"} => Insn(ip).arg \in Addresses
<1>1. Length \in Nat /\ Length > 0 /\ Insn(Length - 1).op = "RVM_ACCEPT"
  BY ProgramsAssumption DEF Length, Insn
<1>2. IsFiniteSet(Addresses) /\ 0 \in Addresses
  BY <1>1, FS_Interval DEF Addresses
<1>3. ASSUME NEW ip \in Addresses
      PROVE  /\ ip \in Nat /\ ip + 1 \in 1..Length
             /\ ip = Length - 1 \/ ip + 1 \in Addresses
  BY <1>1 DEF Addresses
<1>4. ASSUME NEW ip \in Addresses, Insn(ip).op \in {"RVM_GOTO", "RVM_FORK"}
      PROVE  Insn(ip).arg \in Addresses
  BY <1>3, <1>4, ProgramsAssumption DEF Insn, Length, Addresses
<1>5. QED
  BY <1>1, <1>2, <1>3, <1>4

\* What an instruction starts from.
LEMMA AtInsn ==
  ASSUME IInv, ip_queue # <<>>
  PROVE  /\ THREAD \in Threads(Addresses) /\ THREAD.ip \in Addresses /\ THREAD.ip \in Nat
         /\ THREAD.trace \in Traces
         /\ \A ip \in Addresses : [THREAD EXCEPT !.ip = ip] \in Threads(Addresses)
         /\ QueueOK(Others, Seen, Addresses)
         /\ insn_seen[THREAD.ip] = 1 => QueueOK(Others, insn_seen, Addresses)
<1>1. THREAD \in Threads(Addresses) /\ THREAD.ip \in Addresses
  BY Running DEF IInv, QueueOK, THREAD
<1>2. THREAD.trace \in Traces /\ \A ip \in Addresses : [THREAD EXCEPT !.ip = ip] \in Threads(Addresses)
  BY <1>1 DEF Threads
<1>3. IsFiniteSet(Addresses) /\ THREAD.ip \in Nat
  BY <1>1, Program DEF IInv
<1>4. /\ QueueOK(Others, Seen, Addresses)
      /\ insn_seen[THREAD.ip] = 1 => QueueOK(Others, insn_seen, Addresses)
  BY <1>3, Pop DEF IInv, THREAD, Others, Seen
<1>5. QED
  BY <1>1, <1>2, <1>3, <1>4

\* A thread that goes on.
LEMMA Moves ==
  ASSUME IInv, ip_queue # <<>>, NEW ip \in Addresses
  PROVE  QueueOK(Moved(ip), Seen, Addresses)
<1>1. [THREAD EXCEPT !.ip = ip] \in Threads(Addresses) /\ IsFiniteSet(Addresses)
  BY AtInsn, Program DEF IInv
<1>2. QED
  BY <1>1, Move DEF IInv, Moved, THREAD, Others, Seen

\* A thread that goes on, with one more entry in its trace.
LEMMA TracedMoves ==
  ASSUME IInv, ip_queue # <<>>, THREAD.ip + 1 \in Addresses, NEW op \in SvmOps, NEW arg \in Nat
  PROVE  QueueOK(Traced(Svm(op, arg)), Seen, Addresses)
<1> DEFINE t == [ip |-> THREAD.ip + 1, trace |-> <<Svm(op, arg)>> \o THREAD.trace]
<1>1. Svm(op, arg) \in [op : SvmOps, arg : Nat, input_pos : Nat]
  BY DEF Svm, IInv
<1>2. <<Svm(op, arg)>> \o THREAD.trace \in Traces
  BY <1>1, AtInsn DEF Traces
<1>3. t \in Threads(Addresses) /\ IsFiniteSet(Addresses)
  BY <1>2, Program DEF IInv, Threads
<1> HIDE DEF t
<1>4. QED
  BY <1>3, Move DEF IInv, Traced, THREAD, Others, Seen, t

\* A thread that forks.
LEMMA Forks ==
  ASSUME IInv, ip_queue # <<>>, THREAD.ip + 1 \in Addresses, NEW target \in Addresses,
         Seen[target] = 0
  PROVE  QueueOK(Append(Moved(THREAD.ip + 1), [THREAD EXCEPT !.ip = target]),
                 [Seen EXCEPT ![THREAD.ip + 1] = 2], Addresses)
<1> DEFINE t == [THREAD EXCEPT !.ip = THREAD.ip + 1]
           u == [THREAD EXCEPT !.ip = target]
<1>1. t \in Threads(Addresses) /\ u \in Threads(Addresses) /\ IsFiniteSet(Addresses)
  BY AtInsn, Program DEF IInv
<1>2. t.ip = THREAD.ip + 1 /\ u.ip = target
  BY AtInsn DEF Threads
<1> HIDE DEF t, u
<1>3. QueueOK(Forked(ip_queue, t, u), Queued(insn_seen, THREAD.ip, t.ip), Addresses)
  BY <1>1, <1>2, Fork DEF IInv, Seen, THREAD
<1>4. QED
  BY <1>2, <1>3 DEF Forked, Queued, Moved, Others, Seen, t, u

\* A thread that is kept for the next byte.
LEMMA Sets ==
  ASSUME NEW S, NEW heads \in Seq(S), NEW ip, NEW tr, NEW t \in S, t = [ip |-> ip, trace |-> tr]
  PROVE  Set(heads, ip, tr) \in Seq(S)
<1> DEFINE e(i) == IF heads[i].ip = ip THEN t ELSE heads[i]
<1>1. \A i \in 1..Len(heads) : e(i) \in S
  OBVIOUS
<1>2. [i \in DOMAIN heads |-> e(i)] \in Seq(S)
  <2>1. [i \in DOMAIN heads |-> e(i)] \in [1..Len(heads) -> S]
    BY <1>1
  <2>2. QED
    BY <2>1
<1>3. Append(heads, t) \in Seq(S)
  OBVIOUS
<1>4. QED
  BY <1>2, <1>3 DEF Set

\* An empty stack of threads, after the marks were cleared.
LEMMA Cleared ==
  ASSUME NEW A, NEW seen \in [A -> 0..2]
  PROVE  QueueOK(<<>>, seen, A)
BY DEF QueueOK, Paid

\* A stack of one thread.
LEMMA Single ==
  ASSUME NEW A, IsFiniteSet(A), NEW seen \in [A -> 0..2], NEW t \in Threads(A)
  PROVE  QueueOK(<<t>>, seen, A)
<1> DEFINE S == Marked(seen, A) \cup {t.ip}
<1>1. t.ip \in A
  BY DEF Threads
<1>2. S \subseteq A /\ {t.ip} \subseteq S
  BY <1>1 DEF Marked
<1>3. IsFiniteSet(S) /\ Cardinality(S) \in Nat
  BY <1>2, FS_Subset, FS_CardinalityType
<1>4. Cardinality({t.ip}) = 1 /\ Cardinality({t.ip}) <= Cardinality(S)
  BY <1>2, <1>3, FS_Subset, FS_Singleton
<1>5. <<t>> \in Seq(Threads(A)) /\ Len(<<t>>) = 1 /\ <<t>>[Len(<<t>>)].ip = t.ip
  OBVIOUS
<1> HIDE DEF S
<1>6. QED
  BY <1>3, <1>4, <1>5 DEF QueueOK, Paid, S

-----------------------------------------------------------------------------
(* The invariant. *)

\* The first thread is at address 0, and the stack of threads is empty.
LEMMA InitInv == Init => IInv
<1> SUFFICES ASSUME Init PROVE IInv
  OBVIOUS
<1>1. prog \in Programs /\ off \in Nat /\ visit \in Nat
  BY DEF Init
<1>2. 0 \in Addresses
  BY <1>1, Program
<1>3. QueueOK(ip_queue, insn_seen, Addresses)
  BY Cleared DEF Init
<1>4. heads_n \in Seq(Threads(Addresses)) /\ heads_p \in Seq(Threads(Addresses))
  <2> DEFINE e == [op |-> "SVM_NOP", arg |-> 0, input_pos |-> 0]
             t == [ip |-> 0, trace |-> <<e>>]
  <2>1. e \in [op : SvmOps, arg : Nat, input_pos : Nat]
    BY DEF SvmOps
  <2> HIDE DEF e
  <2>2. <<e>> \in Traces
    BY <2>1 DEF Traces
  <2>3. t \in Threads(Addresses)
    BY <1>2, <2>2 DEF Threads
  <2> HIDE DEF t
  <2>4. heads_n = <<t>> /\ heads_p = <<>>
    BY DEF Init, t, e
  <2>5. QED
    BY <2>3, <2>4
<1>5. QED
  BY <1>1, <1>3, <1>4 DEF IInv, HeadsOK

\* One step per action; an instruction disturbs the stack and the marks only.
LEMMA NextInv == IInv /\ [Next]_vars => IInv'
<1> SUFFICES ASSUME IInv, [Next]_vars PROVE IInv'
  OBVIOUS
<1> USE DEF IInv
<1>1. prog' = prog => Addresses' = Addresses
  BY DEF Addresses, Length
<1>2. /\ Length \in Nat /\ IsFiniteSet(Addresses)
      /\ \A ip \in Addresses :
           /\ ip \in Nat
           /\ Insn(ip).op # "RVM_ACCEPT" => ip + 1 \in Addresses
           /\ Insn(ip).op \in {"RVM_GOTO", "RVM_FORK"} => Insn(ip).arg \in Addresses
  BY Program
<1>3. ASSUME UNCHANGED <<prog, off, visit, heads_p, heads_n, ip_queue, insn_seen>> PROVE IInv'
  BY <1>1, <1>3 DEF HeadsOK
<1>4. CASE UNCHANGED vars
  BY <1>3, <1>4 DEF vars, machine
<1>5. CASE Replay
  <2>1. UNCHANGED <<prog, machine>>
    BY <1>5 DEF Replay, MatchFail, SVM_NOP, SVM_PUSH, SVM_CAPTURE, SVM_ACCEPT, Pushed, Stop,
      h_svm_action_make_sequence, h_svm_action_clear_to_mark, h_svm_action_action,
      h_svm_action_attr_bool, h_svm_action_ch, h_svm_action_bits, h_svm_action_pop, h_svm_action_optional,
      h_svm_action_validate_int_range, h_svm_action_ignoreseq
  <2>2. QED
    BY <1>3, <2>1 DEF machine
<1>6. CASE Finished
  BY <1>4, <1>6 DEF Finished
<1>7. CASE NextChar
  <2>1. insn_seen' \in [Addresses -> 0..2] /\ ip_queue' = <<>>
    BY <1>7 DEF NextChar
  <2>2. QueueOK(ip_queue', insn_seen', Addresses)
    BY <2>1, Cleared
  <2>3. QED
    BY <1>1, <1>7, <2>2 DEF NextChar, HeadsOK
<1>8. CASE NoMoreChars
  BY <1>3, <1>8 DEF NoMoreChars, machine
<1>9. CASE NextHead
  <2>1. Visited(visit) \in Threads(Addresses)
    <3>1. (IF visit = 0 THEN 1 ELSE visit) \in 1..Len(heads_p)
      BY <1>9 DEF NextHead, HeadsOK
    <3>2. QED
      BY <3>1 DEF Visited, HeadsOK
  <2>2. QueueOK(<<Visited(visit)>>, insn_seen, Addresses)
    BY <1>2, <2>1, Single DEF QueueOK
  <2>3. QED
    BY <1>1, <1>9, <2>2 DEF NextHead, HeadsOK
<1>10. CASE NoMoreHeads
  BY <1>1, <1>10 DEF NoMoreHeads, HeadsOK
<1>11. ASSUME QueueOK(ip_queue', insn_seen', Addresses), Frame, UNCHANGED heads_n
       PROVE  IInv'
  BY <1>1, <1>11 DEF Frame, HeadsOK
<1>12. CASE Kill
  BY <1>11, <1>12, AtInsn DEF Kill
<1>13. CASE RVM_ACCEPT
  BY <1>11, <1>13, AtInsn DEF RVM_ACCEPT, At
<1>14. CASE RVM_MATCH
  <2>1. QueueOK(Others, Seen, Addresses) /\ QueueOK(Moved(THREAD.ip + 1), Seen, Addresses)
    BY <1>2, <1>14, AtInsn, Moves DEF RVM_MATCH, At
  <2>2. QED
    BY <1>11, <1>14, <2>1 DEF RVM_MATCH
<1>15. CASE RVM_GOTO
  BY <1>2, <1>11, <1>15, AtInsn, Moves DEF RVM_GOTO, At
<1>16. CASE RVM_FORK
  <2>1. ip_queue # <<>> /\ THREAD.ip + 1 \in Addresses /\ Insn(THREAD.ip).arg \in Addresses
    BY <1>2, <1>16, AtInsn DEF RVM_FORK, At
  <2>2. QueueOK(Moved(THREAD.ip + 1), Seen, Addresses)
    BY <2>1, Moves
  <2>3. QueueOK(ip_queue', insn_seen', Addresses)
    BY <1>16, <2>1, <2>2, Forks DEF RVM_FORK
  <2>4. QED
    BY <1>11, <1>16, <2>3 DEF RVM_FORK
<1>17. CASE RVM_PUSH
  <2>1. ip_queue # <<>> /\ THREAD.ip + 1 \in Addresses /\ 0 \in Nat
    BY <1>2, <1>17, AtInsn DEF RVM_PUSH, At
  <2>2. QueueOK(Traced(Svm("SVM_PUSH", 0)), Seen, Addresses)
    BY <2>1, TracedMoves DEF SvmOps
  <2>3. QED
    BY <1>11, <1>17, <2>2 DEF RVM_PUSH
<1>18. CASE RVM_ACTION
  <2>1. ip_queue # <<>> /\ THREAD.ip + 1 \in Addresses /\ THREAD.ip \in Nat
    BY <1>2, <1>18, AtInsn DEF RVM_ACTION, At
  <2>2. QueueOK(Traced(Svm("SVM_ACTION", THREAD.ip)), Seen, Addresses)
    BY <2>1, TracedMoves DEF SvmOps
  <2>3. QED
    BY <1>11, <1>18, <2>2 DEF RVM_ACTION
<1>19. CASE RVM_CAPTURE
  <2>1. ip_queue # <<>> /\ THREAD.ip + 1 \in Addresses /\ 0 \in Nat
    BY <1>2, <1>19, AtInsn DEF RVM_CAPTURE, At
  <2>2. QueueOK(Traced(Svm("SVM_CAPTURE", 0)), Seen, Addresses)
    BY <2>1, TracedMoves DEF SvmOps
  <2>3. QED
    BY <1>11, <1>19, <2>2 DEF RVM_CAPTURE
<1>20. CASE RVM_EOF
  <2>1. QueueOK(Others, Seen, Addresses) /\ QueueOK(Moved(THREAD.ip + 1), Seen, Addresses)
    BY <1>2, <1>20, AtInsn, Moves DEF RVM_EOF, At
  <2>2. QED
    BY <1>11, <1>20, <2>1 DEF RVM_EOF
<1>21. CASE RVM_STEP
  <2>1. ip_queue # <<>> /\ THREAD.ip + 1 \in Addresses /\ THREAD.trace \in Traces
        /\ QueueOK(Others, Seen, Addresses)
    BY <1>2, <1>21, AtInsn DEF RVM_STEP, At
  <2>2. heads_n' \in Seq(Threads(Addresses))
    <3>1. PICK t : t = [ip |-> THREAD.ip + 1, trace |-> THREAD.trace]
      OBVIOUS
    <3>2. t \in Threads(Addresses)
      BY <2>1, <3>1 DEF Threads
    <3>3. QED
      BY <1>21, <3>1, <3>2, Sets DEF RVM_STEP, HeadsOK
  <2>3. QED
    BY <1>1, <1>21, <2>1, <2>2 DEF RVM_STEP, Frame, HeadsOK
<1>22. QED
  BY <1>4, <1>5, <1>6, <1>7, <1>8, <1>9, <1>10, <1>12, <1>13, <1>14, <1>15, <1>16, <1>17,
     <1>18, <1>19, <1>20, <1>21 DEF Next, Loops, Instruction

-----------------------------------------------------------------------------

\* The stack of threads stays in the array allocated for it, for every program
\* whose jumps stay inside and every input (h_rvm_run__m, whose RVM_FORK does
\* not test for room).
THEOREM RVMQueueInBounds == Spec => []QueueInBounds
<1>1. IInv => QueueInBounds
  <2>1. SUFFICES ASSUME IInv PROVE Len(ip_queue) <= Length
    BY DEF QueueInBounds
  <2>2. Length \in Nat
    BY <2>1, Program DEF IInv
  <2>3. QED
    BY <2>1, <2>2, Bound DEF IInv, Addresses
<1>2. QED
  BY InitInv, NextInv, <1>1, PTL DEF Spec

-----------------------------------------------------------------------------
(* The stack of run_trace, and what a shape says of it. *)

\* A sequence of no matter what.
IsSeq(s) == s \in Seq(Range(s))

Counted(c, n) == IF c = 2 THEN n >= 2 ELSE n = c

\* at[1] is the bottom of the stack s, and at[j + 1] the place of its mark j; segment j
\* ends at the next mark, or at the top.
EndOf(s, at, j) == IF j = Len(at) THEN Len(s) ELSE at[j + 1] - 1

Placed(s, segs, at) ==
  /\ IsSeq(s) /\ segs \in Seq(0..2) /\ at \in Seq(Nat) /\ Len(at) = Len(segs) /\ Len(at) > 0
  /\ at[1] = 0 /\ \A j \in 1..Len(at) : at[j] <= Len(s)
  /\ \A i, j \in 1..Len(at) : i < j => at[i] < at[j]
  /\ \A i \in 1..Len(s) : IsMark(s[i]) <=> \E j \in 2..Len(at) : at[j] = i
  /\ \A j \in 1..Len(at) : Counted(segs[j], EndOf(s, at, j) - at[j])

\* What is known of the top.
Holds(s, top) ==
  /\ \A i \in 1..Len(s) : s[i] # NULL \/ (i = Len(s) /\ top = "null")
  /\ top = "bytes" => s # <<>> /\ s[Len(s)][1] = "TT_BYTES"

Fits(s, sh) == sh \in Shape /\ Holds(s, sh.top) /\ \E at : Placed(s, sh.segs, at)

LEMMA SeqFacts ==
  ASSUME NEW s, IsSeq(s)
  PROVE  Len(s) \in Nat /\ DOMAIN s = 1..Len(s) /\ (s = <<>> <=> Len(s) = 0)
<1>1. s \in Seq(Range(s))
  BY DEF IsSeq
<1>2. QED
  BY <1>1

LEMMA SeqIs ==
  ASSUME NEW S, NEW s \in Seq(S)
  PROVE  IsSeq(s)
<1>1. Len(s) \in Nat /\ s \in [1..Len(s) -> S]
  OBVIOUS
<1>2. s \in [1..Len(s) -> Range(s)]
  BY <1>1 DEF Range
<1>3. QED
  BY <1>1, <1>2 DEF IsSeq

LEMMA SeqAppend ==
  ASSUME NEW s, IsSeq(s), NEW x
  PROVE  LET t == Append(s, x)
         IN /\ IsSeq(t) /\ Len(t) = Len(s) + 1 /\ t[Len(s) + 1] = x
            /\ \A j \in 1..Len(s) : t[j] = s[j]
<1> DEFINE t == Append(s, x)
           S == Range(s) \cup {x}
<1>1. s \in Seq(S) /\ Len(s) \in Nat /\ DOMAIN s = 1..Len(s)
  BY DEF IsSeq
<1>2. t \in Seq(S) /\ Len(t) = Len(s) + 1 /\ t[Len(s) + 1] = x
      /\ \A j \in 1..Len(s) : t[j] = s[j]
  BY <1>1
<1>3. IsSeq(t)
  BY <1>2, SeqIs
<1>4. QED
  BY <1>2, <1>3

LEMMA SeqPrefix ==
  ASSUME NEW s, IsSeq(s), NEW n \in 0..Len(s)
  PROVE  LET t == SubSeq(s, 1, n)
         IN IsSeq(t) /\ Len(t) = n /\ \A j \in 1..n : t[j] = s[j]
<1>1. s \in Seq(Range(s)) /\ Len(s) \in Nat
  BY DEF IsSeq
<1>2. \A i \in 1..n : s[i] \in Range(s)
  BY <1>1
<1>3. /\ SubSeq(s, 1, n) \in Seq(Range(s))
      /\ Len(SubSeq(s, 1, n)) = IF 1 <= n THEN n - 1 + 1 ELSE 0
      /\ \A i \in 1..n - 1 + 1 : SubSeq(s, 1, n)[i] = s[1 + i - 1]
  BY <1>1, <1>2, SubSeqProperties
<1>4. (IF 1 <= n THEN n - 1 + 1 ELSE 0) = n /\ \A i \in 1..n : i \in 1..n - 1 + 1 /\ 1 + i - 1 = i
  OBVIOUS
<1>5. IsSeq(SubSeq(s, 1, n))
  BY <1>3, SeqIs
<1>6. QED
  BY <1>3, <1>4, <1>5

\* A prefix of a sequence of a set.
LEMMA TypedPrefix ==
  ASSUME NEW S, NEW s \in Seq(S), NEW n \in 0..Len(s)
  PROVE  LET t == SubSeq(s, 1, n)
         IN t \in Seq(S) /\ Len(t) = n /\ \A j \in 1..n : t[j] = s[j]
<1>1. IsSeq(s)
  BY SeqIs
<1>2. LET t == SubSeq(s, 1, n) IN Len(t) = n /\ IsSeq(t) /\ \A j \in 1..n : t[j] = s[j]
  BY <1>1, SeqPrefix
<1>3. SubSeq(s, 1, n) \in Seq(S)
  <2>1. n \in Int /\ \A i \in 1..n : s[i] \in S
    OBVIOUS
  <2>2. QED
    BY <2>1, SubSeqProperties
<1>4. QED
  BY <1>2, <1>3

\* A mark is pushed.
LEMMA PlacedMark ==
  ASSUME NEW s, NEW segs, NEW at, Placed(s, segs, at), NEW m, IsMark(m)
  PROVE  Placed(Append(s, m), Append(segs, 0), Append(at, Len(s) + 1))
<1> DEFINE t == Append(s, m)
           g == Append(segs, 0)
           a == Append(at, Len(s) + 1)
<1>0. /\ IsSeq(s) /\ segs \in Seq(0..2) /\ at \in Seq(Nat) /\ Len(at) = Len(segs) /\ Len(at) > 0
      /\ at[1] = 0 /\ \A j \in 1..Len(at) : at[j] <= Len(s)
      /\ \A i, j \in 1..Len(at) : i < j => at[i] < at[j]
      /\ \A i \in 1..Len(s) : IsMark(s[i]) <=> \E j \in 2..Len(at) : at[j] = i
      /\ \A j \in 1..Len(at) : Counted(segs[j], EndOf(s, at, j) - at[j])
  BY DEF Placed
<1>1. Len(s) \in Nat /\ IsSeq(s)
  BY <1>0, SeqFacts
<1>2. IsSeq(t) /\ Len(t) = Len(s) + 1 /\ t[Len(s) + 1] = m /\ \A j \in 1..Len(s) : t[j] = s[j]
  BY <1>1, SeqAppend
<1>3. PICK n \in Nat : n = Len(at) /\ n > 0
  BY <1>0
<1>4. /\ g \in Seq(0..2) /\ Len(g) = n + 1 /\ g[n + 1] = 0 /\ \A j \in 1..n : g[j] = segs[j]
      /\ a \in Seq(Nat) /\ Len(a) = n + 1 /\ a[n + 1] = Len(s) + 1 /\ \A j \in 1..n : a[j] = at[j]
  BY <1>0, <1>1, <1>3
<1>5. \A j \in 1..n : at[j] \in Nat /\ at[j] <= Len(s)
  BY <1>0, <1>3
<1> HIDE DEF t, g, a
<1>50. \A j \in 1..Len(a) : j \in 1..n \/ j = n + 1
  BY <1>3, <1>4
<1>51. 1 \in 1..n /\ Len(s) + 1 \in Nat /\ Len(s) < Len(s) + 1
  BY <1>1, <1>3
<1>6. a[1] = 0 /\ \A j \in 1..Len(a) : a[j] <= Len(t)
  <2>1. ASSUME NEW j \in 1..Len(a) PROVE a[j] <= Len(t)
    <3>1. CASE j \in 1..n
      BY <1>1, <1>2, <1>4, <1>5, <3>1
    <3>2. CASE j = n + 1
      BY <1>2, <1>4, <1>51, <3>2
    <3>3. QED
      BY <1>50, <3>1, <3>2
  <2>2. QED
    BY <1>0, <1>4, <1>51, <2>1
<1>7. ASSUME NEW i \in 1..Len(a), NEW j \in 1..Len(a), i < j PROVE a[i] < a[j]
  <2>1. i \in 1..n
    BY <1>3, <1>4, <1>7
  <2>2. CASE j \in 1..n
    BY <1>0, <1>3, <1>4, <1>7, <2>1, <2>2
  <2>3. CASE j = n + 1
    <3>1. a[i] = at[i] /\ at[i] \in Nat /\ at[i] <= Len(s) /\ a[j] = Len(s) + 1
      BY <1>4, <1>5, <2>1, <2>3
    <3>2. QED
      BY <1>1, <3>1
  <2>4. QED
    BY <1>50, <2>2, <2>3
<1>8. ASSUME NEW i \in 1..Len(t) PROVE IsMark(t[i]) <=> \E j \in 2..Len(a) : a[j] = i
  <2>1. CASE i = Len(s) + 1
    <3>1. IsMark(t[i]) /\ n + 1 \in 2..Len(a) /\ a[n + 1] = i
      BY <1>2, <1>3, <1>4, <2>1
    <3>2. QED
      BY <3>1
  <2>2. CASE i # Len(s) + 1
    <3>1. i \in 1..Len(s) /\ t[i] = s[i]
      BY <1>1, <1>2, <1>8, <2>2
    <3>2. IsMark(s[i]) <=> \E j \in 2..n : at[j] = i
      BY <1>0, <1>3, <3>1
    <3>3. (\E j \in 2..n : at[j] = i) <=> (\E j \in 2..Len(a) : a[j] = i)
      <4>1. ASSUME NEW j \in 2..n PROVE j \in 2..Len(a) /\ a[j] = at[j]
        BY <1>3, <1>4, <4>1
      <4>2. ASSUME NEW j \in 2..Len(a), a[j] = i PROVE j \in 2..n
        <5>1. j # n + 1
          BY <1>4, <2>2, <4>2
        <5>2. QED
          BY <1>3, <1>4, <5>1
      <4>3. QED
        BY <4>1, <4>2
    <3>4. QED
      BY <3>1, <3>2, <3>3
  <2>3. QED
    BY <2>1, <2>2
<1>9. ASSUME NEW j \in 1..Len(a) PROVE Counted(g[j], EndOf(t, a, j) - a[j])
  <2>1. CASE j = n + 1
    BY <1>1, <1>2, <1>4, <2>1 DEF Counted, EndOf
  <2>2. CASE j # n + 1
    <3>1. j \in 1..n /\ g[j] = segs[j] /\ a[j] = at[j]
      BY <1>3, <1>4, <1>9, <2>2
    <3>2. EndOf(t, a, j) = EndOf(s, at, j)
      <4>1. CASE j = n
        BY <1>1, <1>3, <1>4, <4>1 DEF EndOf
      <4>2. CASE j # n
        BY <1>3, <1>4, <3>1, <4>2 DEF EndOf
      <4>3. QED
        BY <4>1, <4>2
    <3>3. Counted(segs[j], EndOf(s, at, j) - at[j])
      BY <1>0, <1>3, <3>1
    <3>4. QED
      BY <3>1, <3>2, <3>3
  <2>3. QED
    BY <2>1, <2>2
<1>10. Len(a) = Len(g) /\ Len(a) > 0
  BY <1>3, <1>4
<1>11. Placed(t, g, a)
  BY <1>2, <1>4, <1>6, <1>7, <1>8, <1>9, <1>10 DEF Placed
<1>12. QED
  BY <1>11 DEF t, g, a

Bumped(segs) == [segs EXCEPT ![Len(segs)] = OneMore(segs[Len(segs)])]

\* A token is pushed.
LEMMA PlacedToken ==
  ASSUME NEW s, NEW segs, NEW at, Placed(s, segs, at), NEW x, ~IsMark(x)
  PROVE  Placed(Append(s, x), Bumped(segs), at)
<1> DEFINE t == Append(s, x)
           g == Bumped(segs)
<1>0. /\ IsSeq(s) /\ segs \in Seq(0..2) /\ at \in Seq(Nat) /\ Len(at) = Len(segs) /\ Len(at) > 0
      /\ at[1] = 0 /\ \A j \in 1..Len(at) : at[j] <= Len(s)
      /\ \A i, j \in 1..Len(at) : i < j => at[i] < at[j]
      /\ \A i \in 1..Len(s) : IsMark(s[i]) <=> \E j \in 2..Len(at) : at[j] = i
      /\ \A j \in 1..Len(at) : Counted(segs[j], EndOf(s, at, j) - at[j])
  BY DEF Placed
<1>1. Len(s) \in Nat /\ IsSeq(s)
  BY <1>0, SeqFacts
<1>2. IsSeq(t) /\ Len(t) = Len(s) + 1 /\ t[Len(s) + 1] = x /\ \A j \in 1..Len(s) : t[j] = s[j]
  BY <1>1, SeqAppend
<1>3. PICK n \in Nat : n = Len(at) /\ n > 0 /\ n = Len(segs)
  BY <1>0
<1>4. segs[n] \in 0..2
  BY <1>0, <1>3
<1>5. /\ g \in Seq(0..2) /\ Len(g) = n /\ g[n] = OneMore(segs[n])
      /\ \A j \in 1..n : j # n => g[j] = segs[j]
  BY <1>0, <1>3, <1>4 DEF Bumped, OneMore
<1>6. \A j \in 1..n : at[j] \in Nat /\ at[j] <= Len(s)
  BY <1>0, <1>3
<1> HIDE DEF t, g
<1>7. at[1] = 0 /\ \A j \in 1..Len(at) : at[j] <= Len(t)
  BY <1>0, <1>1, <1>2, <1>3, <1>6
<1>8. ASSUME NEW i \in 1..Len(t) PROVE IsMark(t[i]) <=> \E j \in 2..Len(at) : at[j] = i
  <2>1. CASE i = Len(s) + 1
    BY <1>1, <1>2, <1>3, <1>6, <2>1
  <2>2. CASE i # Len(s) + 1
    <3>1. i \in 1..Len(s) /\ t[i] = s[i]
      BY <1>1, <1>2, <1>8, <2>2
    <3>2. QED
      BY <1>0, <3>1
  <2>3. QED
    BY <2>1, <2>2
<1>9. ASSUME NEW j \in 1..Len(at) PROVE Counted(g[j], EndOf(t, at, j) - at[j])
  <2>1. Counted(segs[j], EndOf(s, at, j) - at[j])
    BY <1>0
  <2>2. CASE j = n
    <3>1. at[j] \in Nat /\ Counted(segs[n], Len(s) - at[j]) /\ at[j] <= Len(s)
      BY <1>3, <1>6, <2>1, <2>2 DEF EndOf
    <3>2. EndOf(t, at, j) = Len(s) + 1 /\ g[j] = OneMore(segs[n])
      BY <1>2, <1>3, <1>5, <2>2 DEF EndOf
    <3>3. QED
      BY <1>1, <1>4, <3>1, <3>2 DEF Counted, OneMore
  <2>3. CASE j # n
    <3>1. g[j] = segs[j] /\ EndOf(t, at, j) = EndOf(s, at, j)
      BY <1>3, <1>5, <2>3 DEF EndOf
    <3>2. QED
      BY <2>1, <3>1
  <2>4. QED
    BY <2>2, <2>3
<1>10. QED
  BY <1>0, <1>2, <1>3, <1>5, <1>7, <1>8, <1>9 DEF Placed, t, g

\* The stack is cut off below a mark.
LEMMA PlacedCut ==
  ASSUME NEW s, NEW segs, NEW at, Placed(s, segs, at), NEW k \in 1..Len(at) - 1
  PROVE  /\ at[k + 1] \in 1..Len(s)
         /\ Placed(SubSeq(s, 1, at[k + 1] - 1), SubSeq(segs, 1, k), SubSeq(at, 1, k))
<1> DEFINE t == SubSeq(s, 1, at[k + 1] - 1)
           g == SubSeq(segs, 1, k)
           a == SubSeq(at, 1, k)
<1>0. /\ IsSeq(s) /\ segs \in Seq(0..2) /\ at \in Seq(Nat) /\ Len(at) = Len(segs) /\ Len(at) > 0
      /\ at[1] = 0 /\ \A j \in 1..Len(at) : at[j] <= Len(s)
      /\ \A i, j \in 1..Len(at) : i < j => at[i] < at[j]
      /\ \A i \in 1..Len(s) : IsMark(s[i]) <=> \E j \in 2..Len(at) : at[j] = i
      /\ \A j \in 1..Len(at) : Counted(segs[j], EndOf(s, at, j) - at[j])
  BY DEF Placed
<1>1. Len(s) \in Nat /\ IsSeq(s)
  BY <1>0, SeqFacts
<1>2. PICK n \in Nat : n = Len(at) /\ n > 0 /\ n = Len(segs)
  BY <1>0
<1>3. k \in Nat /\ k + 1 \in 1..n /\ k \in 1..n /\ k \in 0..Len(at) /\ k \in 0..Len(segs)
  BY <1>2
<1>4. \A j \in 1..n : at[j] \in Nat /\ at[j] <= Len(s)
  BY <1>0, <1>2
<1>5. at[1] < at[k + 1]
  BY <1>0, <1>2, <1>3
<1>6. PICK b \in Nat : b = at[k + 1] - 1 /\ b \in 0..Len(s) /\ b < Len(s)
  <2>1. PICK c \in Nat : c = at[k + 1] /\ c <= Len(s)
    BY <1>3, <1>4
  <2>2. c > 0
    BY <1>0, <1>5, <2>1
  <2>3. c - 1 \in Nat /\ c - 1 \in 0..Len(s) /\ c - 1 < Len(s)
    BY <1>1, <2>1, <2>2
  <2>4. QED
    BY <2>1, <2>3
<1>7. IsSeq(t) /\ Len(t) = b /\ \A j \in 1..b : t[j] = s[j]
  BY <1>1, <1>6, SeqPrefix
<1>8. g \in Seq(0..2) /\ Len(g) = k /\ \A j \in 1..k : g[j] = segs[j]
  BY <1>0, <1>3, TypedPrefix
<1>9. a \in Seq(Nat) /\ Len(a) = k /\ \A j \in 1..k : a[j] = at[j]
  BY <1>0, <1>3, TypedPrefix
<1> HIDE DEF t, g, a
<1>10. \A j \in 1..k : at[j] < at[k + 1] /\ j \in 1..n
  BY <1>0, <1>2, <1>3
<1>11. a[1] = 0 /\ \A j \in 1..Len(a) : a[j] <= Len(t)
  <2>1. 1 \in 1..k /\ at[k + 1] \in Nat
    BY <1>3, <1>4
  <2>2. ASSUME NEW j \in 1..k PROVE at[j] <= b
    <3>1. at[j] \in Nat /\ at[j] < at[k + 1]
      BY <1>4, <1>10
    <3>2. QED
      BY <1>6, <2>1, <3>1
  <2>3. QED
    BY <1>0, <1>7, <1>9, <2>1, <2>2
<1>12. \A i, j \in 1..Len(a) : i < j => a[i] < a[j]
  BY <1>0, <1>2, <1>9, <1>10
<1>13. ASSUME NEW i \in 1..Len(t) PROVE IsMark(t[i]) <=> \E j \in 2..Len(a) : a[j] = i
  <2>1. i \in 1..Len(s) /\ t[i] = s[i] /\ i < at[k + 1]
    BY <1>1, <1>3, <1>4, <1>6, <1>7, <1>13
  <2>2. IsMark(s[i]) <=> \E j \in 2..n : at[j] = i
    BY <1>0, <1>2, <2>1
  <2>3. ASSUME NEW j \in 2..n, at[j] = i PROVE j \in 2..k
    <3>1. j \in 1..n /\ (k + 1 < j => at[k + 1] < at[j])
      BY <1>0, <1>2, <1>3, <2>3
    <3>2. at[j] \in Nat /\ at[k + 1] \in Nat /\ at[j] < at[k + 1]
      BY <1>3, <1>4, <2>1, <2>3, <3>1
    <3>3. ~(k + 1 < j) /\ j # k + 1
      BY <3>1, <3>2
    <3>4. QED
      BY <1>3, <3>3
  <2>4. ASSUME NEW j \in 2..k PROVE j \in 2..n /\ j \in 2..Len(a) /\ a[j] = at[j]
    BY <1>3, <1>9, <2>4
  <2>5. Len(a) = k
    BY <1>9
  <2>6. (\E j \in 2..n : at[j] = i) <=> (\E j \in 2..Len(a) : a[j] = i)
    BY <2>3, <2>4, <2>5
  <2>7. QED
    BY <2>1, <2>2, <2>6
<1>14. ASSUME NEW j \in 1..Len(a) PROVE Counted(g[j], EndOf(t, a, j) - a[j])
  <2>1. j \in 1..Len(at) /\ j # Len(at) /\ j \in 1..k
    BY <1>2, <1>3, <1>9, <1>14
  <2>2. Counted(segs[j], EndOf(s, at, j) - at[j]) /\ EndOf(s, at, j) = at[j + 1] - 1
    BY <1>0, <2>1 DEF EndOf
  <2>3. EndOf(t, a, j) = at[j + 1] - 1
    <3>1. CASE j = k
      BY <1>6, <1>7, <1>9, <3>1 DEF EndOf
    <3>2. CASE j # k
      <4>1. j + 1 \in 1..k
        BY <1>3, <2>1, <3>2
      <4>2. QED
        BY <1>9, <3>2, <4>1 DEF EndOf
    <3>3. QED
      BY <3>1, <3>2
  <2>4. QED
    BY <1>8, <1>9, <2>1, <2>2, <2>3
<1>15. Placed(t, g, a)
  BY <1>3, <1>7, <1>8, <1>9, <1>11, <1>12, <1>13, <1>14 DEF Placed
<1>16. at[k + 1] \in 1..Len(s)
  BY <1>1, <1>3, <1>4, <1>6
<1>17. QED
  BY <1>15, <1>16 DEF t, g, a

\* What Placed says, one by one.
LEMMA PlacedFacts ==
  ASSUME NEW s, NEW segs, NEW at, Placed(s, segs, at)
  PROVE  /\ IsSeq(s) /\ Len(s) \in Nat /\ segs \in Seq(0..2) /\ at \in Seq(Nat)
         /\ Len(at) \in Nat /\ Len(at) > 0 /\ Len(segs) = Len(at) /\ at[1] = 0
         /\ \A j \in 1..Len(at) : at[j] \in 0..Len(s) /\ segs[j] \in 0..2
         /\ \A i, j \in 1..Len(at) : i < j => at[i] < at[j]
         /\ \A i \in 1..Len(s) : IsMark(s[i]) <=> \E j \in 2..Len(at) : at[j] = i
         /\ \A j \in 1..Len(at) : Counted(segs[j], EndOf(s, at, j) - at[j])
<1>1. /\ IsSeq(s) /\ segs \in Seq(0..2) /\ at \in Seq(Nat) /\ Len(at) = Len(segs) /\ Len(at) > 0
      /\ at[1] = 0 /\ \A j \in 1..Len(at) : at[j] <= Len(s)
      /\ \A i, j \in 1..Len(at) : i < j => at[i] < at[j]
      /\ \A i \in 1..Len(s) : IsMark(s[i]) <=> \E j \in 2..Len(at) : at[j] = i
      /\ \A j \in 1..Len(at) : Counted(segs[j], EndOf(s, at, j) - at[j])
  BY DEF Placed
<1>2. Len(s) \in Nat /\ Len(at) \in Nat
  BY <1>1, SeqFacts
<1>3. \A j \in 1..Len(at) : at[j] \in Nat /\ segs[j] \in 0..2
  BY <1>1
<1>4. \A j \in 1..Len(at) : at[j] \in 0..Len(s)
  BY <1>1, <1>2, <1>3
<1>5. QED
  BY <1>1, <1>2, <1>3, <1>4

\* Two stacks of the same height with the same marks.
LEMMA PlacedSame ==
  ASSUME NEW s, NEW segs, NEW at, Placed(s, segs, at), NEW t, IsSeq(t), Len(t) = Len(s),
         \A i \in 1..Len(s) : IsMark(t[i]) <=> IsMark(s[i])
  PROVE  Placed(t, segs, at)
<1>1. \A j \in 1..Len(at) : EndOf(t, at, j) = EndOf(s, at, j)
  BY DEF EndOf
<1>2. QED
  BY <1>1 DEF Placed

\* The token on the top is replaced by another.
LEMMA PlacedTop ==
  ASSUME NEW s, NEW segs, NEW at, Placed(s, segs, at), s # <<>>, ~IsMark(s[Len(s)]),
         NEW x, ~IsMark(x)
  PROVE  Placed(Append(Front(s), x), segs, at)
<1> DEFINE f == SubSeq(s, 1, Len(s) - 1)
           t == Append(f, x)
<1>1. IsSeq(s) /\ Len(s) \in Nat
  BY PlacedFacts
<1>2. Len(s) > 0
  BY <1>1, SeqFacts
<1>3. PICK n : n = Len(s) - 1 /\ n \in 0..Len(s) /\ n + 1 = Len(s)
  BY <1>1, <1>2
<1>4. IsSeq(f) /\ Len(f) = n /\ \A j \in 1..n : f[j] = s[j]
  BY <1>1, <1>3, SeqPrefix
<1> HIDE DEF f
<1>5. IsSeq(t) /\ Len(t) = n + 1 /\ t[n + 1] = x /\ \A j \in 1..n : t[j] = s[j]
  BY <1>4, SeqAppend
<1> HIDE DEF t
<1>6. ASSUME NEW i \in 1..Len(s) PROVE IsMark(t[i]) <=> IsMark(s[i])
  <2>1. i \in 1..n \/ i = n + 1
    BY <1>1, <1>3
  <2>2. QED
    BY <1>3, <1>5, <2>1
<1>7. Placed(t, segs, at)
  BY <1>3, <1>5, <1>6, PlacedSame
<1>8. QED
  BY <1>7 DEF t, f, Front

Recounted(segs, c) == [segs EXCEPT ![Len(segs)] = c]

\* The token on the top is taken off.
LEMMA PlacedPop ==
  ASSUME NEW s, NEW segs, NEW at, Placed(s, segs, at), segs[Len(segs)] > 0
  PROVE  /\ s # <<>> /\ ~IsMark(s[Len(s)])
         /\ \E c \in 0..2 : OneMore(c) = segs[Len(segs)] /\ Placed(Front(s), Recounted(segs, c), at)
<1> DEFINE t == SubSeq(s, 1, Len(s) - 1)
<1>1. PICK n \in Nat : n = Len(at) /\ n > 0 /\ n = Len(segs) /\ n \in 1..Len(at)
  BY PlacedFacts
<1>2. IsSeq(s) /\ Len(s) \in Nat /\ at[n] \in 0..Len(s) /\ segs[n] \in 1..2
  BY <1>1, PlacedFacts
<1>3. Counted(segs[n], Len(s) - at[n])
  <2>1. Counted(segs[n], EndOf(s, at, n) - at[n])
    BY <1>1, PlacedFacts
  <2>2. QED
    BY <1>1, <2>1 DEF EndOf
<1>4. Len(s) - at[n] >= 1
  BY <1>2, <1>3 DEF Counted
<1>5. PICK m : m = Len(s) - 1 /\ m \in 0..Len(s) /\ m + 1 = Len(s) /\ m \in Nat /\ at[n] <= m
  BY <1>2, <1>4
<1>6. IsSeq(t) /\ Len(t) = m /\ \A j \in 1..m : t[j] = s[j]
  BY <1>2, <1>5, SeqPrefix
<1> HIDE DEF t
<1>7. ASSUME NEW j \in 1..n PROVE at[j] \in Nat /\ at[j] <= at[n]
  <2>1. at[j] \in 0..Len(s) /\ (j < n => at[j] < at[n])
    BY <1>1, <1>7, PlacedFacts
  <2>2. j < n \/ j = n
    BY <1>1, <1>7
  <2>3. QED
    BY <1>2, <2>1, <2>2
<1>8. s # <<>>
  BY <1>2, <1>5, SeqFacts
<1>9. ~IsMark(s[Len(s)])
  <2>1. Len(s) \in 1..Len(s)
    BY <1>2, <1>5
  <2>2. ASSUME NEW j \in 2..n PROVE at[j] # Len(s)
    <3>1. j \in 1..n
      BY <1>1
    <3>2. at[j] \in Nat /\ at[j] <= at[n]
      BY <1>7, <3>1
    <3>3. QED
      BY <1>2, <1>5, <3>2
  <2>3. \A i \in 1..Len(s) : IsMark(s[i]) <=> \E j \in 2..n : at[j] = i
    BY <1>1, PlacedFacts
  <2>4. QED
    BY <2>1, <2>2, <2>3
<1>10. PICK c \in 0..2 : OneMore(c) = segs[n] /\ Counted(c, m - at[n])
  <2> DEFINE d == m - at[n]
  <2>1. d \in Nat /\ Counted(segs[n], d + 1)
    BY <1>2, <1>3, <1>5
  <2> HIDE DEF d
  <2>2. CASE d = 0
    <3>1. OneMore(0) = segs[n] /\ Counted(0, d)
      BY <1>2, <2>1, <2>2 DEF OneMore, Counted
    <3>2. QED
      BY <3>1 DEF d
  <2>3. CASE d = 1
    <3>1. OneMore(1) = segs[n] /\ Counted(1, d)
      BY <1>2, <2>1, <2>3 DEF OneMore, Counted
    <3>2. QED
      BY <3>1 DEF d
  <2>4. CASE d > 1
    <3>1. OneMore(2) = segs[n] /\ Counted(2, d)
      BY <1>2, <2>1, <2>4 DEF OneMore, Counted
    <3>2. QED
      BY <3>1 DEF d
  <2>5. QED
    BY <2>1, <2>2, <2>3, <2>4
<1> DEFINE g == Recounted(segs, c)
<1>11. g \in Seq(0..2) /\ Len(g) = n /\ g[n] = c /\ \A j \in 1..n : j # n => g[j] = segs[j]
  <2>1. segs \in Seq(0..2)
    BY PlacedFacts
  <2>2. QED
    BY <1>1, <2>1 DEF Recounted
<1> HIDE DEF g
<1>12. Placed(t, g, at)
  <2>1. /\ at \in Seq(Nat) /\ at[1] = 0 /\ \A i, j \in 1..Len(at) : i < j => at[i] < at[j]
    BY PlacedFacts
  <2>2. \A j \in 1..Len(at) : at[j] <= Len(t)
    BY <1>1, <1>2, <1>5, <1>6, <1>7
  <2>3. ASSUME NEW i \in 1..Len(t) PROVE IsMark(t[i]) <=> \E j \in 2..Len(at) : at[j] = i
    <3>1. i \in 1..Len(s) /\ t[i] = s[i]
      BY <1>2, <1>5, <1>6
    <3>2. QED
      BY <3>1, PlacedFacts
  <2>4. ASSUME NEW j \in 1..Len(at) PROVE Counted(g[j], EndOf(t, at, j) - at[j])
    <3>1. CASE j = n
      BY <1>1, <1>6, <1>10, <1>11, <3>1 DEF EndOf
    <3>2. CASE j # n
      <4>1. g[j] = segs[j] /\ EndOf(t, at, j) = EndOf(s, at, j)
        BY <1>1, <1>11, <3>2 DEF EndOf
      <4>2. Counted(segs[j], EndOf(s, at, j) - at[j])
        BY PlacedFacts
      <4>3. QED
        BY <4>1, <4>2
    <3>3. QED
      BY <3>1, <3>2
  <2>5. QED
    BY <1>1, <1>6, <1>11, <2>1, <2>2, <2>3, <2>4 DEF Placed
<1>13. Placed(Front(s), Recounted(segs, c), at) /\ OneMore(c) = segs[Len(segs)]
  BY <1>1, <1>10, <1>12 DEF g, t, Front
<1>14. QED
  BY <1>8, <1>9, <1>13

\* The mark on the top, or below the one token on the top.
LEMMA TopMark ==
  ASSUME NEW s, NEW segs, NEW at, Placed(s, segs, at), Len(segs) > 1
  PROVE  /\ s # <<>> /\ Len(s) \in Nat
         /\ segs[Len(segs)] = 0 => at[Len(at)] = Len(s) /\ IsMark(s[Len(s)])
         /\ segs[Len(segs)] = 1 => /\ Len(s) > 1 /\ at[Len(at)] = Len(s) - 1
                                   /\ ~IsMark(s[Len(s)]) /\ IsMark(s[Len(s) - 1])
<1>1. PICK n \in Nat : n = Len(at) /\ n > 1 /\ n = Len(segs) /\ n \in 1..Len(at) /\ n \in 2..Len(at)
  BY PlacedFacts
<1>2. IsSeq(s) /\ Len(s) \in Nat /\ at[n] \in 0..Len(s) /\ at[1] = 0
  BY <1>1, PlacedFacts
<1>3. at[1] < at[n]
  BY <1>1, PlacedFacts
<1>4. Counted(segs[n], Len(s) - at[n])
  <2>1. Counted(segs[n], EndOf(s, at, n) - at[n])
    BY <1>1, PlacedFacts
  <2>2. QED
    BY <1>1, <2>1 DEF EndOf
<1>5. IsMark(s[at[n]]) /\ at[n] \in 1..Len(s) /\ s # <<>>
  <2>1. at[n] \in 1..Len(s)
    BY <1>2, <1>3
  <2>2. Len(s) # 0
    BY <1>2, <2>1
  <2>3. QED
    BY <1>1, <1>2, <2>1, <2>2, PlacedFacts, SeqFacts
<1>6. segs[n] = 0 => at[n] = Len(s)
  BY <1>2, <1>4 DEF Counted
<1>7. ASSUME segs[n] = 1 PROVE at[n] = Len(s) - 1 /\ Len(s) > 1 /\ ~IsMark(s[Len(s)])
  <2>1. at[n] = Len(s) - 1
    BY <1>2, <1>4, <1>7 DEF Counted
  <2>2. segs[Len(segs)] > 0
    BY <1>1, <1>7
  <2>3. ~IsMark(s[Len(s)])
    BY <2>2, PlacedPop
  <2>4. QED
    BY <1>2, <1>5, <2>1, <2>3
<1>8. QED
  BY <1>1, <1>2, <1>5, <1>6, <1>7

MarksOf(s) == {i \in DOMAIN s : IsMark(s[i])}

\* The marks above one of them.
LEMMA MarksAbove ==
  ASSUME NEW s, NEW segs, NEW at, Placed(s, segs, at), NEW l \in 2..Len(at)
  PROVE  /\ at[l] \in MarksOf(s)
         /\ Cardinality({j \in MarksOf(s) : j >= at[l]}) = Len(at) - l + 1
<1>1. PICK n \in Nat : n = Len(at) /\ l \in 2..n
  BY PlacedFacts
<1>2. IsSeq(s) /\ Len(s) \in Nat /\ DOMAIN s = 1..Len(s)
  BY PlacedFacts, SeqFacts
<1>3. \A j \in 1..n : at[j] \in 0..Len(s)
  BY <1>1, PlacedFacts
<1>4. \A i, j \in 1..n : i < j => at[i] < at[j]
  BY <1>1, PlacedFacts
<1>5. ASSUME NEW j \in 2..n PROVE at[j] \in MarksOf(s) /\ at[j] \in Nat
  <2>1. at[1] = 0 /\ 1 \in 1..n /\ j \in 1..n /\ 1 < j
    BY <1>1, <1>5, PlacedFacts
  <2>2. at[j] \in 1..Len(s)
    BY <1>2, <1>3, <1>4, <2>1
  <2>3. IsMark(s[at[j]])
    BY <1>1, <1>5, <2>2, PlacedFacts
  <2>4. QED
    BY <1>2, <2>2, <2>3 DEF MarksOf
<1>6. ASSUME NEW i \in MarksOf(s) PROVE \E j \in 2..n : at[j] = i
  <2>1. i \in 1..Len(s) /\ IsMark(s[i])
    BY <1>2, <1>6 DEF MarksOf
  <2>2. QED
    BY <1>1, <2>1, PlacedFacts
<1> DEFINE T == {j \in MarksOf(s) : j >= at[l]}
           f == [q \in l..n |-> at[q]]
<1>7. ASSUME NEW q \in l..n PROVE q \in 2..n /\ f[q] = at[q] /\ at[q] \in T
  <2>1. q \in 2..n /\ q \in 1..n /\ l \in 1..n /\ (q = l \/ l < q)
    BY <1>1, <1>7
  <2>2. at[q] >= at[l]
    BY <1>4, <1>5, <2>1
  <2>3. QED
    BY <1>5, <2>1, <2>2
<1>8. ASSUME NEW i \in T PROVE \E q \in l..n : f[q] = i
  <2>1. PICK q \in 2..n : at[q] = i
    BY <1>6, <1>8
  <2>2. q \in 1..n /\ l \in 1..n /\ (q < l => at[q] < at[l]) /\ at[q] \in Nat /\ at[l] \in Nat
    BY <1>1, <1>4, <1>5
  <2>3. at[q] >= at[l]
    BY <1>8, <2>1
  <2>4. q \in l..n
    BY <1>1, <2>2, <2>3
  <2>5. QED
    BY <2>1, <2>4
<1>9. ASSUME NEW p \in l..n, NEW q \in l..n, f[p] = f[q] PROVE p = q
  <2>1. /\ p \in 1..n /\ q \in 1..n /\ at[p] = at[q] /\ at[p] \in Nat
        /\ (p < q => at[p] < at[q]) /\ (q < p => at[q] < at[p])
    BY <1>1, <1>4, <1>5, <1>7, <1>9
  <2>2. QED
    BY <1>1, <2>1
<1>10. f \in [l..n -> T]
  BY <1>7
<1> HIDE DEF f, T
<1>11. f \in Bijection(l..n, T)
  BY <1>8, <1>9, <1>10, Fun_IsBij
<1>12. IsFiniteSet(l..n) /\ Cardinality(l..n) = n - l + 1
  BY <1>1, FS_Interval
<1>13. Cardinality(T) = n - l + 1
  BY <1>11, <1>12, FS_Bijection DEF ExistsBijection
<1>14. QED
  BY <1>1, <1>5, <1>13 DEF T

\* The mark with k - 1 marks above it.
FromTop(s, k) == CHOOSE i \in MarksOf(s) : Cardinality({j \in MarksOf(s) : j >= i}) = k

\* The marks, counted from the top.
LEMMA MarksCounted ==
  ASSUME NEW s, NEW segs, NEW at, Placed(s, segs, at), Len(at) > 1
  PROVE  /\ MarksOf(s) # {} /\ Max(MarksOf(s)) = at[Len(at)]
         /\ Cardinality(MarksOf(s)) = Len(at) - 1
         /\ \A k \in 1..Len(at) - 1 : FromTop(s, k) = at[Len(at) + 1 - k]
<1> DEFINE M == MarksOf(s)
           Above(i) == Cardinality({j \in M : j >= i})
<1>1. PICK n \in Nat : n = Len(at) /\ n > 1
  BY PlacedFacts
<1>2. \A l \in 2..n : at[l] \in M /\ Above(at[l]) = n - l + 1
  BY <1>1, MarksAbove
<1>3. ASSUME NEW i \in M PROVE i \in Nat /\ \E l \in 2..n : at[l] = i
  <2>1. i \in 1..Len(s) /\ IsMark(s[i])
    <3>1. IsSeq(s)
      BY PlacedFacts
    <3>2. DOMAIN s = 1..Len(s)
      BY <3>1, SeqFacts
    <3>3. QED
      BY <1>3, <3>2 DEF MarksOf
  <2>2. QED
    BY <1>1, <2>1, PlacedFacts
<1>4. \A i, j \in 1..n : i < j => at[i] < at[j]
  BY <1>1, PlacedFacts
<1> HIDE DEF M
<1>5. ASSUME NEW i \in M PROVE at[n] >= i /\ i >= at[2]
  <2>1. PICK l \in 2..n : at[l] = i
    BY <1>3
  <2>2. l \in 1..n /\ n \in 1..n /\ 2 \in 1..n /\ (l < n \/ l = n) /\ (2 < l \/ l = 2)
    BY <1>1
  <2>3. at[l] \in Nat /\ at[n] \in Nat /\ at[2] \in Nat
    <3>1. n \in 2..n /\ 2 \in 2..n
      BY <1>1
    <3>2. at[l] \in M /\ at[n] \in M /\ at[2] \in M
      BY <1>2, <3>1
    <3>3. QED
      BY <1>3, <3>2
  <2>4. QED
    BY <1>4, <2>1, <2>2, <2>3
<1>6. n \in 2..n /\ 2 \in 2..n
  BY <1>1
<1>7. M # {} /\ Max(M) = at[n]
  <2>1. at[n] \in M /\ \A j \in M : at[n] >= j
    BY <1>2, <1>5, <1>6
  <2>2. ASSUME NEW x \in M, \A j \in M : x >= j PROVE x = at[n]
    BY <1>3, <2>1, <2>2
  <2>3. QED
    BY <2>1, <2>2 DEF Max
<1>8. Cardinality(M) = n - 1
  <2>1. {j \in M : j >= at[2]} = M
    BY <1>5
  <2>2. Above(at[2]) = n - 1
    BY <1>1, <1>2, <1>6
  <2>3. QED
    BY <2>1, <2>2
<1> HIDE DEF Above
<1>9. ASSUME NEW k \in 1..n - 1
      PROVE  (CHOOSE i \in M : Above(i) = k) = at[n + 1 - k]
  <2>1. n + 1 - k \in 2..n /\ n - (n + 1 - k) + 1 = k
    BY <1>1, <1>9
  <2>2. at[n + 1 - k] \in M /\ Above(at[n + 1 - k]) = k
    BY <1>2, <2>1
  <2>3. ASSUME NEW i \in M, Above(i) = k PROVE i = at[n + 1 - k]
    <3>1. PICK l \in 2..n : at[l] = i
      BY <1>3
    <3>2. n - l + 1 = k
      BY <1>2, <2>3, <3>1
    <3>3. l = n + 1 - k
      BY <1>1, <3>2
    <3>4. QED
      BY <3>1, <3>3
  <2>4. QED
    BY <2>2, <2>3
<1>10. \A k \in 1..n - 1 : FromTop(s, k) = at[n + 1 - k]
  BY <1>9 DEF M, Above, FromTop
<1>11. QED
  BY <1>1, <1>7, <1>8, <1>10 DEF M

-----------------------------------------------------------------------------
(* What fits a shape, after the stack was changed. *)

LEMMA ShapeFields ==
  ASSUME NEW sh \in Shape
  PROVE  /\ sh.segs \in Seq(0..2) /\ Len(sh.segs) \in Nat /\ Len(sh.segs) > 0
         /\ sh.segs[Len(sh.segs)] \in 0..2 /\ sh.top \in {"bytes", "some", "null"}
<1>1. sh.segs \in Seq(0..2) /\ sh.segs # <<>> /\ sh.top \in {"bytes", "some", "null"}
  BY DEF Shape
<1>2. QED
  BY <1>1

LEMMA IsShape ==
  ASSUME NEW sh, NEW segs \in Seq(0..2), Len(segs) > 0, NEW top \in {"bytes", "some", "null"},
         sh = [segs |-> segs, top |-> top]
  PROVE  sh \in Shape /\ sh.segs = segs /\ sh.top = top
<1>1. segs # <<>>
  OBVIOUS
<1>2. QED
  BY <1>1 DEF Shape

\* An empty stack.
LEMMA FitsStart == Start \in Shape /\ Fits(<<>>, Start)
<1>1. <<0>> \in Seq(0..2) /\ Len(<<0>>) = 1 /\ <<0>>[1] = 0 /\ <<0>> \in Seq(Nat)
  OBVIOUS
<1> DEFINE z == <<0>>
           e == <<>>
<1>2. z \in Seq(0..2) /\ z \in Seq(Nat) /\ Len(z) = 1 /\ z[1] = 0
  BY <1>1
<1>3. e \in Seq(Nat) /\ Len(e) = 0
  OBVIOUS
<1>4. Start = [segs |-> z, top |-> "some"]
  BY DEF Start
<1> HIDE DEF z, e
<1>5. Start \in Shape /\ Start.segs = z /\ Start.top = "some"
  <2>1. PICK what : what = "some"
    OBVIOUS
  <2>2. what \in {"bytes", "some", "null"} /\ Len(z) > 0 /\ z \in Seq(0..2)
    BY <1>2, <2>1
  <2>3. PICK sh : sh = Start
    OBVIOUS
  <2>4. sh = [segs |-> z, top |-> what]
    BY <1>4, <2>1, <2>3
  <2>5. sh \in Shape /\ sh.segs = z /\ sh.top = what
    BY <2>2, <2>4, IsShape
  <2>6. QED
    BY <2>1, <2>3, <2>5
<1>6. /\ z \in Seq(0..2) /\ z \in Seq(Nat) /\ Len(z) = 1 /\ z[1] = 0 /\ IsSeq(e) /\ Len(e) = 0
      /\ Counted(0, EndOf(e, z, 1) - 0)
  <2>1. IsSeq(e)
    BY <1>3, SeqIs
  <2>2. QED
    BY <1>2, <1>3, <2>1 DEF Counted, EndOf
<1>7. Placed(e, z, z)
  <2>1. \A j \in 1..Len(z) : j = 1
    BY <1>6
  <2>2. \A i \in 1..Len(e) : FALSE
    BY <1>6
  <2>3. QED
    BY <1>6, <2>1, <2>2 DEF Placed
<1>8. Holds(e, "some")
  BY <1>6 DEF Holds
<1>9. Fits(e, Start)
  BY <1>5, <1>7, <1>8 DEF Fits
<1>10. QED
  BY <1>5, <1>9 DEF e

\* A mark is pushed on a stack without NULL.
LEMMA FitsMark ==
  ASSUME NEW s, NEW sh, Fits(s, sh), Known(sh), NEW m, IsMark(m), m # NULL
  PROVE  Fits(Append(s, m), Opened(sh))
<1> DEFINE t == Append(s, m)
           g == Append(sh.segs, 0)
<1>1. sh \in Shape /\ Holds(s, sh.top) /\ sh.top # "null"
  BY DEF Fits, Known
<1>2. PICK at : Placed(s, sh.segs, at)
  BY DEF Fits
<1>3. IsSeq(s) /\ Len(s) \in Nat
  BY <1>2, PlacedFacts
<1>4. IsSeq(t) /\ Len(t) = Len(s) + 1 /\ t[Len(s) + 1] = m /\ \A j \in 1..Len(s) : t[j] = s[j]
  BY <1>3, SeqAppend
<1>5. g \in Seq(0..2) /\ Len(g) > 0
  BY <1>1, ShapeFields
<1>6. Placed(t, g, Append(at, Len(s) + 1))
  BY <1>2, PlacedMark
<1> HIDE DEF t, g
<1>7. Holds(t, "some")
  <2>1. ASSUME NEW i \in 1..Len(t) PROVE t[i] # NULL
    <3>1. i \in 1..Len(s) \/ i = Len(s) + 1
      BY <1>3, <1>4
    <3>2. QED
      BY <1>1, <1>4, <3>1 DEF Holds
  <2>2. QED
    BY <2>1 DEF Holds
<1>8. Opened(sh) = [segs |-> g, top |-> "some"]
  BY DEF Opened, g
<1>9. Opened(sh) \in Shape /\ Opened(sh).segs = g /\ Opened(sh).top = "some"
  BY <1>5, <1>8, IsShape
<1>10. QED
  BY <1>6, <1>7, <1>9 DEF Fits, t

\* A token is pushed on a stack without NULL.
LEMMA FitsToken ==
  ASSUME NEW s, NEW sh, Fits(s, sh), Known(sh), NEW x, ~IsMark(x),
         NEW top \in {"bytes", "some", "null"},
         x = NULL => top = "null", top = "bytes" => x[1] = "TT_BYTES"
  PROVE  Fits(Append(s, x), Plus(sh, top))
<1> DEFINE t == Append(s, x)
           g == Bumped(sh.segs)
<1>1. sh \in Shape /\ Holds(s, sh.top) /\ sh.top # "null"
  BY DEF Fits, Known
<1>2. PICK at : Placed(s, sh.segs, at)
  BY DEF Fits
<1>3. IsSeq(s) /\ Len(s) \in Nat
  BY <1>2, PlacedFacts
<1>4. IsSeq(t) /\ Len(t) = Len(s) + 1 /\ t[Len(s) + 1] = x /\ \A j \in 1..Len(s) : t[j] = s[j]
  BY <1>3, SeqAppend
<1>5. Placed(t, g, at)
  BY <1>2, PlacedToken
<1> HIDE DEF t, g
<1>6. g \in Seq(0..2) /\ Len(g) > 0
  BY <1>5, PlacedFacts
<1>7. Holds(t, top)
  <2>1. ASSUME NEW i \in 1..Len(t) PROVE t[i] # NULL \/ (i = Len(t) /\ top = "null")
    <3>1. i \in 1..Len(s) \/ i = Len(s) + 1
      BY <1>3, <1>4
    <3>2. QED
      BY <1>1, <1>4, <3>1 DEF Holds
  <2>2. top = "bytes" => t # <<>> /\ t[Len(t)][1] = "TT_BYTES"
    <3>1. Len(t) # 0
      BY <1>3, <1>4
    <3>2. t # <<>>
      BY <1>4, <3>1, SeqFacts
    <3>3. QED
      BY <1>4, <3>2
  <2>3. QED
    BY <2>1, <2>2 DEF Holds
<1>8. Plus(sh, top) = [segs |-> g, top |-> top]
  BY DEF Plus, g, Bumped
<1>9. Plus(sh, top) \in Shape /\ Plus(sh, top).segs = g /\ Plus(sh, top).top = top
  BY <1>6, <1>8, IsShape
<1>10. QED
  BY <1>5, <1>7, <1>9 DEF Fits, t

\* The stack is cut off at a mark: what is left has no NULL.
LEMMA FitsCut ==
  ASSUME NEW s, NEW sh, Fits(s, sh), NEW at, Placed(s, sh.segs, at), NEW k \in 1..Len(at) - 1
  PROVE  /\ at[k + 1] \in 1..Len(s)
         /\ Fits(SubSeq(s, 1, at[k + 1] - 1), Cut(sh, k)) /\ Known(Cut(sh, k))
<1>1. PICK b : b = at[k + 1] - 1
  OBVIOUS
<1> DEFINE t == SubSeq(s, 1, b)
           g == SubSeq(sh.segs, 1, k)
<1>2. sh \in Shape /\ Holds(s, sh.top)
  BY DEF Fits
<1>3. IsSeq(s) /\ Len(s) \in Nat
  BY PlacedFacts
<1>4. at[k + 1] \in 1..Len(s) /\ Placed(t, g, SubSeq(at, 1, k))
  BY <1>1, PlacedCut
<1>5. b \in 0..Len(s) /\ b < Len(s)
  BY <1>1, <1>3, <1>4
<1>6. IsSeq(t) /\ Len(t) = b /\ \A j \in 1..b : t[j] = s[j]
  BY <1>3, <1>5, SeqPrefix
<1> HIDE DEF t, g
<1>7. g \in Seq(0..2) /\ Len(g) > 0
  BY <1>4, PlacedFacts
<1>8. Holds(t, "some")
  <2>1. ASSUME NEW i \in 1..Len(t) PROVE t[i] # NULL
    <3>1. i \in 1..Len(s) /\ i # Len(s) /\ t[i] = s[i]
      BY <1>3, <1>5, <1>6
    <3>2. QED
      BY <1>2, <3>1 DEF Holds
  <2>2. QED
    BY <2>1 DEF Holds
<1>9. Cut(sh, k) = [segs |-> g, top |-> "some"]
  BY DEF Cut, g
<1>10. Cut(sh, k) \in Shape /\ Cut(sh, k).segs = g /\ Cut(sh, k).top = "some"
  BY <1>7, <1>9, IsShape
<1>11. Fits(t, Cut(sh, k)) /\ Known(Cut(sh, k))
  BY <1>4, <1>8, <1>10 DEF Fits, Known
<1>12. QED
  BY <1>1, <1>4, <1>11 DEF t

\* The token on the top is taken off.
LEMMA FitsPop ==
  ASSUME NEW s, NEW sh, Fits(s, sh), Count(sh) > 0
  PROVE  s # <<>> /\ ~IsMark(s[Len(s)]) /\ \E r \in Minus(sh) : Fits(Front(s), r)
<1>1. sh \in Shape /\ Holds(s, sh.top)
  BY DEF Fits
<1>2. PICK at : Placed(s, sh.segs, at)
  BY DEF Fits
<1>3. sh.segs[Len(sh.segs)] > 0
  BY DEF Count
<1>4. s # <<>> /\ ~IsMark(s[Len(s)])
  BY <1>2, <1>3, PlacedPop
<1>5. PICK c \in 0..2 : /\ OneMore(c) = sh.segs[Len(sh.segs)]
                        /\ Placed(Front(s), Recounted(sh.segs, c), at)
  BY <1>2, <1>3, PlacedPop
<1> DEFINE g == Recounted(sh.segs, c)
           t == Front(s)
<1>6. IsSeq(s) /\ Len(s) \in Nat /\ Len(s) > 0
  <2>1. IsSeq(s) /\ Len(s) \in Nat
    BY <1>2, PlacedFacts
  <2>2. QED
    BY <1>4, <2>1, SeqFacts
<1>7. PICK m : m = Len(s) - 1 /\ m \in 0..Len(s) /\ m < Len(s)
  BY <1>6
<1>8. IsSeq(t) /\ Len(t) = m /\ \A j \in 1..m : t[j] = s[j]
  BY <1>6, <1>7, SeqPrefix DEF Front
<1>9. Placed(t, g, at)
  BY <1>5
<1> HIDE DEF t, g
<1>10. g \in Seq(0..2) /\ Len(g) > 0
  BY <1>9, PlacedFacts
<1>11. Holds(t, "some")
  <2>1. ASSUME NEW i \in 1..Len(t) PROVE t[i] # NULL
    <3>1. i \in 1..Len(s) /\ i # Len(s) /\ t[i] = s[i]
      BY <1>6, <1>7, <1>8
    <3>2. QED
      BY <1>1, <3>1 DEF Holds
  <2>2. QED
    BY <2>1 DEF Holds
<1> DEFINE r == WithCount(sh, c)
<1>12. r = [segs |-> g, top |-> "some"]
  BY DEF WithCount, g, Recounted
<1>13. r \in Shape /\ r.segs = g /\ r.top = "some"
  BY <1>10, <1>12, IsShape
<1>14. r \in Minus(sh)
  BY <1>5 DEF Minus, Count
<1> HIDE DEF r
<1>15. Fits(t, r)
  BY <1>9, <1>11, <1>13 DEF Fits
<1>16. QED
  BY <1>4, <1>14, <1>15 DEF t

\* Bytes on the top are replaced by a token.
LEMMA FitsTop ==
  ASSUME NEW s, NEW sh, Fits(s, sh), sh.top = "bytes", NEW x, ~IsMark(x), x # NULL
  PROVE  /\ s # <<>> /\ s[Len(s)] # NULL /\ s[Len(s)][1] = "TT_BYTES"
         /\ Fits(Append(Front(s), x), [segs |-> sh.segs, top |-> "some"])
<1>1. sh \in Shape /\ Holds(s, sh.top)
  BY DEF Fits
<1>2. PICK at : Placed(s, sh.segs, at)
  BY DEF Fits
<1>3. s # <<>> /\ s[Len(s)][1] = "TT_BYTES"
  BY <1>1 DEF Holds
<1>4. ~IsMark(s[Len(s)])
  BY <1>3 DEF IsMark
<1>5. IsSeq(s) /\ Len(s) \in Nat /\ Len(s) > 0
  <2>1. IsSeq(s) /\ Len(s) \in Nat
    BY <1>2, PlacedFacts
  <2>2. QED
    BY <1>3, <2>1, SeqFacts
<1> DEFINE f == SubSeq(s, 1, Len(s) - 1)
           t == Append(f, x)
<1>6. PICK m : m = Len(s) - 1 /\ m \in 0..Len(s) /\ m + 1 = Len(s)
  BY <1>5
<1>7. IsSeq(f) /\ Len(f) = m /\ \A j \in 1..m : f[j] = s[j]
  BY <1>5, <1>6, SeqPrefix
<1> HIDE DEF f
<1>8. IsSeq(t) /\ Len(t) = m + 1 /\ t[m + 1] = x /\ \A j \in 1..m : t[j] = s[j]
  BY <1>7, SeqAppend
<1>9. Placed(t, sh.segs, at)
  BY <1>2, <1>3, <1>4, PlacedTop DEF f, Front
<1> HIDE DEF t
<1>10. Holds(t, "some")
  <2>1. ASSUME NEW i \in 1..Len(t) PROVE t[i] # NULL
    <3>1. (i \in 1..Len(s) /\ i \in 1..m) \/ i = m + 1
      BY <1>5, <1>6, <1>8
    <3>2. QED
      BY <1>1, <1>6, <1>8, <3>1 DEF Holds
  <2>2. QED
    BY <2>1 DEF Holds
<1> DEFINE r == [segs |-> sh.segs, top |-> "some"]
<1>11. r \in Shape /\ r.segs = sh.segs /\ r.top = "some"
  BY <1>1, ShapeFields, IsShape
<1>12. s[Len(s)] # NULL
  <2>1. Len(s) \in 1..Len(s)
    BY <1>5
  <2>2. QED
    BY <1>1, <2>1 DEF Holds
<1> HIDE DEF r
<1>13. Fits(t, r)
  BY <1>9, <1>10, <1>11 DEF Fits
<1>14. QED
  BY <1>3, <1>12, <1>13 DEF t, f, r, Front

\* Tokens are pairs, NULL is not one.
LEMMA Pairs ==
  ASSUME NEW a, NEW b
  PROVE  <<a, b>> # NULL /\ <<a, b>>[1] = a /\ (a # "TT_MARK" => ~IsMark(<<a, b>>))
<1>1. Len(<<a, b>>) = 2 /\ Len(<<"NULL">>) = 1
  OBVIOUS
<1>2. QED
  BY <1>1 DEF NULL, IsMark

LEMMA NullIsNoMark == ~IsMark(NULL)
BY DEF IsMark, NULL

LEMMA MarkIsMark ==
  ASSUME NEW i
  PROVE  IsMark(Mark(i)) /\ Mark(i) # NULL
BY Pairs DEF IsMark, Mark

\* Where nothing is NULL.
LEMMA NoNull ==
  ASSUME NEW s, NEW sh, Fits(s, sh), Known(sh)
  PROVE  IsSeq(s) /\ Len(s) \in Nat /\ \A i \in 1..Len(s) : s[i] # NULL
<1>1. PICK at : Placed(s, sh.segs, at)
  BY DEF Fits
<1>2. IsSeq(s) /\ Len(s) \in Nat
  BY <1>1, PlacedFacts
<1>3. QED
  BY <1>2 DEF Fits, Known, Holds

\* Below the uppermost mark.
LEMMA FitsClosed ==
  ASSUME NEW s, NEW sh, Fits(s, sh), HasMark(sh)
  PROVE  /\ MarksOf(s) # {} /\ Max(MarksOf(s)) \in 1..Len(s) /\ IsSeq(s) /\ Len(s) \in Nat
         /\ Fits(SubSeq(s, 1, Max(MarksOf(s)) - 1), Closed(sh)) /\ Known(Closed(sh))
<1>1. PICK at : Placed(s, sh.segs, at)
  BY DEF Fits
<1>2. Len(at) = Len(sh.segs) /\ Len(at) \in Nat /\ Len(at) > 1
  BY <1>1, PlacedFacts DEF HasMark
<1>3. MarksOf(s) # {} /\ Max(MarksOf(s)) = at[Len(at)]
  BY <1>1, <1>2, MarksCounted
<1>4. PICK k, n : n = Len(at) /\ k = n - 1 /\ k \in 1..Len(at) - 1 /\ k + 1 = n
  BY <1>2
<1>5. at[n] \in 1..Len(s) /\ Fits(SubSeq(s, 1, at[n] - 1), Cut(sh, k)) /\ Known(Cut(sh, k))
  BY <1>1, <1>4, FitsCut
<1>6. Closed(sh) = Cut(sh, k)
  BY <1>2, <1>4 DEF Closed
<1>7. IsSeq(s) /\ Len(s) \in Nat
  BY <1>1, PlacedFacts
<1>8. QED
  BY <1>3, <1>4, <1>5, <1>6, <1>7

\* A mark with at most one token above it, which Asserted asks for.
LEMMA FitsWrapped ==
  ASSUME NEW s, NEW sh, Fits(s, sh), HasMark(sh), Known(sh), Count(sh) <= 1
  PROVE  /\ s # <<>> /\ Len(s) \in Nat /\ s[Len(s)] # NULL
         /\ IsMark(s[Len(s)]) <=> Count(sh) = 0
         /\ ~IsMark(s[Len(s)]) => Len(s) > 1 /\ IsMark(s[Len(s) - 1])
         /\ Fits(SubSeq(s, 1, (IF IsMark(s[Len(s)]) THEN Len(s) ELSE Len(s) - 1) - 1), Closed(sh))
         /\ Known(Closed(sh))
<1>1. PICK at : Placed(s, sh.segs, at)
  BY DEF Fits
<1>2. Len(sh.segs) > 1 /\ sh \in Shape
  BY DEF HasMark, Fits
<1>3. Count(sh) \in 0..1 /\ Count(sh) = sh.segs[Len(sh.segs)]
  BY <1>2, ShapeFields DEF Count
<1>4. /\ s # <<>> /\ Len(s) \in Nat
      /\ Count(sh) = 0 => at[Len(at)] = Len(s) /\ IsMark(s[Len(s)])
      /\ Count(sh) = 1 => /\ Len(s) > 1 /\ at[Len(at)] = Len(s) - 1
                          /\ ~IsMark(s[Len(s)]) /\ IsMark(s[Len(s) - 1])
  BY <1>1, <1>2, <1>3, TopMark
<1>5. IsMark(s[Len(s)]) <=> Count(sh) = 0
  BY <1>3, <1>4
<1>6. at[Len(at)] = IF IsMark(s[Len(s)]) THEN Len(s) ELSE Len(s) - 1
  BY <1>3, <1>4, <1>5
<1>7. Fits(SubSeq(s, 1, at[Len(at)] - 1), Closed(sh)) /\ Known(Closed(sh))
  <2>1. Len(at) > 1
    BY <1>1, <1>2, PlacedFacts
  <2>2. Max(MarksOf(s)) = at[Len(at)]
    BY <1>1, <2>1, MarksCounted
  <2>3. QED
    BY <2>2, FitsClosed
<1>8. s[Len(s)] # NULL
  <2>1. Len(s) # 0
    BY <1>4, NoNull, SeqFacts
  <2>2. Len(s) \in 1..Len(s)
    BY <1>4, <2>1
  <2>3. QED
    BY <2>2, NoNull
<1>9. QED
  BY <1>3, <1>4, <1>5, <1>6, <1>7, <1>8

\* A stack that is not empty.
LEMMA FitsSome ==
  ASSUME NEW s, NEW sh, Fits(s, sh), HasMark(sh) \/ Count(sh) > 0
  PROVE  s # <<>> /\ (Known(sh) => s[Len(s)] # NULL)
<1>1. s # <<>>
  <2>1. CASE HasMark(sh)
    <3>1. IsSeq(s) /\ Len(s) \in Nat /\ Max(MarksOf(s)) \in 1..Len(s)
      BY <2>1, FitsClosed
    <3>2. Len(s) # 0
      BY <3>1
    <3>3. QED
      BY <3>1, <3>2, SeqFacts
  <2>2. CASE Count(sh) > 0
    BY <2>2, FitsPop
  <2>3. QED
    BY <2>1, <2>2
<1>2. ASSUME Known(sh) PROVE s[Len(s)] # NULL
  <2>1. IsSeq(s) /\ Len(s) \in Nat /\ \A i \in 1..Len(s) : s[i] # NULL
    BY <1>2, NoNull
  <2>2. Len(s) # 0
    BY <1>1, <2>1, SeqFacts
  <2>3. Len(s) \in 1..Len(s)
    BY <2>1, <2>2
  <2>4. QED
    BY <2>1, <2>3
<1>3. QED
  BY <1>1, <1>2

LEMMA NotMore ==
  ASSUME NEW n \in Nat, n > 0, ~(n > 1)
  PROVE  n = 1
OBVIOUS

\* A stack without marks and with one token at most, which SVM_ACCEPT asks for.
LEMMA FitsOne ==
  ASSUME NEW s, NEW sh, Fits(s, sh), ~HasMark(sh), Count(sh) <= 1
  PROVE  Len(s) \in Nat /\ Len(s) <= 1
<1>1. PICK at : Placed(s, sh.segs, at)
  BY DEF Fits
<1>2. sh \in Shape /\ Len(sh.segs) \in Nat /\ Len(sh.segs) > 0
  BY ShapeFields DEF Fits
<1>3. Len(sh.segs) = 1 /\ Len(at) = 1
  <2>1. Len(at) = Len(sh.segs)
    BY <1>1, PlacedFacts
  <2>2. PICK n : n = Len(sh.segs) /\ n \in Nat /\ n > 0
    BY <1>2
  <2>3. ~(n > 1)
    BY <2>2 DEF HasMark
  <2>4. n = 1
    BY <2>2, <2>3, NotMore
  <2>5. QED
    BY <2>1, <2>2, <2>4
<1>4. Len(s) \in Nat /\ at[1] = 0 /\ sh.segs[1] \in 0..1
  BY <1>1, <1>2, <1>3, PlacedFacts, ShapeFields DEF Count
<1>5. Counted(sh.segs[1], EndOf(s, at, 1) - at[1])
  BY <1>1, <1>3, PlacedFacts
<1>6. QED
  BY <1>3, <1>4, <1>5 DEF Counted, EndOf

-----------------------------------------------------------------------------
(* One entry of the trace. *)

\* The entry was replayed and the stack fits one of the shapes of B, or the parse ended.
Kept(B) ==
  \/ pc' = "done"
  \/ pc' = "trace" /\ trace' = Tail(trace) /\ \E r \in B : Fits(stack', r)

LEMMA KeptBy ==
  ASSUME NEW s, NEW B, NEW r \in B, Fits(s, r), pc = "trace", Pushed(s)
  PROVE  Kept(B)
BY DEF Kept, Pushed

LEMMA NopKept ==
  ASSUME NEW sh, Fits(stack, sh), SVM_NOP
  PROVE  Kept({sh})
BY KeptBy DEF SVM_NOP, Doing

LEMMA PushKept ==
  ASSUME NEW i, i.op = "RVM_PUSH", NEW sh, Fits(stack, sh), Ready(i, sh), SVM_PUSH
  PROVE  Kept(Results(i, sh))
<1>1. Known(sh) /\ Results(i, sh) = {Opened(sh)}
  BY DEF Ready, Results
<1>2. PICK m : m = Mark(Entry.input_pos)
  OBVIOUS
<1>3. IsMark(m) /\ m # NULL
  BY <1>2, MarkIsMark
<1>4. Fits(Append(stack, m), Opened(sh))
  BY <1>1, <1>3, FitsMark
<1>5. pc = "trace" /\ Pushed(Append(stack, m))
  BY <1>2 DEF SVM_PUSH, Doing
<1>6. QED
  BY <1>1, <1>4, <1>5, KeptBy

\* A mark on the top.
LEMMA MarkOnTop ==
  ASSUME NEW s, NEW sh, Fits(s, sh), HasMark(sh), Count(sh) = 0
  PROVE  /\ s # <<>> /\ IsMark(s[Len(s)])
         /\ Fits(Front(s), Closed(sh)) /\ Known(Closed(sh))
<1>1. PICK at : Placed(s, sh.segs, at)
  BY DEF Fits
<1>2. Len(sh.segs) > 1 /\ sh.segs[Len(sh.segs)] = 0
  BY DEF HasMark, Count
<1>3. s # <<>> /\ at[Len(at)] = Len(s) /\ IsMark(s[Len(s)])
  BY <1>1, <1>2, TopMark
<1>4. Len(at) = Len(sh.segs) /\ Len(at) \in Nat
  BY <1>1, PlacedFacts
<1>5. Max(MarksOf(s)) = Len(s)
  <2>1. Len(at) > 1
    BY <1>2, <1>4
  <2>2. QED
    BY <1>1, <1>3, <2>1, MarksCounted
<1>6. Fits(SubSeq(s, 1, Max(MarksOf(s)) - 1), Closed(sh)) /\ Known(Closed(sh))
  BY FitsClosed
<1>7. QED
  BY <1>3, <1>5, <1>6 DEF Front

LEMMA CaptureKept ==
  ASSUME NEW i, i.op = "RVM_CAPTURE", NEW sh, Fits(stack, sh), Ready(i, sh), SVM_CAPTURE
  PROVE  Kept(Results(i, sh))
<1>1. HasMark(sh) /\ Count(sh) = 0 /\ Results(i, sh) = {Plus(Closed(sh), "bytes")}
  BY DEF Ready, Results
<1>2. /\ stack # <<>> /\ IsMark(stack[Len(stack)])
      /\ Fits(Front(stack), Closed(sh)) /\ Known(Closed(sh))
  BY <1>1, MarkOnTop
<1>3. PICK b : b = SubSeq(input, Last(stack)[2] + 1, Entry.input_pos)
  OBVIOUS
<1>4. PICK x : x = <<"TT_BYTES", b>>
  OBVIOUS
<1>5. ~IsMark(x) /\ x # NULL /\ x[1] = "TT_BYTES"
  BY <1>4, Pairs
<1>6. Fits(Append(Front(stack), x), Plus(Closed(sh), "bytes"))
  BY <1>2, <1>5, FitsToken
<1>7. pc = "trace" /\ Pushed(Append(Front(stack), x))
  BY <1>2, <1>3, <1>4 DEF SVM_CAPTURE, Doing, Last
<1>8. QED
  BY <1>1, <1>6, <1>7, KeptBy

LEMMA AcceptKept ==
  ASSUME NEW i, i.op = "RVM_ACCEPT", NEW sh, Fits(stack, sh), Ready(i, sh), SVM_ACCEPT
  PROVE  pc' = "done"
<1>1. ~HasMark(sh) /\ Count(sh) <= 1
  BY DEF Ready
<1>2. Len(stack) \in Nat /\ Len(stack) <= 1
  BY <1>1, FitsOne
<1>3. QED
  BY <1>2 DEF SVM_ACCEPT

\* The items above the uppermost mark are not NULL.
LEMMA SoundStack ==
  ASSUME NEW sh, Fits(stack, sh), HasMark(sh), Known(sh)
  PROVE  Sound /\ Fits(Below(Max(Marks)), Closed(sh)) /\ Known(Closed(sh))
<1>1. /\ MarksOf(stack) # {} /\ Max(MarksOf(stack)) \in 1..Len(stack)
      /\ Fits(SubSeq(stack, 1, Max(MarksOf(stack)) - 1), Closed(sh)) /\ Known(Closed(sh))
  BY FitsClosed
<1>2. Marks = MarksOf(stack)
  BY DEF Marks, MarksOf
<1>3. IsSeq(stack) /\ Len(stack) \in Nat /\ \A j \in 1..Len(stack) : stack[j] # NULL
  BY NoNull
<1>4. PICK m : m = Max(Marks) /\ m \in 1..Len(stack)
  BY <1>1, <1>2
<1>5. \A j \in DOMAIN Items : Items[j] # NULL
  <2> DEFINE S == {x \in Range(stack) : x # NULL}
  <2>1. PICK n : n = Len(stack) /\ n \in Nat
    BY <1>3
  <2>2. Items = SubSeq(stack, m + 1, n) /\ m + 1 \in Int
    BY <1>4, <2>1 DEF Items
  <2>3. \A j \in m + 1..n : stack[j] \in S
    <3>1. DOMAIN stack = 1..n
      BY <1>3, <2>1, SeqFacts
    <3>2. \A j \in m + 1..n : j \in 1..n
      BY <1>4, <2>1
    <3>3. QED
      BY <1>3, <2>1, <3>1, <3>2 DEF Range
  <2> HIDE DEF S
  <2>4. Items \in Seq(S)
    BY <2>1, <2>2, <2>3, SubSeqProperties
  <2>5. \A j \in DOMAIN Items : Items[j] \in S
    BY <2>4
  <2>6. QED
    BY <2>5 DEF S
<1>6. QED
  BY <1>1, <1>2, <1>5 DEF Sound, Below

LEMMA MakeSequenceKept ==
  ASSUME NEW sh, Fits(stack, sh), ActionReady(Insn(Entry.arg), sh), h_svm_action_make_sequence
  PROVE  Kept(ActionResults(Insn(Entry.arg), sh))
<1>1. pc = "trace" /\ Insn(Entry.arg).action = "h_svm_action_make_sequence"
  BY DEF h_svm_action_make_sequence, Action, Doing
<1>2. HasMark(sh) /\ Known(sh)
  BY <1>1 DEF ActionReady
<1>3. Plus(Closed(sh), "some") \in ActionResults(Insn(Entry.arg), sh)
  BY <1>1 DEF ActionResults
<1>4. Sound /\ Fits(Below(Max(Marks)), Closed(sh)) /\ Known(Closed(sh))
  BY <1>2, SoundStack
<1>5. PICK x : x = <<"TT_SEQUENCE", Items>>
  OBVIOUS
<1>6. ~IsMark(x) /\ x # NULL
  BY <1>5, Pairs
<1>7. Fits(Append(Below(Max(Marks)), x), Plus(Closed(sh), "some"))
  BY <1>4, <1>6, FitsToken
<1>8. Pushed(Append(Below(Max(Marks)), x))
  BY <1>4, <1>5 DEF h_svm_action_make_sequence
<1>9. QED
  BY <1>1, <1>3, <1>7, <1>8, KeptBy

LEMMA ClearToMarkKept ==
  ASSUME NEW sh, Fits(stack, sh), ActionReady(Insn(Entry.arg), sh), h_svm_action_clear_to_mark
  PROVE  Kept(ActionResults(Insn(Entry.arg), sh))
<1>1. pc = "trace" /\ Insn(Entry.arg).action = "h_svm_action_clear_to_mark"
  BY DEF h_svm_action_clear_to_mark, Action, Doing
<1>2. HasMark(sh) /\ Known(sh)
  BY <1>1 DEF ActionReady
<1>3. Closed(sh) \in ActionResults(Insn(Entry.arg), sh)
  BY <1>1 DEF ActionResults
<1>4. Sound /\ Fits(Below(Max(Marks)), Closed(sh))
  BY <1>2, SoundStack
<1>5. Pushed(Below(Max(Marks)))
  BY <1>4 DEF h_svm_action_clear_to_mark
<1>6. QED
  BY <1>1, <1>3, <1>4, <1>5, KeptBy

\* What an action with one argument asserts, and what it leaves below.
LEMMA AssertedStack ==
  ASSUME NEW sh, Fits(stack, sh), HasMark(sh), Known(sh), Count(sh) <= 1
  PROVE  /\ Asserted /\ (IsMark(Top) <=> Count(sh) = 0) /\ Top # NULL
         /\ Fits(Replaced, Closed(sh)) /\ Known(Closed(sh))
<1>1. /\ stack # <<>> /\ Len(stack) \in Nat /\ Top # NULL
      /\ IsMark(Top) <=> Count(sh) = 0
      /\ ~IsMark(Top) => Len(stack) > 1 /\ IsMark(Second)
      /\ Fits(SubSeq(stack, 1, (IF IsMark(Top) THEN Len(stack) ELSE Len(stack) - 1) - 1), Closed(sh))
      /\ Known(Closed(sh))
  BY FitsWrapped DEF Top, Last, Second
<1>2. QED
  BY <1>1 DEF Asserted, HasTop, Replaced, Below

LEMMA ActionKept ==
  ASSUME NEW sh, Fits(stack, sh), ActionReady(Insn(Entry.arg), sh), h_svm_action_action
  PROVE  Kept(ActionResults(Insn(Entry.arg), sh))
<1>1. pc = "trace" /\ Insn(Entry.arg).action = "h_svm_action_action"
  BY DEF h_svm_action_action, Action, Doing
<1>2. HasMark(sh) /\ Known(sh) /\ Count(sh) <= 1 /\ Env.tag # "TT_MARK"
  BY <1>1 DEF ActionReady, Env
<1>3. /\ Plus(Closed(sh), "some") \in ActionResults(Insn(Entry.arg), sh)
      /\ Argument \in Env.nulls => Closed(sh) \in ActionResults(Insn(Entry.arg), sh)
  BY <1>1 DEF ActionResults, Env
<1>4. Asserted /\ Fits(Replaced, Closed(sh)) /\ Known(Closed(sh))
  BY <1>2, AssertedStack
<1>5. CASE Argument \in Env.nulls
  <2>1. Pushed(Replaced)
    BY <1>4, <1>5 DEF h_svm_action_action
  <2>2. QED
    BY <1>1, <1>3, <1>4, <1>5, <2>1, KeptBy
<1>6. CASE Argument \notin Env.nulls
  <2>1. PICK x : x = <<Env.tag, Argument>>
    OBVIOUS
  <2>2. ~IsMark(x) /\ x # NULL
    BY <1>2, <2>1, Pairs
  <2>3. Fits(Append(Replaced, x), Plus(Closed(sh), "some"))
    BY <1>4, <2>2, FitsToken
  <2>4. Pushed(Append(Replaced, x))
    BY <1>4, <1>6, <2>1 DEF h_svm_action_action
  <2>5. QED
    BY <1>1, <1>3, <2>3, <2>4, KeptBy
<1>7. QED
  BY <1>5, <1>6

LEMMA AttrBoolKept ==
  ASSUME NEW sh, Fits(stack, sh), ActionReady(Insn(Entry.arg), sh), h_svm_action_attr_bool
  PROVE  Kept(ActionResults(Insn(Entry.arg), sh))
<1>1. pc = "trace" /\ Insn(Entry.arg).action = "h_svm_action_attr_bool"
  BY DEF h_svm_action_attr_bool, Action, Doing
<1>2. HasMark(sh) /\ Known(sh) /\ Count(sh) <= 1
  BY <1>1 DEF ActionReady
<1>3. (IF Count(sh) = 0 THEN Closed(sh) ELSE Plus(Closed(sh), "some"))
        \in ActionResults(Insn(Entry.arg), sh)
  BY <1>1 DEF ActionResults
<1>4. /\ Asserted /\ (IsMark(Top) <=> Count(sh) = 0) /\ Top # NULL
      /\ Fits(Replaced, Closed(sh)) /\ Known(Closed(sh))
  BY <1>2, AssertedStack
<1>5. CASE Argument \notin Env.accept
  BY <1>4, <1>5 DEF h_svm_action_attr_bool, Stop, Kept
<1>6. CASE Argument \in Env.accept /\ IsMark(Top)
  <2>1. Pushed(Replaced)
    BY <1>4, <1>6 DEF h_svm_action_attr_bool
  <2>2. Closed(sh) \in ActionResults(Insn(Entry.arg), sh)
    BY <1>3, <1>4, <1>6
  <2>3. QED
    BY <1>1, <1>4, <2>1, <2>2, KeptBy
<1>7. CASE Argument \in Env.accept /\ ~IsMark(Top)
  <2>1. Pushed(Append(Replaced, Top))
    BY <1>4, <1>7 DEF h_svm_action_attr_bool
  <2>2. Plus(Closed(sh), "some") \in ActionResults(Insn(Entry.arg), sh)
    BY <1>3, <1>4, <1>7
  <2>3. Fits(Append(Replaced, Top), Plus(Closed(sh), "some"))
    BY <1>4, <1>7, FitsToken
  <2>4. QED
    BY <1>1, <2>1, <2>2, <2>3, KeptBy
<1>8. QED
  BY <1>5, <1>6, <1>7

LEMMA OptionalKept ==
  ASSUME NEW sh, Fits(stack, sh), ActionReady(Insn(Entry.arg), sh), h_svm_action_optional
  PROVE  Kept(ActionResults(Insn(Entry.arg), sh))
<1>1. pc = "trace" /\ Insn(Entry.arg).action = "h_svm_action_optional"
  BY DEF h_svm_action_optional, Action, Doing
<1>2. HasMark(sh) /\ Known(sh) /\ Count(sh) <= 1
  BY <1>1 DEF ActionReady
<1>3. Plus(Closed(sh), "some") \in ActionResults(Insn(Entry.arg), sh)
  BY <1>1 DEF ActionResults
<1>4. Asserted /\ Top # NULL /\ Fits(Replaced, Closed(sh)) /\ Known(Closed(sh))
  BY <1>2, AssertedStack
<1>5. PICK x : x = IF IsMark(Top) THEN <<"TT_NONE">> ELSE Top
  OBVIOUS
<1>6. ~IsMark(x) /\ x # NULL
  <2>1. <<"TT_NONE">> # NULL /\ ~IsMark(<<"TT_NONE">>)
    BY DEF NULL, IsMark
  <2>2. QED
    BY <1>4, <1>5, <2>1
<1>7. Fits(Append(Replaced, x), Plus(Closed(sh), "some"))
  BY <1>4, <1>6, FitsToken
<1>8. Pushed(Append(Replaced, x))
  BY <1>4, <1>5 DEF h_svm_action_optional
<1>9. QED
  BY <1>1, <1>3, <1>7, <1>8, KeptBy

LEMMA ChKept ==
  ASSUME NEW sh, Fits(stack, sh), ActionReady(Insn(Entry.arg), sh), h_svm_action_ch
  PROVE  Kept(ActionResults(Insn(Entry.arg), sh))
<1>1. pc = "trace" /\ Insn(Entry.arg).action = "h_svm_action_ch"
  BY DEF h_svm_action_ch, Action, Doing
<1>2. sh.top = "bytes"
  BY <1>1 DEF ActionReady
<1>3. [segs |-> sh.segs, top |-> "some"] \in ActionResults(Insn(Entry.arg), sh)
  BY <1>1 DEF ActionResults
<1>4. PICK x : x = <<"TT_UINT", Top[2][1]>>
  OBVIOUS
<1>5. ~IsMark(x) /\ x # NULL
  BY <1>4, Pairs
<1>6. /\ stack # <<>> /\ Top # NULL /\ Top[1] = "TT_BYTES"
      /\ Fits(Append(Front(stack), x), [segs |-> sh.segs, top |-> "some"])
  BY <1>2, <1>5, FitsTop DEF Top, Last
<1>7. Pushed(Append(Front(stack), x))
  BY <1>4, <1>6 DEF h_svm_action_ch, HasTop
<1>8. QED
  BY <1>1, <1>3, <1>6, <1>7, KeptBy

LEMMA BitsKept ==
  ASSUME NEW sh, Fits(stack, sh), ActionReady(Insn(Entry.arg), sh), h_svm_action_bits
  PROVE  Kept(ActionResults(Insn(Entry.arg), sh))
<1> DEFINE res == FoldLeft(LAMBDA n, c : 256 * n + c, 0, Top[2])
           msb == IF Env.signedp THEN 2 ^ (8 * Len(Top[2]) - 1) ELSE 0
           extended == (IF res >= msb THEN res - msb ELSE res + msb) - msb
           x == IF Env.signedp THEN <<"TT_SINT", extended>> ELSE <<"TT_UINT", res>>
<1>1. pc = "trace" /\ Insn(Entry.arg).action = "h_svm_action_bits"
  BY DEF h_svm_action_bits, Action, Doing
<1>2. sh.top = "bytes"
  BY <1>1 DEF ActionReady
<1>3. [segs |-> sh.segs, top |-> "some"] \in ActionResults(Insn(Entry.arg), sh)
  BY <1>1 DEF ActionResults
<1>4. HasTop /\ Top[1] = "TT_BYTES" => Pushed(Append(Front(stack), x))
  BY Zenon DEF h_svm_action_bits
<1> HIDE DEF res, msb, extended
<1>5. ~IsMark(x) /\ x # NULL
  BY Pairs
<1> HIDE DEF x
<1>6. /\ stack # <<>> /\ Top # NULL /\ Top[1] = "TT_BYTES"
      /\ Fits(Append(Front(stack), x), [segs |-> sh.segs, top |-> "some"])
  BY <1>2, <1>5, FitsTop DEF Top, Last
<1>7. Pushed(Append(Front(stack), x))
  BY <1>4, <1>6 DEF HasTop
<1>8. QED
  BY <1>1, <1>3, <1>6, <1>7, KeptBy

LEMMA PopKept ==
  ASSUME NEW sh, Fits(stack, sh), ActionReady(Insn(Entry.arg), sh), h_svm_action_pop
  PROVE  Kept(ActionResults(Insn(Entry.arg), sh))
<1>1. pc = "trace" /\ Insn(Entry.arg).action = "h_svm_action_pop"
  BY DEF h_svm_action_pop, Action, Doing
<1>2. HasMark(sh) \/ Count(sh) > 0
  BY <1>1 DEF ActionReady
<1>3. ActionResults(Insn(Entry.arg), sh) = IF Count(sh) = 0 THEN {Closed(sh)} ELSE Minus(sh)
  BY <1>1 DEF ActionResults
<1>4. Count(sh) \in 0..2
  BY ShapeFields DEF Count, Fits
<1>5. stack # <<>> /\ \E r \in ActionResults(Insn(Entry.arg), sh) : Fits(Front(stack), r)
  <2>1. CASE Count(sh) = 0
    <3>1. HasMark(sh)
      BY <1>2, <2>1
    <3>2. stack # <<>> /\ Fits(Front(stack), Closed(sh))
      BY <2>1, <3>1, MarkOnTop
    <3>3. QED
      BY <1>3, <2>1, <3>2
  <2>2. CASE Count(sh) > 0
    BY <1>3, <2>2, FitsPop
  <2>3. QED
    BY <1>4, <2>1, <2>2
<1>6. Pushed(Front(stack))
  BY <1>5 DEF h_svm_action_pop
<1>7. QED
  BY <1>1, <1>5, <1>6, KeptBy

LEMMA RangeKept ==
  ASSUME NEW sh, Fits(stack, sh), ActionReady(Insn(Entry.arg), sh), h_svm_action_validate_int_range
  PROVE  Kept(ActionResults(Insn(Entry.arg), sh))
<1>1. pc = "trace" /\ Insn(Entry.arg).action = "h_svm_action_validate_int_range"
  BY DEF h_svm_action_validate_int_range, Action, Doing
<1>2. Known(sh) /\ (HasMark(sh) \/ Count(sh) > 0)
  BY <1>1 DEF ActionReady
<1>3. sh \in ActionResults(Insn(Entry.arg), sh)
  BY <1>1 DEF ActionResults
<1>4. HasTop
  BY <1>2, FitsSome DEF HasTop, Top, Last
<1>5. Pushed(stack) \/ Stop("done")
  BY <1>4 DEF h_svm_action_validate_int_range
<1>6. CASE Pushed(stack)
  BY <1>1, <1>3, <1>6, KeptBy
<1>7. CASE Stop("done")
  BY <1>7 DEF Stop, Kept
<1>8. QED
  BY <1>5, <1>6, <1>7

\* The end of a segment above a mark: a token of the segment, or the mark if it is empty.
LEMMA EndMark ==
  ASSUME NEW s, NEW segs, NEW at, Placed(s, segs, at), NEW j \in 2..Len(at)
  PROVE  EndOf(s, at, j) \in 1..Len(s) /\ (IsMark(s[EndOf(s, at, j)]) <=> segs[j] = 0)
<1> DEFINE e == EndOf(s, at, j)
<1>1. /\ Len(s) \in Nat /\ Len(at) \in Nat /\ Len(at) > 0 /\ at[1] = 0
      /\ \A l \in 1..Len(at) : at[l] \in 0..Len(s) /\ segs[l] \in 0..2
      /\ \A k, l \in 1..Len(at) : k < l => at[k] < at[l]
      /\ \A i \in 1..Len(s) : IsMark(s[i]) <=> \E l \in 2..Len(at) : at[l] = i
      /\ Counted(segs[j], e - at[j])
  <2>1. j \in 1..Len(at)
    BY PlacedFacts
  <2>2. QED
    BY <2>1, PlacedFacts
<1>2. j \in 1..Len(at) /\ 1 \in 1..Len(at) /\ 1 < j
  BY <1>1
<1>3. at[j] \in 1..Len(s) /\ segs[j] \in 0..2
  BY <1>1, <1>2
<1>4. /\ j = Len(at) => e = Len(s)
      /\ j # Len(at) => /\ j + 1 \in 1..Len(at) /\ e = at[j + 1] - 1
                        /\ at[j] < at[j + 1] /\ at[j + 1] \in 0..Len(s)
  <2>1. ASSUME j # Len(at) PROVE j + 1 \in 1..Len(at) /\ j < j + 1
    BY <1>1, <1>2, <2>1
  <2>2. QED
    BY <1>1, <1>2, <2>1 DEF EndOf
<1> HIDE DEF e
<1>5. e \in at[j]..Len(s) /\ e \in 1..Len(s)
  BY <1>1, <1>3, <1>4
<1>6. ASSUME segs[j] = 0 PROVE IsMark(s[e])
  <2>1. e = at[j]
    BY <1>1, <1>3, <1>5, <1>6 DEF Counted
  <2>2. QED
    BY <1>1, <1>5, <2>1
<1>7. ASSUME segs[j] # 0, IsMark(s[e]) PROVE FALSE
  <2>1. e > at[j]
    BY <1>1, <1>3, <1>5, <1>7 DEF Counted
  <2>2. PICK l \in 2..Len(at) : at[l] = e
    BY <1>1, <1>5, <1>7
  <2>3. l \in 1..Len(at) /\ at[l] \in Nat
    BY <1>1, <2>2
  <2>4. CASE l <= j
    <3>1. l = j \/ l < j
      BY <1>2, <2>3, <2>4
    <3>2. at[l] = at[j] \/ at[l] < at[j]
      BY <1>1, <1>2, <2>3, <3>1
    <3>3. QED
      BY <1>3, <2>1, <2>2, <2>3, <3>2
  <2>5. CASE l > j
    <3>1. j # Len(at) /\ (l = j + 1 \/ j + 1 < l)
      BY <1>1, <1>2, <2>3, <2>5
    <3>2. at[l] = at[j + 1] \/ at[j + 1] < at[l]
      BY <1>1, <1>4, <2>3, <3>1
    <3>3. QED
      BY <1>1, <1>4, <2>2, <2>3, <3>1, <3>2
  <2>6. QED
    BY <1>2, <2>3, <2>4, <2>5
<1>8. QED
  BY <1>5, <1>6, <1>7 DEF e

\* What ignoreseq reads: below its first mark, and the end of the segment that it keeps.
LEMMA IgnoreSeqStack ==
  ASSUME NEW sh, Fits(stack, sh), Known(sh), NEW n \in Nat, NEW which \in 1..n,
         NEW k, k = Len(sh.segs) - n, k > 0
  PROVE  /\ ~(Cardinality(Marks) < n)
         /\ MarkFromTop(n) \in 1..Len(stack)
         /\ Fits(Below(MarkFromTop(n)), Cut(sh, k)) /\ Known(Cut(sh, k))
         /\ LET top == IF which = n THEN Len(stack) ELSE MarkFromTop(n - which) - 1
            IN top \in 1..Len(stack) /\ (IsMark(stack[top]) <=> sh.segs[k + which] = 0)
<1>1. PICK at : Placed(stack, sh.segs, at)
  BY DEF Fits
<1>2. Len(at) = Len(sh.segs) /\ Len(at) \in Nat
  BY <1>1, PlacedFacts
<1>3. PICK l : l = Len(at) /\ l \in Nat /\ k = l - n
  BY <1>2
<1>4. l > 1 /\ k \in 1..l - 1 /\ k + 1 = l + 1 - n /\ n \in 1..l - 1
  BY <1>3
<1>5. Marks = MarksOf(stack)
  BY DEF Marks, MarksOf
<1>6. Cardinality(Marks) = l - 1 /\ \A i \in 1..l - 1 : MarkFromTop(i) = at[l + 1 - i]
  <2>1. \A i : MarkFromTop(i) = FromTop(stack, i)
    BY Zenon DEF MarkFromTop, FromTop, Marks, MarksOf
  <2>2. QED
    BY <1>1, <1>3, <1>4, <1>5, <2>1, MarksCounted
<1>7. MarkFromTop(n) = at[k + 1]
  BY <1>4, <1>6
<1>8. /\ at[k + 1] \in 1..Len(stack)
      /\ Fits(SubSeq(stack, 1, at[k + 1] - 1), Cut(sh, k)) /\ Known(Cut(sh, k))
  BY <1>1, <1>3, <1>4, FitsCut
<1>9. PICK j : j = k + which /\ j \in 2..l
  BY <1>3, <1>4
<1>10. (IF which = n THEN Len(stack) ELSE MarkFromTop(n - which) - 1) = EndOf(stack, at, j)
  <2>1. CASE which = n
    <3>1. j = l
      BY <1>3, <1>9, <2>1
    <3>2. QED
      BY <1>3, <2>1, <3>1 DEF EndOf
  <2>2. CASE which # n
    <3>1. j # l /\ n - which \in 1..l - 1 /\ l + 1 - (n - which) = j + 1
      BY <1>3, <1>4, <1>9, <2>2
    <3>2. MarkFromTop(n - which) = at[j + 1]
      BY <1>6, <3>1
    <3>3. QED
      BY <1>3, <2>2, <3>1, <3>2 DEF EndOf
  <2>3. QED
    BY <2>1, <2>2
<1>11. /\ EndOf(stack, at, j) \in 1..Len(stack)
       /\ IsMark(stack[EndOf(stack, at, j)]) <=> sh.segs[j] = 0
  BY <1>1, <1>3, <1>9, EndMark
<1>12. ~(l - 1 < n)
  BY <1>3, <1>4
<1>13. QED
  BY <1>6, <1>7, <1>8, <1>9, <1>10, <1>11, <1>12 DEF Below

LEMMA IgnoreSeqKept ==
  ASSUME NEW sh, Fits(stack, sh), ActionReady(Insn(Entry.arg), sh), h_svm_action_ignoreseq
  PROVE  Kept(ActionResults(Insn(Entry.arg), sh))
<1> DEFINE top == IF Env.which = Len(Env.sub) THEN Len(stack)
                  ELSE MarkFromTop(Len(Env.sub) - Env.which) - 1
           bottom == MarkFromTop(Len(Env.sub))
           k == Lowest(Insn(Entry.arg), sh)
           x == IF IsMark(stack[top]) THEN NULL ELSE stack[top]
           what == IF sh.segs[k + Env.which] = 0 THEN "null" ELSE "some"
<1>1. pc = "trace" /\ Insn(Entry.arg).action = "h_svm_action_ignoreseq"
  BY DEF h_svm_action_ignoreseq, Action, Doing
<1>2. /\ Known(sh) /\ Len(Env.sub) \in Nat /\ Env.which \in 1..Len(Env.sub)
      /\ k = Len(sh.segs) - Len(Env.sub) /\ k > 0
  BY <1>1 DEF ActionReady, Lowest, Env
<1>3. Plus(Cut(sh, k), what) \in ActionResults(Insn(Entry.arg), sh)
  BY <1>1 DEF ActionResults, Env
<1>4. /\ ~(Cardinality(Marks) < Len(Env.sub)) /\ bottom \in 1..Len(stack)
      /\ Fits(Below(bottom), Cut(sh, k)) /\ Known(Cut(sh, k))
      /\ top \in 1..Len(stack) /\ (IsMark(stack[top]) <=> sh.segs[k + Env.which] = 0)
  <2> HIDE DEF k
  <2>1. PICK n \in Nat : n = Len(Env.sub)
    BY <1>2
  <2>2. PICK w \in 1..n : w = Env.which
    BY <1>2, <2>1
  <2>3. k = Len(sh.segs) - n /\ k > 0 /\ Known(sh)
    BY <1>2, <2>1
  <2>4. /\ ~(Cardinality(Marks) < n)
        /\ MarkFromTop(n) \in 1..Len(stack)
        /\ Fits(Below(MarkFromTop(n)), Cut(sh, k)) /\ Known(Cut(sh, k))
        /\ LET e == IF w = n THEN Len(stack) ELSE MarkFromTop(n - w) - 1
           IN e \in 1..Len(stack) /\ (IsMark(stack[e]) <=> sh.segs[k + w] = 0)
    BY <2>3, IgnoreSeqStack
  <2>5. QED
    BY <2>1, <2>2, <2>4, Zenon
<1>5. \A i \in 1..Len(stack) : stack[i] # NULL
  BY <1>2, NoNull
<1>6. ~IsMark(x) /\ (x = NULL => what = "null") /\ what \in {"null", "some"}
  BY <1>4, <1>5, NullIsNoMark
<1>7. Pushed(Append(Below(bottom), x))
  <2>1. ~\E i \in bottom..Len(stack) : stack[i] = NULL
    <3>1. Len(stack) \in Nat
      BY <1>2, NoNull
    <3>2. \A i \in bottom..Len(stack) : i \in 1..Len(stack)
      BY <1>4, <3>1
    <3>3. QED
      BY <1>5, <3>2
  <2>2. IF Cardinality(Marks) < Len(Env.sub) \/ \E i \in bottom..Len(stack) : stack[i] = NULL
        THEN Stop("abort") ELSE Pushed(Append(Below(bottom), x))
    BY Zenon DEF h_svm_action_ignoreseq
  <2>3. QED
    BY <1>4, <2>1, <2>2
<1> HIDE DEF x, what, bottom, k
<1>8. Fits(Append(Below(bottom), x), Plus(Cut(sh, k), what))
  BY <1>4, <1>6, FitsToken
<1>9. QED
  BY <1>1, <1>3, <1>7, <1>8, KeptBy

-----------------------------------------------------------------------------
(* Traces. *)

\* The instruction i at ip is one that records e.
Records(i, ip, e) ==
  \/ i.op = "RVM_PUSH" /\ e.op = "SVM_PUSH"
  \/ i.op = "RVM_CAPTURE" /\ e.op = "SVM_CAPTURE"
  \/ i.op = "RVM_ACTION" /\ e.op = "SVM_ACTION" /\ e.arg = ip
  \/ i.op = "RVM_ACCEPT" /\ e.op = "SVM_ACCEPT"

\* Replayed on a stack with a shape of A, the entry e finds what it asserts, and leaves a
\* stack with a shape of B.
Leads(p, e, A, B) ==
  \/ e.op = "SVM_NOP" /\ A \subseteq B
  \/ \E ip : /\ Records(p[ip + 1], ip, e)
             /\ \A sh \in A : Ready(p[ip + 1], sh) /\ Results(p[ip + 1], sh) \subseteq B

\* The trace tr, its last entry first, leads from the empty stack to one with a shape of B:
\* h[i] are the shapes before its entry i.
RunsTo(p, tr, B) ==
  /\ Len(tr) > 0
  /\ \E h : /\ Start \in h[Len(tr)]
            /\ Leads(p, tr[1], h[1], B)
            /\ \A i \in 1..Len(tr) - 1 : Leads(p, tr[i + 1], h[i + 1], h[i])

\* The trace tr, its first entry first, can be replayed on the stack s, and accepts.
Replays(p, tr, s) ==
  /\ Len(tr) > 0 /\ tr[Len(tr)].op = "SVM_ACCEPT"
  /\ \E g : /\ \E sh \in g[1] : Fits(s, sh)
            /\ \A i \in 1..Len(tr) - 1 : Leads(p, tr[i], g[i], g[i + 1])
            /\ Leads(p, tr[Len(tr)], g[Len(tr)], {})

LEMMA LeadsMore ==
  ASSUME NEW p, NEW e, NEW A, NEW B, NEW C, Leads(p, e, A, B), B \subseteq C
  PROVE  Leads(p, e, A, C)
BY DEF Leads

LEMMA RunsToMore ==
  ASSUME NEW p, NEW tr, NEW B, NEW C, RunsTo(p, tr, B), B \subseteq C
  PROVE  RunsTo(p, tr, C)
BY LeadsMore DEF RunsTo

\* The first entry of every trace.
LEMMA RunsToNop ==
  ASSUME NEW p, NEW e, e.op = "SVM_NOP", NEW B, Start \in B
  PROVE  RunsTo(p, <<e>>, B)
<1>1. Leads(p, e, B, B)
  BY DEF Leads
<1>2. Len(<<e>>) = 1 /\ <<e>>[1] = e /\ 1 \in 1..1
  OBVIOUS
<1>3. PICK h : h = [i \in 1..1 |-> B]
  OBVIOUS
<1>4. h[1] = B
  BY <1>3
<1>5. QED
  BY <1>1, <1>2, <1>4 DEF RunsTo

\* One more entry.
LEMMA RunsToAlso ==
  ASSUME NEW p, NEW T, NEW tr \in Seq(T), NEW e \in T, NEW A, NEW B,
         RunsTo(p, tr, A), Leads(p, e, A, B)
  PROVE  RunsTo(p, <<e>> \o tr, B)
<1>1. PICK h : /\ Start \in h[Len(tr)]
               /\ Leads(p, tr[1], h[1], A)
               /\ \A i \in 1..Len(tr) - 1 : Leads(p, tr[i + 1], h[i + 1], h[i])
  BY DEF RunsTo
<1>2. PICK n \in Nat : n = Len(tr) /\ n > 0
  BY DEF RunsTo
<1>3. PICK u : u = <<e>> \o tr
  OBVIOUS
<1>4. Len(u) = n + 1 /\ u[1] = e /\ \A i \in 1..n : u[i + 1] = tr[i]
  BY <1>2, <1>3
<1>5. PICK g : g = [i \in 1..n + 1 |-> IF i = 1 THEN A ELSE h[i - 1]]
  OBVIOUS
<1>6. g[1] = A /\ \A i \in 1..n : g[i + 1] = h[i]
  <2>1. 1 \in 1..n + 1 /\ \A i \in 1..n : i + 1 \in 1..n + 1 /\ i + 1 # 1 /\ (i + 1) - 1 = i
    BY <1>2
  <2>2. QED
    BY <1>5, <2>1
<1>7. Start \in g[n + 1]
  <2>1. n \in 1..n
    BY <1>2
  <2>2. QED
    BY <1>1, <1>2, <1>6, <2>1
<1>8. ASSUME NEW i \in 1..(n + 1) - 1 PROVE Leads(p, u[i + 1], g[i + 1], g[i])
  <2>1. i \in 1..n
    BY <1>2
  <2>2. u[i + 1] = tr[i] /\ g[i + 1] = h[i]
    BY <1>4, <1>6, <2>1
  <2>3. CASE i = 1
    BY <1>1, <1>6, <2>2, <2>3
  <2>4. CASE i # 1
    <3>1. PICK j \in 1..n - 1 : i = j + 1
      <4>1. i - 1 \in 1..n - 1 /\ i = (i - 1) + 1
        BY <1>2, <2>1, <2>4
      <4>2. QED
        BY <4>1
    <3>2. j \in 1..n
      BY <1>2, <3>1
    <3>3. g[i] = h[j]
      BY <1>6, <3>1, <3>2
    <3>4. QED
      BY <1>1, <1>2, <2>2, <3>1, <3>3
  <2>5. QED
    BY <2>3, <2>4
<1>9. n + 1 > 0
  BY <1>2
<1>10. RunsTo(p, u, B)
  BY <1>4, <1>6, <1>7, <1>8, <1>9 DEF RunsTo
<1>11. QED
  BY <1>3, <1>10

\* invert_trace: what leads from the empty stack to an accepting entry can be replayed.
LEMMA Inverted ==
  ASSUME NEW p, NEW T, NEW tr \in Seq(T), RunsTo(p, tr, {}), tr[1].op = "SVM_ACCEPT"
  PROVE  Replays(p, Reverse(tr), <<>>)
<1>1. PICK h : /\ Start \in h[Len(tr)]
               /\ Leads(p, tr[1], h[1], {})
               /\ \A i \in 1..Len(tr) - 1 : Leads(p, tr[i + 1], h[i + 1], h[i])
  BY DEF RunsTo
<1>2. PICK n \in Nat : n = Len(tr) /\ n > 0
  BY DEF RunsTo
<1>3. PICK u : u = Reverse(tr)
  OBVIOUS
<1>4. u \in [1..n -> T] /\ \A i \in 1..n : u[i] = tr[(n - i) + 1]
  <2>1. \A i \in 1..n : (n - i) + 1 \in 1..n
    BY <1>2
  <2>2. \A i \in 1..n : tr[i] \in T
    BY <1>2
  <2>3. u = [i \in 1..n |-> tr[(n - i) + 1]]
    BY <1>2, <1>3 DEF Reverse
  <2>4. QED
    BY <2>1, <2>2, <2>3
<1>5. Len(u) = n
  BY <1>2, <1>4
<1>6. PICK g : g = [i \in 1..n |-> h[(n - i) + 1]]
  OBVIOUS
<1>7. n \in 1..n /\ 1 \in 1..n /\ (n - n) + 1 = 1 /\ (n - 1) + 1 = n
  BY <1>2
<1>8. u[n] = tr[1] /\ g[n] = h[1] /\ g[1] = h[n]
  BY <1>4, <1>6, <1>7
<1>9. \E sh \in g[1] : Fits(<<>>, sh)
  BY <1>1, <1>2, <1>8, FitsStart
<1>10. ASSUME NEW i \in 1..n - 1 PROVE Leads(p, u[i], g[i], g[i + 1])
  <2>1. PICK j \in 1..n - 1 : j = n - i
    <3>1. n - i \in 1..n - 1
      BY <1>2
    <3>2. QED
      BY <3>1
  <2>2. (n - i) + 1 = j + 1 /\ (n - (i + 1)) + 1 = j /\ i \in 1..n /\ i + 1 \in 1..n
    BY <1>2, <2>1
  <2>3. u[i] = tr[j + 1] /\ g[i] = h[j + 1] /\ g[i + 1] = h[j]
    BY <1>4, <1>6, <2>2
  <2>4. QED
    BY <1>1, <1>2, <2>3
<1>11. Replays(p, u, <<>>)
  BY <1>1, <1>2, <1>5, <1>8, <1>9, <1>10 DEF Replays
<1>12. QED
  BY <1>3, <1>11

LEMMA KeptMore ==
  ASSUME NEW A, NEW B, A \subseteq B, Kept(A)
  PROVE  Kept(B)
BY DEF Kept

\* One entry is replayed.
LEMMA EntryKept ==
  ASSUME NEW A, NEW B, Leads(prog.insns, Entry, A, B), NEW sh \in A, Fits(stack, sh),
         Replay, pc = "trace"
  PROVE  Kept(B)
<1>1. CASE SVM_NOP
  <2>1. Kept({sh})
    BY <1>1, NopKept
  <2>2. Entry.op = "SVM_NOP"
    BY <1>1 DEF SVM_NOP, Doing
  <2>3. {sh} \subseteq B
    BY <2>2 DEF Leads, Records
  <2>4. QED
    BY <2>1, <2>3, KeptMore
<1>2. CASE ~SVM_NOP
  <2>1. /\ Entry.op # "SVM_NOP"
        /\ \/ SVM_PUSH \/ SVM_CAPTURE \/ SVM_ACCEPT \/ h_svm_action_make_sequence
           \/ h_svm_action_clear_to_mark \/ h_svm_action_action \/ h_svm_action_attr_bool
           \/ h_svm_action_ch \/ h_svm_action_bits \/ h_svm_action_pop
           \/ h_svm_action_optional \/ h_svm_action_validate_int_range \/ h_svm_action_ignoreseq
    <3>1. ~MatchFail
      BY DEF MatchFail
    <3>2. \/ SVM_PUSH \/ SVM_CAPTURE \/ SVM_ACCEPT \/ h_svm_action_make_sequence
          \/ h_svm_action_clear_to_mark \/ h_svm_action_action \/ h_svm_action_attr_bool
          \/ h_svm_action_ch \/ h_svm_action_bits \/ h_svm_action_pop
          \/ h_svm_action_optional \/ h_svm_action_validate_int_range \/ h_svm_action_ignoreseq
      BY <1>2, <3>1 DEF Replay
    <3>3. QED
      BY <3>2 DEF SVM_PUSH, SVM_CAPTURE, SVM_ACCEPT, h_svm_action_make_sequence,
        h_svm_action_clear_to_mark, h_svm_action_action, h_svm_action_attr_bool, h_svm_action_ch,
        h_svm_action_bits, h_svm_action_pop, h_svm_action_optional,
        h_svm_action_validate_int_range, h_svm_action_ignoreseq, Doing, Action
  <2>2. PICK ip : /\ Records(prog.insns[ip + 1], ip, Entry)
                  /\ \A r \in A : /\ Ready(prog.insns[ip + 1], r)
                                  /\ Results(prog.insns[ip + 1], r) \subseteq B
    BY <2>1 DEF Leads
  <2>3. PICK i : i = prog.insns[ip + 1]
    OBVIOUS
  <2>4. Records(i, ip, Entry) /\ Ready(i, sh) /\ Results(i, sh) \subseteq B
    BY <2>2, <2>3
  <2>5. CASE SVM_PUSH
    <3>1. i.op = "RVM_PUSH"
      BY <2>4, <2>5 DEF Records, SVM_PUSH, Doing
    <3>2. QED
      BY <2>4, <2>5, <3>1, PushKept, KeptMore
  <2>6. CASE SVM_CAPTURE
    <3>1. i.op = "RVM_CAPTURE"
      BY <2>4, <2>6 DEF Records, SVM_CAPTURE, Doing
    <3>2. QED
      BY <2>4, <2>6, <3>1, CaptureKept, KeptMore
  <2>7. CASE SVM_ACCEPT
    <3>1. i.op = "RVM_ACCEPT"
      BY <2>4, <2>7 DEF Records, SVM_ACCEPT, Doing
    <3>2. QED
      BY <2>4, <2>7, <3>1, AcceptKept DEF Kept
  <2>8. CASE ~SVM_PUSH /\ ~SVM_CAPTURE /\ ~SVM_ACCEPT
    <3>1. Entry.op = "SVM_ACTION"
      BY <2>1, <2>8 DEF h_svm_action_make_sequence,
        h_svm_action_clear_to_mark, h_svm_action_action, h_svm_action_attr_bool, h_svm_action_ch,
        h_svm_action_bits, h_svm_action_pop, h_svm_action_optional,
        h_svm_action_validate_int_range, h_svm_action_ignoreseq, Doing, Action
    <3>2. i.op = "RVM_ACTION" /\ Insn(Entry.arg) = i
      BY <2>3, <2>4, <3>1 DEF Records, Insn
    <3>3. ActionReady(Insn(Entry.arg), sh) /\ ActionResults(Insn(Entry.arg), sh) \subseteq B
      BY <2>4, <3>2 DEF Ready, Results
    <3>4. Kept(ActionResults(Insn(Entry.arg), sh))
      BY <2>1, <2>8, <3>3, MakeSequenceKept, ClearToMarkKept, ActionKept, AttrBoolKept, ChKept,
         BitsKept, PopKept, OptionalKept, RangeKept, IgnoreSeqKept
    <3>5. QED
      BY <3>3, <3>4, KeptMore
  <2>9. QED
    BY <2>5, <2>6, <2>7, <2>8
<1>3. QED
  BY <1>1, <1>2

\* A step of run_trace: what is left of the trace can be replayed on the new stack.
LEMMA ReplayStep ==
  ASSUME Replays(prog.insns, trace, stack), NEW T, trace \in Seq(T), Replay, pc = "trace"
  PROVE  pc' = "done" \/ (pc' = "trace" /\ trace' = Tail(trace)
                          /\ Replays(prog.insns, trace', stack'))
<1> DEFINE p == prog.insns
<1>1. PICK g : /\ \E sh \in g[1] : Fits(stack, sh)
               /\ \A i \in 1..Len(trace) - 1 : Leads(p, trace[i], g[i], g[i + 1])
               /\ Leads(p, trace[Len(trace)], g[Len(trace)], {})
  BY DEF Replays
<1>2. PICK n \in Nat : n = Len(trace) /\ n > 0
  BY DEF Replays
<1>3. PICK sh \in g[1] : Fits(stack, sh)
  BY <1>1
<1>4. trace[n].op = "SVM_ACCEPT"
  BY <1>2 DEF Replays
<1> HIDE DEF p
<1>5. CASE n = 1
  <2>1. Leads(p, Entry, g[1], {})
    BY <1>1, <1>2, <1>5 DEF Entry
  <2>2. Kept({})
    BY <1>3, <2>1, EntryKept DEF p
  <2>3. QED
    BY <2>2 DEF Kept
<1>6. CASE n # 1
  <2>1. 1 \in 1..n - 1 /\ 1 + 1 = 2
    BY <1>2, <1>6
  <2>2. Leads(p, Entry, g[1], g[2])
    BY <1>1, <1>2, <2>1 DEF Entry
  <2>3. Kept(g[2])
    BY <1>3, <2>2, EntryKept DEF p
  <2>4. CASE pc' = "done"
    BY <2>4
  <2>5. CASE pc' # "done"
    <3>1. pc' = "trace" /\ trace' = Tail(trace) /\ \E r \in g[2] : Fits(stack', r)
      BY <2>3, <2>5 DEF Kept
    <3>2. PICK u : u = Tail(trace)
      OBVIOUS
    <3>3. PICK m \in Nat : n = m + 1 /\ m > 0
      <4>1. n - 1 \in Nat /\ n = (n - 1) + 1 /\ n - 1 > 0
        BY <1>2, <1>6
      <4>2. QED
        BY <4>1
    <3>4. Len(u) = m /\ \A i \in 1..m : u[i] = trace[i + 1]
      <4>1. trace # <<>>
        BY <1>2
      <4>2. Len(u) = Len(trace) - 1 /\ \A i \in 1..Len(u) : u[i] = trace[i + 1]
        BY <3>2, <4>1, HeadTailProperties
      <4>3. Len(trace) - 1 = m
        BY <1>2, <3>3
      <4>4. QED
        BY <4>2, <4>3
    <3>5. PICK f : f = [i \in 1..m |-> g[i + 1]]
      OBVIOUS
    <3>6. f[1] = g[2] /\ \A i \in 1..m : f[i] = g[i + 1]
      BY <3>3, <3>5
    <3>7. m \in 1..m /\ \A i \in 1..m - 1 : i \in 1..m /\ i + 1 \in 1..m /\ i + 1 \in 1..n - 1
      BY <3>3
    <3>8. ASSUME NEW i \in 1..m - 1 PROVE Leads(p, u[i], f[i], f[i + 1])
      <4>1. u[i] = trace[i + 1] /\ f[i] = g[i + 1] /\ f[i + 1] = g[(i + 1) + 1]
        BY <3>4, <3>6, <3>7
      <4>2. i + 1 \in 1..n - 1
        BY <3>7
      <4>3. Leads(p, trace[i + 1], g[i + 1], g[(i + 1) + 1])
        BY <1>1, <1>2, <4>2
      <4>4. QED
        BY <4>1, <4>3
    <3>9. u[m] = trace[n] /\ f[m] = g[n]
      BY <3>3, <3>4, <3>6, <3>7
    <3>10. Leads(p, u[m], f[m], {}) /\ u[m].op = "SVM_ACCEPT"
      BY <1>1, <1>2, <1>4, <3>9
    <3>11. PICK s : s = stack'
      OBVIOUS
    <3>12. \E r \in f[1] : Fits(s, r)
      BY <3>1, <3>6, <3>11
    <3>13. Replays(p, u, s)
      BY <3>3, <3>4, <3>8, <3>10, <3>12 DEF Replays
    <3>14. QED
      BY <3>1, <3>2, <3>11, <3>13 DEF p
  <2>6. QED
    BY <2>4, <2>5
<1>7. QED
  BY <1>5, <1>6

-----------------------------------------------------------------------------
(* The traces of the threads. *)

\* Threads whose trace leads to the shapes of their address.
Good == {t \in Threads(Addresses) : RunsTo(prog.insns, t.trace, Shapes(prog)[t.ip])}

Accepting(p, tr) == tr \in Traces /\ tr[1].op = "SVM_ACCEPT" /\ RunsTo(p, tr, {})

\* The program that runs has shapes.
HasShapes == Shaped(prog.insns, Shapes(prog))

NInv ==
  /\ HasShapes
  /\ input \in Seq(Bytes) /\ (pc = "run" => off <= Len(input))
  /\ heads_p \in Seq(Good) /\ heads_n \in Seq(Good) /\ ip_queue \in Seq(Good)
  /\ ret_trace # NoTrace => Accepting(prog.insns, ret_trace)
  /\ pc \in {"char", "run", "match_fail", "trace", "done"}
  /\ pc \in {"char", "run", "match_fail"} => stack = <<>>
  /\ pc = "trace" => trace \in Traces /\ Replays(prog.insns, trace, stack)

\* What a program's shapes say of an address.
LEMMA ShapedHere ==
  ASSUME HasShapes, NEW ip \in Addresses
  PROVE  LET S == Shapes(prog)
             i == Insn(ip)
         IN /\ Start \in S[0]
            /\ i.op = "RVM_MATCH" => i.lo \in Int /\ i.hi \in Int
            /\ \A j \in Jumps(i, ip) : S[ip] \subseteq S[j]
            /\ \A sh \in S[ip] :
                 /\ i.op \in Recorded \cup {"RVM_ACCEPT"} => Ready(i, sh)
                 /\ i.op \in Recorded => Results(i, sh) \subseteq S[ip + 1]
BY DEF HasShapes, Shaped, Addresses, Length, Insn

\* What is below the top, and what is put there.
LEMMA FrontOf ==
  ASSUME NEW S, NEW q \in Seq(S), q # <<>>
  PROVE  q[Len(q)] \in S /\ Front(q) \in Seq(S) /\ \A t \in S : Append(Front(q), t) \in Seq(S)
<1>1. PICK n \in Nat : n = Len(q) /\ n > 0
  OBVIOUS
<1>2. n \in 1..n /\ n - 1 \in 0..n
  BY <1>1
<1>3. SubSeq(q, 1, n - 1) \in Seq(S)
  BY <1>1, <1>2, TypedPrefix
<1>4. Front(q) \in Seq(S)
  BY <1>1, <1>3 DEF Front
<1>5. QED
  BY <1>1, <1>2, <1>4

\* The running thread.
LEMMA GoodHere ==
  ASSUME IInv, NInv, ip_queue # <<>>
  PROVE  /\ THREAD \in Good /\ Others \in Seq(Good)
         /\ \A t \in Good : Append(Others, t) \in Seq(Good)
         /\ THREAD.ip \in Addresses /\ THREAD.trace \in Traces
         /\ RunsTo(prog.insns, THREAD.trace, Shapes(prog)[THREAD.ip])
<1>1. /\ THREAD \in Good /\ Others \in Seq(Good)
      /\ \A t \in Good : Append(Others, t) \in Seq(Good)
  BY FrontOf DEF NInv, THREAD, Others
<1>2. THREAD \in Threads(Addresses) /\ RunsTo(prog.insns, THREAD.trace, Shapes(prog)[THREAD.ip])
  BY <1>1 DEF Good
<1>3. QED
  BY <1>1, <1>2, AtInsn

\* It goes elsewhere with the trace that it has.
LEMMA GoodMoved ==
  ASSUME IInv, NInv, ip_queue # <<>>, NEW ip \in Addresses, ip \in Jumps(Insn(THREAD.ip), THREAD.ip)
  PROVE  [THREAD EXCEPT !.ip = ip] \in Good /\ Moved(ip) \in Seq(Good)
<1>1. /\ THREAD.ip \in Addresses /\ THREAD.trace \in Traces
      /\ RunsTo(prog.insns, THREAD.trace, Shapes(prog)[THREAD.ip])
      /\ \A t \in Good : Append(Others, t) \in Seq(Good)
  BY GoodHere
<1>2. Shapes(prog)[THREAD.ip] \subseteq Shapes(prog)[ip]
  BY <1>1, ShapedHere DEF NInv
<1>3. RunsTo(prog.insns, THREAD.trace, Shapes(prog)[ip])
  BY <1>1, <1>2, RunsToMore
<1>4. PICK t : t = [THREAD EXCEPT !.ip = ip]
  OBVIOUS
<1>5. t \in Threads(Addresses) /\ t.ip = ip /\ t.trace = THREAD.trace
  BY <1>4, AtInsn DEF Threads
<1>6. t \in Good
  BY <1>3, <1>5 DEF Good
<1>7. QED
  BY <1>1, <1>4, <1>6 DEF Moved

\* It goes on with one more entry in its trace.
LEMMA GoodTraced ==
  ASSUME IInv, NInv, ip_queue # <<>>, THREAD.ip + 1 \in Addresses, NEW op \in SvmOps, NEW arg \in Nat,
         Insn(THREAD.ip).op \in Recorded, Records(Insn(THREAD.ip), THREAD.ip, Svm(op, arg))
  PROVE  Traced(Svm(op, arg)) \in Seq(Good)
<1> DEFINE p == prog.insns
<1>1. /\ THREAD.ip \in Addresses /\ THREAD.trace \in Traces
      /\ RunsTo(p, THREAD.trace, Shapes(prog)[THREAD.ip])
      /\ \A t \in Good : Append(Others, t) \in Seq(Good)
  BY GoodHere
<1>2. PICK e : e = Svm(op, arg)
  OBVIOUS
<1>3. e \in [op : SvmOps, arg : Nat, input_pos : Nat]
  BY <1>2 DEF Svm, IInv
<1>4. Leads(p, e, Shapes(prog)[THREAD.ip], Shapes(prog)[THREAD.ip + 1])
  <2>1. \A sh \in Shapes(prog)[THREAD.ip] :
          /\ Ready(Insn(THREAD.ip), sh)
          /\ Results(Insn(THREAD.ip), sh) \subseteq Shapes(prog)[THREAD.ip + 1]
    BY <1>1, ShapedHere DEF NInv
  <2>2. QED
    BY <1>2, <2>1 DEF Leads, Insn
<1> HIDE DEF p
<1>5. RunsTo(p, <<e>> \o THREAD.trace, Shapes(prog)[THREAD.ip + 1])
  BY <1>1, <1>3, <1>4, RunsToAlso DEF Traces
<1>6. <<e>> \o THREAD.trace \in Traces
  BY <1>1, <1>3 DEF Traces
<1>7. PICK u : u = <<e>> \o THREAD.trace
  OBVIOUS
<1>8. PICK t : t = [ip |-> THREAD.ip + 1, trace |-> u]
  OBVIOUS
<1>9. t \in Threads(Addresses) /\ t.ip = THREAD.ip + 1 /\ t.trace = u
  BY <1>6, <1>7, <1>8 DEF Threads
<1>10. t \in Good
  BY <1>5, <1>7, <1>9 DEF Good, p
<1>11. QED
  BY <1>1, <1>2, <1>7, <1>8, <1>10 DEF Traced

\* It accepts.
LEMMA GoodAccepting ==
  ASSUME IInv, NInv, ip_queue # <<>>, Insn(THREAD.ip).op = "RVM_ACCEPT"
  PROVE  Accepting(prog.insns, <<Svm("SVM_ACCEPT", 0)>> \o THREAD.trace)
<1> DEFINE p == prog.insns
<1>1. /\ THREAD.ip \in Addresses /\ THREAD.trace \in Traces
      /\ RunsTo(p, THREAD.trace, Shapes(prog)[THREAD.ip])
  BY GoodHere
<1>2. PICK e : e = Svm("SVM_ACCEPT", 0)
  OBVIOUS
<1>3. e \in [op : SvmOps, arg : Nat, input_pos : Nat] /\ e.op = "SVM_ACCEPT"
  BY <1>2 DEF Svm, IInv, SvmOps
<1>4. Leads(p, e, Shapes(prog)[THREAD.ip], {})
  <2>1. \A sh \in Shapes(prog)[THREAD.ip] : Ready(Insn(THREAD.ip), sh)
    BY <1>1, ShapedHere DEF NInv
  <2>2. \A sh : Results(Insn(THREAD.ip), sh) = {}
    BY DEF Results
  <2>3. Records(Insn(THREAD.ip), THREAD.ip, e)
    BY <1>3 DEF Records
  <2>4. QED
    BY <2>1, <2>2, <2>3 DEF Leads, Insn
<1> HIDE DEF p
<1>5. RunsTo(p, <<e>> \o THREAD.trace, {})
  BY <1>1, <1>3, <1>4, RunsToAlso DEF Traces
<1>6. <<e>> \o THREAD.trace \in Traces /\ (<<e>> \o THREAD.trace)[1] = e
  BY <1>1, <1>3 DEF Traces
<1>7. QED
  BY <1>2, <1>3, <1>5, <1>6 DEF Accepting, p

\* It waits for the next byte.
LEMMA GoodStep ==
  ASSUME IInv, NInv, ip_queue # <<>>, THREAD.ip + 1 \in Addresses, Insn(THREAD.ip).op = "RVM_STEP"
  PROVE  Set(heads_n, THREAD.ip + 1, THREAD.trace) \in Seq(Good)
<1>1. THREAD.ip + 1 \in Jumps(Insn(THREAD.ip), THREAD.ip)
  BY DEF Jumps
<1>2. [THREAD EXCEPT !.ip = THREAD.ip + 1] \in Good
  BY <1>1, GoodMoved
<1>3. PICK t : t = [ip |-> THREAD.ip + 1, trace |-> THREAD.trace]
  OBVIOUS
<1>4. [THREAD EXCEPT !.ip = THREAD.ip + 1] = t
  BY <1>3, AtInsn DEF Threads
<1>5. QED
  BY <1>2, <1>3, <1>4, Sets DEF NInv

\* The byte of the input that a match looks at.
LEMMA CharIsNat ==
  ASSUME IInv, NInv, pc = "run"
  PROVE  Char \in Nat
<1>1. off \in Nat /\ off <= Len(input) /\ input \in Seq(Bytes) /\ Bytes \subseteq Nat
  BY BytesAssumption DEF IInv, NInv
<1>2. ASSUME off # Len(input) PROVE input[off + 1] \in Bytes
  <2>1. PICK n \in Nat : n = Len(input)
    BY <1>1
  <2>2. off + 1 \in 1..n
    BY <1>1, <1>2, <2>1
  <2>3. QED
    BY <1>1, <2>1, <2>2
<1>3. QED
  BY <1>1, <1>2 DEF Char

LEMMA InitNInv == Init /\ HasShapes => NInv
<1> SUFFICES ASSUME Init, HasShapes PROVE NInv
  OBVIOUS
<1>1. 0 \in Addresses
  BY Program DEF Init
<1>2. PICK e : e = [op |-> "SVM_NOP", arg |-> 0, input_pos |-> 0]
  OBVIOUS
<1>3. e \in [op : SvmOps, arg : Nat, input_pos : Nat] /\ e.op = "SVM_NOP"
  BY <1>2 DEF SvmOps
<1>4. Start \in Shapes(prog)[0]
  BY <1>1, ShapedHere
<1>5. RunsTo(prog.insns, <<e>>, Shapes(prog)[0])
  BY <1>3, <1>4, RunsToNop
<1>6. PICK u : u = <<e>>
  OBVIOUS
<1>7. PICK t : t = [ip |-> 0, trace |-> u]
  OBVIOUS
<1>8. u \in Traces
  BY <1>3, <1>6 DEF Traces
<1>9. t \in Threads(Addresses) /\ t.ip = 0 /\ t.trace = u
  BY <1>1, <1>7, <1>8 DEF Threads
<1>10. t \in Good
  BY <1>5, <1>6, <1>9 DEF Good
<1>11. heads_n = <<t>> /\ heads_p = <<>> /\ ip_queue = <<>>
  BY <1>2, <1>6, <1>7 DEF Init
<1>12. input \in Seq(Bytes)
  BY DEF Init, BoundedSeq, SeqOf
<1>13. ret_trace = NoTrace /\ pc = "char" /\ stack = <<>>
  BY DEF Init
<1>14. QED
  BY <1>10, <1>11, <1>12, <1>13 DEF NInv

\* One step per action.
LEMMA NextNInv == IInv /\ NInv /\ [Next]_vars => NInv'
<1> SUFFICES ASSUME IInv, NInv, [Next]_vars PROVE NInv'
  OBVIOUS
<1>1. prog' = prog => Good' = Good /\ (HasShapes' <=> HasShapes)
  BY DEF Good, Addresses, Length, HasShapes
<1>2. \A ip \in Addresses :
        /\ Insn(ip).op # "RVM_ACCEPT" => ip + 1 \in Addresses
        /\ Insn(ip).op \in {"RVM_GOTO", "RVM_FORK"} => Insn(ip).arg \in Addresses
  BY Program DEF IInv
<1>3. CASE UNCHANGED vars
  <2>1. UNCHANGED <<prog, input, off, heads_p, heads_n, ip_queue, ret_trace, trace, stack, pc>>
    BY <1>3 DEF vars, machine
  <2>2. QED
    BY <1>1, <2>1 DEF NInv
<1>4. CASE MatchFail
  <2>1. UNCHANGED <<prog, input, off, heads_p, heads_n, ip_queue, ret_trace, stack>> /\ stack = <<>>
    BY <1>4 DEF MatchFail, machine, NInv
  <2>2. CASE ret_trace = NoTrace
    <3>1. pc' = "done"
      BY <1>4, <2>2 DEF MatchFail
    <3>2. QED
      BY <1>1, <2>1, <3>1 DEF NInv
  <2>3. CASE ret_trace # NoTrace
    <3>1. pc' = "trace" /\ trace' = Reverse(ret_trace)
      BY <1>4, <2>3 DEF MatchFail
    <3>2. Accepting(prog.insns, ret_trace)
      BY <2>3 DEF NInv
    <3>3. Replays(prog.insns, Reverse(ret_trace), <<>>)
      BY <3>2, Inverted DEF Accepting, Traces
    <3>4. Reverse(ret_trace) \in Traces
      <4> DEFINE T == [op : SvmOps, arg : Nat, input_pos : Nat]
      <4>1. PICK n \in Nat : n = Len(ret_trace) /\ ret_trace \in Seq(T)
        BY <3>2 DEF Accepting, Traces
      <4> HIDE DEF T
      <4>2. \A i \in 1..n : (n - i) + 1 \in 1..n
        BY <4>1
      <4>3. \A i \in 1..n : ret_trace[i] \in T
        BY <4>1
      <4>4. [i \in 1..n |-> ret_trace[(n - i) + 1]] \in [1..n -> T]
        BY <4>2, <4>3
      <4>5. Reverse(ret_trace) \in Seq(T)
        BY <4>1, <4>4 DEF Reverse
      <4>6. QED
        BY <4>5 DEF T, Traces
    <3>5. QED
      BY <1>1, <2>1, <3>1, <3>3, <3>4 DEF NInv
  <2>4. QED
    BY <2>2, <2>3
<1>5. CASE Replay /\ ~MatchFail
  <2>1. UNCHANGED <<prog, input, machine>>
    BY <1>5 DEF Replay, SVM_NOP, SVM_PUSH, SVM_CAPTURE, SVM_ACCEPT, Pushed, Stop,
      h_svm_action_make_sequence, h_svm_action_clear_to_mark, h_svm_action_action,
      h_svm_action_attr_bool, h_svm_action_ch, h_svm_action_bits, h_svm_action_pop, h_svm_action_optional,
      h_svm_action_validate_int_range, h_svm_action_ignoreseq
  <2>2. pc = "trace"
    BY <1>5 DEF Replay, SVM_NOP, SVM_PUSH, SVM_CAPTURE, SVM_ACCEPT, Action, Doing,
      h_svm_action_make_sequence, h_svm_action_clear_to_mark, h_svm_action_action,
      h_svm_action_attr_bool, h_svm_action_ch, h_svm_action_bits, h_svm_action_pop, h_svm_action_optional,
      h_svm_action_validate_int_range, h_svm_action_ignoreseq
  <2>3. trace \in Traces /\ Replays(prog.insns, trace, stack)
    BY <2>2 DEF NInv
  <2>4. pc' = "done" \/ (pc' = "trace" /\ trace' = Tail(trace) /\ Replays(prog.insns, trace', stack'))
    BY <1>5, <2>2, <2>3, ReplayStep DEF Traces
  <2>5. Tail(trace) \in Traces
    <3>1. trace # <<>>
      BY <2>3 DEF Replays, Traces
    <3>2. QED
      BY <2>3, <3>1, HeadTailProperties DEF Traces
  <2>6. UNCHANGED <<prog, input, off, heads_p, heads_n, ip_queue, ret_trace>>
    BY <2>1 DEF machine
  <2>7. QED
    BY <1>1, <2>4, <2>5, <2>6 DEF NInv
<1>6. CASE Finished
  BY <1>3, <1>6 DEF Finished
<1>7. CASE NextChar
  <2>1. /\ UNCHANGED <<prog, input, off, ret_trace, stack>> /\ pc = "char" /\ off <= Len(input)
        /\ heads_p' = heads_n /\ heads_n' = <<>> /\ ip_queue' = <<>> /\ pc' \in {"match_fail", "run"}
    BY <1>7 DEF NextChar
  <2>2. QED
    BY <1>1, <2>1 DEF NInv
<1>8. CASE NoMoreChars
  <2>1. /\ UNCHANGED <<prog, input, off, heads_p, heads_n, ip_queue, ret_trace, stack>>
        /\ pc = "char" /\ pc' = "match_fail"
    BY <1>8 DEF NoMoreChars, machine
  <2>2. QED
    BY <1>1, <2>1 DEF NInv
<1>9. CASE NextHead
  <2>1. Visited(visit) \in Good
    <3>1. (IF visit = 0 THEN 1 ELSE visit) \in 1..Len(heads_p)
      BY <1>9 DEF NextHead, HeadsOK, IInv
    <3>2. QED
      BY <3>1 DEF Visited, NInv
  <2>2. <<Visited(visit)>> \in Seq(Good)
    BY <2>1
  <2>3. /\ UNCHANGED <<prog, input, off, heads_p, heads_n, ret_trace, trace, stack, pc>>
        /\ ip_queue' = <<Visited(visit)>>
    BY <1>9 DEF NextHead
  <2>4. QED
    BY <1>1, <2>2, <2>3 DEF NInv
<1>10. CASE NoMoreHeads
  <2>1. /\ UNCHANGED <<prog, input, heads_p, heads_n, ip_queue, ret_trace, stack>>
        /\ pc = "run" /\ pc' = "char"
    BY <1>10 DEF NoMoreHeads
  <2>2. QED
    BY <1>1, <2>1 DEF NInv
<1>11. ASSUME ip_queue' \in Seq(Good), Frame, heads_n' \in Seq(Good),
              UNCHANGED ret_trace \/ Accepting(prog.insns, ret_trace')
       PROVE  NInv'
  <2>1. UNCHANGED <<prog, input, off, heads_p, trace, stack, pc>>
    BY <1>11 DEF Frame
  <2>2. QED
    BY <1>1, <1>11, <2>1 DEF NInv
<1>12. heads_n \in Seq(Good)
  BY DEF NInv
<1>13. CASE Kill
  BY <1>11, <1>12, <1>13, GoodHere DEF Kill
<1>14. CASE Instruction
  <2> DEFINE i == Insn(THREAD.ip)
             next == THREAD.ip + 1
  <2>1. pc = "run" /\ ip_queue # <<>>
    BY <1>14 DEF Instruction, RVM_ACCEPT, RVM_MATCH, RVM_GOTO, RVM_FORK, RVM_PUSH, RVM_ACTION,
      RVM_CAPTURE, RVM_EOF, RVM_STEP, At
  <2>2. /\ Others \in Seq(Good) /\ \A t \in Good : Append(Others, t) \in Seq(Good)
        /\ THREAD.ip \in Addresses /\ THREAD.ip \in Nat
    BY <2>1, GoodHere, AtInsn
  <2>3. CASE RVM_ACCEPT
    BY <1>11, <1>12, <2>1, <2>2, <2>3, GoodAccepting DEF RVM_ACCEPT, At
  <2>4. CASE RVM_MATCH
    <3>1. i.op = "RVM_MATCH" /\ next \in Addresses
      BY <1>2, <2>2, <2>4 DEF RVM_MATCH, At
    <3>2. i.lo \in Int /\ i.hi \in Int
      BY <2>2, <3>1, ShapedHere DEF NInv
    <3>3. ASSUME ~(Char < i.lo \/ Char > i.hi) PROVE Moved(next) \in Seq(Good)
      <4>1. PICK c \in Nat : c = Char
        BY <2>1, CharIsNat
      <4>2. i.lo <= i.hi
        BY <3>2, <3>3, <4>1
      <4>3. next \in Jumps(i, THREAD.ip)
        BY <3>1, <4>2 DEF Jumps
      <4>4. QED
        BY <2>1, <3>1, <4>3, GoodMoved
    <3>4. ip_queue' = IF Char < i.lo \/ Char > i.hi THEN Others ELSE Moved(next)
      BY <2>4 DEF RVM_MATCH
    <3>5. ip_queue' \in Seq(Good)
      BY <2>2, <3>3, <3>4
    <3>6. QED
      BY <1>11, <1>12, <2>4, <3>5 DEF RVM_MATCH
  <2>5. CASE RVM_GOTO
    <3>1. i.op = "RVM_GOTO" /\ i.arg \in Addresses
      BY <1>2, <2>2, <2>5 DEF RVM_GOTO, At
    <3>2. i.arg \in Jumps(i, THREAD.ip)
      BY <3>1 DEF Jumps
    <3>3. Moved(i.arg) \in Seq(Good)
      BY <2>1, <3>1, <3>2, GoodMoved
    <3>4. QED
      BY <1>11, <1>12, <2>5, <3>3 DEF RVM_GOTO
  <2>6. CASE RVM_FORK
    <3>1. i.op = "RVM_FORK" /\ i.arg \in Addresses /\ next \in Addresses
      BY <1>2, <2>2, <2>6 DEF RVM_FORK, At
    <3>2. i.arg \in Jumps(i, THREAD.ip) /\ next \in Jumps(i, THREAD.ip)
      BY <3>1 DEF Jumps
    <3>3. Moved(next) \in Seq(Good) /\ [THREAD EXCEPT !.ip = i.arg] \in Good
      BY <2>1, <3>1, <3>2, GoodMoved
    <3>4. Append(Moved(next), [THREAD EXCEPT !.ip = i.arg]) \in Seq(Good)
      BY <3>3
    <3>5. ip_queue' \in Seq(Good)
      BY <2>6, <3>3, <3>4 DEF RVM_FORK
    <3>6. QED
      BY <1>11, <1>12, <2>6, <3>5 DEF RVM_FORK
  <2>7. CASE RVM_PUSH
    <3>1. i.op = "RVM_PUSH" /\ next \in Addresses
      BY <1>2, <2>2, <2>7 DEF RVM_PUSH, At
    <3>2. Records(i, THREAD.ip, Svm("SVM_PUSH", 0)) /\ i.op \in Recorded
      BY <3>1 DEF Records, Svm, Recorded
    <3>3. Traced(Svm("SVM_PUSH", 0)) \in Seq(Good)
      BY <2>1, <3>1, <3>2, GoodTraced DEF SvmOps
    <3>4. QED
      BY <1>11, <1>12, <2>7, <3>3 DEF RVM_PUSH
  <2>8. CASE RVM_ACTION
    <3>1. i.op = "RVM_ACTION" /\ next \in Addresses
      BY <1>2, <2>2, <2>8 DEF RVM_ACTION, At
    <3>2. Records(i, THREAD.ip, Svm("SVM_ACTION", THREAD.ip)) /\ i.op \in Recorded
      BY <3>1 DEF Records, Svm, Recorded
    <3>3. Traced(Svm("SVM_ACTION", THREAD.ip)) \in Seq(Good)
      BY <2>1, <2>2, <3>1, <3>2, GoodTraced DEF SvmOps
    <3>4. QED
      BY <1>11, <1>12, <2>8, <3>3 DEF RVM_ACTION
  <2>9. CASE RVM_CAPTURE
    <3>1. i.op = "RVM_CAPTURE" /\ next \in Addresses
      BY <1>2, <2>2, <2>9 DEF RVM_CAPTURE, At
    <3>2. Records(i, THREAD.ip, Svm("SVM_CAPTURE", 0)) /\ i.op \in Recorded
      BY <3>1 DEF Records, Svm, Recorded
    <3>3. Traced(Svm("SVM_CAPTURE", 0)) \in Seq(Good)
      BY <2>1, <3>1, <3>2, GoodTraced DEF SvmOps
    <3>4. QED
      BY <1>11, <1>12, <2>9, <3>3 DEF RVM_CAPTURE
  <2>10. CASE RVM_EOF
    <3>1. i.op = "RVM_EOF" /\ next \in Addresses
      BY <1>2, <2>2, <2>10 DEF RVM_EOF, At
    <3>2. next \in Jumps(i, THREAD.ip)
      BY <3>1 DEF Jumps
    <3>3. Moved(next) \in Seq(Good)
      BY <2>1, <3>1, <3>2, GoodMoved
    <3>4. ip_queue' \in Seq(Good)
      BY <2>2, <2>10, <3>3 DEF RVM_EOF
    <3>5. QED
      BY <1>11, <1>12, <2>10, <3>4 DEF RVM_EOF
  <2>11. CASE RVM_STEP
    <3>1. i.op = "RVM_STEP" /\ next \in Addresses
      BY <1>2, <2>2, <2>11 DEF RVM_STEP, At
    <3>2. Set(heads_n, THREAD.ip + 1, THREAD.trace) \in Seq(Good)
      BY <2>1, <3>1, GoodStep
    <3>3. QED
      BY <1>11, <2>2, <2>11, <3>2 DEF RVM_STEP
  <2>12. QED
    BY <1>14, <2>3, <2>4, <2>5, <2>6, <2>7, <2>8, <2>9, <2>10, <2>11 DEF Instruction
<1>15. QED
  BY <1>3, <1>4, <1>5, <1>6, <1>7, <1>8, <1>9, <1>10, <1>13, <1>14 DEF Next, Loops

-----------------------------------------------------------------------------

LEMMA ProgStays == [Next]_vars => prog' = prog
BY DEF Next, Loops, Instruction, Replay, Finished, vars, Frame, Pushed, Stop,
  NextChar, NoMoreChars, NextHead, NoMoreHeads, Kill, RVM_ACCEPT, RVM_MATCH, RVM_GOTO, RVM_FORK,
  RVM_PUSH, RVM_ACTION, RVM_CAPTURE, RVM_EOF, RVM_STEP, MatchFail, SVM_NOP, SVM_PUSH, SVM_CAPTURE,
  SVM_ACCEPT, h_svm_action_make_sequence, h_svm_action_clear_to_mark, h_svm_action_action,
  h_svm_action_attr_bool, h_svm_action_ch, h_svm_action_bits, h_svm_action_pop, h_svm_action_optional,
  h_svm_action_validate_int_range, h_svm_action_ignoreseq

\* For every program, whatever emitted it: if there are shapes that its instructions keep to, no
\* assertion of run_trace or of an action fails, no action reads below the stack and none uses a
\* null token on it, for every input.  The trace of a thread leads to the shapes of its address,
\* and replaying it keeps the stack to them.
THEOREM RVMShapedNoAbort == Spec => [](HasShapes => NoAbort)
<1> DEFINE Inv == HasShapes => NInv
<1>1. Init => Inv
  BY InitNInv
<1>2. IInv /\ Inv /\ [Next]_vars => Inv'
  <2>1. prog' = prog => (HasShapes' <=> HasShapes)
    BY DEF HasShapes
  <2>2. QED
    BY <2>1, NextNInv, ProgStays
<1>3. Inv => (HasShapes => NoAbort)
  BY DEF NInv, NoAbort
<1> HIDE DEF Inv
<1>4. QED
  BY InitInv, NextInv, <1>1, <1>2, <1>3, PTL DEF Spec

\* The programs of disciplined parsers are such programs: there the machine finds every mark and
\* every token that it looks for.
THEOREM RVMMarksKept == Spec => []MarksKept
<1>1. IInv /\ (HasShapes => NoAbort) => MarksKept
  BY ShapesAssumption DEF IInv, HasShapes, MarksKept
<1>2. QED
  BY InitInv, NextInv, RVMShapedNoAbort, <1>1, PTL DEF Spec
=============================================================================
