-------------------------------- MODULE RVM --------------------------------
(* The virtual machines of the regular expression backend.  h_rvm_run__m     *)
(* runs all threads of a program in lock step over the input, one byte at a  *)
(* time, and keeps for each the trace of what it did to the stack; run_trace *)
(* replays the trace of the last thread that accepted, and builds the result. *)
(*                                                                           *)
(* One instruction, and one entry of the trace, is one step.  The sparse     *)
(* arrays of threads are sequences in the order in which the instructions    *)
(* were set, see module SArray.                                              *)
EXTENDS Integers, SequencesExt

CONSTANTS
  Programs,   \* records of insns, a program, see module RVMProgram, and of disciplined:
              \* whether its parsers are nested so that each finds what it takes
  Bytes,      \* bytes of the input
  MaxInput    \* bound on the length of the input

Ops == {"RVM_ACCEPT", "RVM_GOTO", "RVM_FORK", "RVM_PUSH", "RVM_ACTION",
        "RVM_CAPTURE", "RVM_EOF", "RVM_MATCH", "RVM_STEP"}

\* Programs end with RVM_ACCEPT, and jumps stay inside.
ASSUME ProgramsAssumption ==
  \A n \in Programs :
    LET p == n.insns
    IN /\ Len(p) \in Nat \ {0} /\ p[Len(p)].op = "RVM_ACCEPT"
       /\ \A i \in 1..Len(p) :
            /\ p[i].op \in Ops
            /\ p[i].op \in {"RVM_GOTO", "RVM_FORK"} => p[i].arg \in 0..Len(p) - 1

VARIABLES
  prog, input,       \* constant
  off,               \* the offset in the input
  heads_p, heads_n,  \* the threads at this byte, and at the next one
  live_threads,
  visit,             \* threads of heads_p visited
  insn_seen,         \* of an instruction: 0 not seen, 1 processed, 2 queued
  ip_queue,          \* a stack of threads, the running one last
  ret_trace,         \* the trace that is returned, the last entry first
  trace,             \* what run_trace has still to do
  stack,             \* ctx.stack of run_trace
  pc,                \* "char" | "run" | "match_fail" | "trace" | "done" | "abort"
  result,            \* <<>> for NULL
  missed             \* some thread of heads_p was never visited (history)

machine == <<off, heads_p, heads_n, live_threads, visit, insn_seen, ip_queue, ret_trace, missed>>
vars == <<prog, input, machine, trace, stack, pc, result>>

NoTrace == <<>>
Svm(op, arg) == [op |-> op, arg |-> arg, input_pos |-> off]

Length == Len(prog.insns)
Addresses == 0..Length - 1
Insn(ip) == prog.insns[ip + 1]
Char == IF off = Len(input) THEN 0 ELSE input[off + 1]

Init ==
  /\ prog \in Programs /\ input \in BoundedSeq(Bytes, MaxInput)
  /\ off = 0 /\ live_threads = 1 /\ visit = 0
  /\ heads_p = <<>>
  /\ heads_n = <<[ip |-> 0, trace |-> <<[op |-> "SVM_NOP", arg |-> 0, input_pos |-> 0]>>]>>
  /\ insn_seen = [ip \in Addresses |-> 0] /\ ip_queue = <<>>
  /\ ret_trace = NoTrace /\ trace = NoTrace /\ stack = <<>>
  /\ pc = "char" /\ result = <<>> /\ missed = FALSE

-----------------------------------------------------------------------------
(* The loops of h_rvm_run__m. *)

\* h_sarray_set: the value of an instruction already set is replaced.
Set(heads, ip, tr) ==
  IF \E i \in DOMAIN heads : heads[i].ip = ip
    THEN [i \in DOMAIN heads |-> IF heads[i].ip = ip THEN [ip |-> ip, trace |-> tr] ELSE heads[i]]
    ELSE Append(heads, [ip |-> ip, trace |-> tr])

\* The thread of H_SARRAY_FOREACH_KV in round k, counted from 0: the variables
\* are set before intvar is advanced.
Visited(k) == heads_p[IF k = 0 THEN 1 ELSE k]

NextChar_KeepSeen ==                \* mutant: insn_seen is not cleared
  /\ pc = "char" /\ off <= Len(input)
  /\ heads_p' = heads_n /\ heads_n' = <<>>
  /\ insn_seen' = insn_seen
  /\ visit' = 0 /\ ip_queue' = <<>>
  /\ live_threads' = 0
  /\ pc' = IF live_threads = 0 THEN "match_fail" ELSE "run"
  /\ missed' = (missed \/ Len(heads_n) > 1)
  /\ UNCHANGED <<prog, input, off, ret_trace, trace, stack, result>>

NextChar ==
  /\ pc = "char" /\ off <= Len(input)
  /\ heads_p' = heads_n /\ heads_n' = <<>>
  /\ insn_seen' = [ip \in Addresses |-> 0]
  /\ visit' = 0 /\ ip_queue' = <<>>
  /\ live_threads' = 0
  /\ pc' = IF live_threads = 0 THEN "match_fail" ELSE "run"
  /\ missed' = (missed \/ Len(heads_n) > 1)
  /\ UNCHANGED <<prog, input, off, ret_trace, trace, stack, result>>

NoMoreChars ==
  /\ pc = "char" /\ off > Len(input)
  /\ pc' = "match_fail"
  /\ UNCHANGED <<prog, input, machine, trace, stack, result>>

NextHead_Stuck ==                   \* mutant: intvar is not advanced
  /\ pc = "run" /\ ip_queue = <<>> /\ visit < Len(heads_p)
  /\ visit' = visit
  /\ ip_queue' = <<Visited(visit)>>
  /\ UNCHANGED <<prog, input, off, heads_p, heads_n, live_threads, insn_seen, ret_trace, missed,
                 trace, stack, pc, result>>

NextHead ==
  /\ pc = "run" /\ ip_queue = <<>> /\ visit < Len(heads_p)
  /\ visit' = visit + 1
  /\ ip_queue' = <<Visited(visit)>>
  /\ UNCHANGED <<prog, input, off, heads_p, heads_n, live_threads, insn_seen, ret_trace, missed,
                 trace, stack, pc, result>>

NoMoreHeads ==
  /\ pc = "run" /\ ip_queue = <<>> /\ visit = Len(heads_p)
  /\ off' = off + 1 /\ pc' = "char"
  /\ UNCHANGED <<prog, input, heads_p, heads_n, live_threads, visit, insn_seen, ip_queue, ret_trace,
                 missed, trace, stack, result>>

-----------------------------------------------------------------------------
(* The instructions. *)

THREAD == ip_queue[Len(ip_queue)]
Others == Front(ip_queue)
At(op) == pc = "run" /\ ip_queue # <<>> /\ insn_seen[THREAD.ip] # 1 /\ Insn(THREAD.ip).op = op
Seen_Unmarked == insn_seen          \* mutant: the mark is forgotten

Seen == [insn_seen EXCEPT ![THREAD.ip] = 1]

\* The queue with the running thread at ip, and entry added to its trace.
Moved(ip) == Append(Others, [THREAD EXCEPT !.ip = ip])
Traced(entry) ==
  Append(Others, [ip |-> THREAD.ip + 1, trace |-> <<entry>> \o THREAD.trace])

Frame == UNCHANGED <<prog, input, off, heads_p, visit, missed, trace, stack, pc, result>>

Kill ==
  /\ pc = "run" /\ ip_queue # <<>> /\ insn_seen[THREAD.ip] = 1
  /\ ip_queue' = Others
  /\ UNCHANGED <<heads_n, live_threads, insn_seen, ret_trace>> /\ Frame

RVM_ACCEPT ==
  /\ At("RVM_ACCEPT")
  /\ insn_seen' = Seen
  /\ ret_trace' = <<Svm("SVM_ACCEPT", 0)>> \o THREAD.trace
  /\ ip_queue' = Others
  /\ UNCHANGED <<heads_n, live_threads>> /\ Frame

RVM_MATCH ==
  /\ At("RVM_MATCH")
  /\ insn_seen' = Seen
  /\ ip_queue' = LET i == Insn(THREAD.ip)
                 IN IF Char < i.lo \/ Char > i.hi THEN Others ELSE Moved(THREAD.ip + 1)
  /\ UNCHANGED <<heads_n, live_threads, ret_trace>> /\ Frame

RVM_GOTO ==
  /\ At("RVM_GOTO")
  /\ insn_seen' = Seen
  /\ ip_queue' = Moved(Insn(THREAD.ip).arg)
  /\ UNCHANGED <<heads_n, live_threads, ret_trace>> /\ Frame

RVM_FORK ==
  /\ At("RVM_FORK")
  /\ LET target == Insn(THREAD.ip).arg
     IN IF Seen[target] = 0
        THEN /\ insn_seen' = [Seen EXCEPT ![THREAD.ip + 1] = 2]
             /\ ip_queue' = Append(Moved(THREAD.ip + 1), [THREAD EXCEPT !.ip = target])
        ELSE /\ insn_seen' = Seen
             /\ ip_queue' = Moved(THREAD.ip + 1)
  /\ UNCHANGED <<heads_n, live_threads, ret_trace>> /\ Frame

RVM_PUSH ==
  /\ At("RVM_PUSH")
  /\ insn_seen' = Seen
  /\ ip_queue' = Traced(Svm("SVM_PUSH", 0))
  /\ UNCHANGED <<heads_n, live_threads, ret_trace>> /\ Frame

RVM_ACTION ==
  /\ At("RVM_ACTION")
  /\ insn_seen' = Seen
  /\ ip_queue' = Traced(Svm("SVM_ACTION", THREAD.ip))
  /\ UNCHANGED <<heads_n, live_threads, ret_trace>> /\ Frame

RVM_CAPTURE ==
  /\ At("RVM_CAPTURE")
  /\ insn_seen' = Seen
  /\ ip_queue' = Traced(Svm("SVM_CAPTURE", 0))
  /\ UNCHANGED <<heads_n, live_threads, ret_trace>> /\ Frame

RVM_EOF ==
  /\ At("RVM_EOF")
  /\ insn_seen' = Seen
  /\ ip_queue' = IF off # Len(input) THEN Others ELSE Moved(THREAD.ip + 1)
  /\ UNCHANGED <<heads_n, live_threads, ret_trace>> /\ Frame

RVM_STEP ==
  /\ At("RVM_STEP")
  /\ insn_seen' = Seen
  /\ live_threads' = live_threads + 1
  /\ heads_n' = Set(heads_n, THREAD.ip + 1, THREAD.trace)
  /\ ip_queue' = Others
  /\ UNCHANGED ret_trace /\ Frame

-----------------------------------------------------------------------------
(* run_trace. *)

NULL == <<"NULL">>
Mark(i) == <<"TT_MARK", i>>
IsMark(t) == t[1] = "TT_MARK"

MatchFail ==
  /\ pc = "match_fail"
  /\ IF ret_trace = NoTrace
       THEN pc' = "done" /\ UNCHANGED trace
       ELSE pc' = "trace" /\ trace' = Reverse(ret_trace)       \* invert_trace
  /\ UNCHANGED <<prog, input, machine, stack, result>>

Entry == trace[1]
Doing(op) == pc = "trace" /\ Entry.op = op
Pushed(s) == stack' = s /\ trace' = Tail(trace) /\ UNCHANGED <<prog, input, machine, pc, result>>
Stop(how) == pc' = how /\ UNCHANGED <<prog, input, machine, trace, stack, result>>

SVM_NOP == Doing("SVM_NOP") /\ Pushed(stack)

SVM_PUSH == Doing("SVM_PUSH") /\ Pushed(Append(stack, Mark(Entry.input_pos)))

SVM_CAPTURE_Above ==                \* mutant: the mark stays
  /\ Doing("SVM_CAPTURE")
  /\ IF stack # <<>> /\ IsMark(Last(stack))
       THEN Pushed(Append(stack, <<"TT_BYTES", SubSeq(input, Last(stack)[2] + 1, Entry.input_pos)>>))
       ELSE Stop("abort")

\* The mark on the top becomes the bytes from there.
SVM_CAPTURE ==
  /\ Doing("SVM_CAPTURE")
  /\ IF stack # <<>> /\ IsMark(Last(stack))
       THEN Pushed(Append(Front(stack),
                          <<"TT_BYTES", SubSeq(input, Last(stack)[2] + 1, Entry.input_pos)>>))
       ELSE Stop("abort")

SVM_ACCEPT ==
  /\ Doing("SVM_ACCEPT")
  /\ IF Len(stack) > 1 THEN Stop("abort")
     ELSE /\ result' = <<[ast |-> IF stack = <<>> THEN NULL ELSE stack[1],
                          bit_length |-> 8 * Entry.input_pos]>>
          /\ pc' = "done"
          /\ UNCHANGED <<prog, input, machine, trace, stack>>

-----------------------------------------------------------------------------
(* The actions.  A failed assertion, a read below the stack and a use of a    *)
(* null token on it end the program.                                         *)

\* An action is known by the instruction that asked for it.
Action(f) == Doing("SVM_ACTION") /\ Insn(Entry.arg).action = f
Env == Insn(Entry.arg).env

Top == Last(stack)
HasTop == stack # <<>> /\ Top # NULL
Second == stack[Len(stack) - 1]

\* The positions of the marks, and the items above the uppermost one, which
\* h_svm_count_to_mark counts.
Marks == {i \in DOMAIN stack : IsMark(stack[i])}
Items == SubSeq(stack, Max(Marks) + 1, Len(stack))
Below(i) == SubSeq(stack, 1, i - 1)
Sound == Marks # {} /\ \A i \in DOMAIN Items : Items[i] # NULL

h_svm_action_make_sequence ==
  /\ Action("h_svm_action_make_sequence")
  /\ IF Sound THEN Pushed(Append(Below(Max(Marks)), <<"TT_SEQUENCE", Items>>)) ELSE Stop("abort")

h_svm_action_clear_to_mark ==
  /\ Action("h_svm_action_clear_to_mark")
  /\ IF Sound THEN Pushed(Below(Max(Marks)))
     ELSE Stop(IF \E i \in DOMAIN stack : stack[i] = NULL THEN "abort" ELSE "done")

\* The token above a mark takes its place; a mark on the top stands for none.
Argument == IF IsMark(Top) THEN NULL ELSE Top
Asserted == HasTop /\ (IsMark(Top) \/ (Len(stack) > 1 /\ IsMark(Second)))
Replaced == Below(IF IsMark(Top) THEN Len(stack) ELSE Len(stack) - 1)

\* The user's action puts its tag on the token, or returns NULL: then the place
\* of the mark is given up as well.
h_svm_action_action ==
  /\ Action("h_svm_action_action")
  /\ IF ~Asserted THEN Stop("abort")
     ELSE Pushed(IF Argument \in Env.nulls THEN Replaced
                 ELSE Append(Replaced, <<Env.tag, Argument>>))

\* The user's predicate is a set of tokens.
h_svm_action_attr_bool ==
  /\ Action("h_svm_action_attr_bool")
  /\ IF ~Asserted THEN Stop("abort")
     ELSE IF Argument \notin Env.accept THEN Stop("done")
     ELSE Pushed(IF IsMark(Top) THEN Replaced ELSE Append(Replaced, Top))

h_svm_action_ch ==
  /\ Action("h_svm_action_ch")
  /\ IF HasTop /\ Top[1] = "TT_BYTES" THEN Pushed(Append(Front(stack), <<"TT_UINT", Top[2][1]>>))
     ELSE Stop("abort")

\* A number from the bytes, the first one highest; (res ^ msb) - msb extends
\* the sign.
h_svm_action_bits ==
  /\ Action("h_svm_action_bits")
  /\ IF HasTop /\ Top[1] = "TT_BYTES"
     THEN LET res == FoldLeft(LAMBDA n, c : 256 * n + c, 0, Top[2])
              msb == IF Env.signedp THEN 2 ^ (8 * Len(Top[2]) - 1) ELSE 0
              extended == (IF res >= msb THEN res - msb ELSE res + msb) - msb
          IN Pushed(Append(Front(stack),
                           IF Env.signedp THEN <<"TT_SINT", extended>> ELSE <<"TT_UINT", res>>))
     ELSE Stop("abort")

h_svm_action_pop ==
  /\ Action("h_svm_action_pop")
  /\ IF stack # <<>> THEN Pushed(Front(stack)) ELSE Stop("abort")

h_svm_action_optional ==
  /\ Action("h_svm_action_optional")
  /\ IF ~Asserted THEN Stop("abort")
     ELSE Pushed(Append(Replaced, IF IsMark(Top) THEN <<"TT_NONE">> ELSE Top))

h_svm_action_validate_int_range ==
  /\ Action("h_svm_action_validate_int_range")
  /\ IF ~HasTop THEN Stop("abort")
     ELSE IF Top[1] \in {"TT_UINT", "TT_SINT"} /\ Top[2] \in Env.range THEN Pushed(stack)
     ELSE Stop("done")

\* The mark with k - 1 marks above it.
MarkFromTop(k) == CHOOSE i \in Marks : Cardinality({j \in Marks : j >= i}) = k

\* One mark for each parser; the token above the mark of which, if any, is
\* kept.
h_svm_action_ignoreseq ==
  LET n == Len(Env.sub)
      bottom == MarkFromTop(n)
      top == IF Env.which = n THEN Len(stack) ELSE MarkFromTop(n - Env.which) - 1
  IN /\ Action("h_svm_action_ignoreseq")
     /\ IF Cardinality(Marks) < n \/ \E i \in bottom..Len(stack) : stack[i] = NULL THEN Stop("abort")
        ELSE Pushed(Append(Below(bottom), IF IsMark(stack[top]) THEN NULL ELSE stack[top]))

-----------------------------------------------------------------------------

Loops == NextChar \/ NoMoreChars \/ NextHead \/ NoMoreHeads \/ Kill
Instruction ==
  \/ RVM_ACCEPT \/ RVM_MATCH \/ RVM_GOTO \/ RVM_FORK \/ RVM_PUSH \/ RVM_ACTION
  \/ RVM_CAPTURE \/ RVM_EOF \/ RVM_STEP
Replay ==
  \/ MatchFail \/ SVM_NOP \/ SVM_PUSH \/ SVM_CAPTURE \/ SVM_ACCEPT
  \/ h_svm_action_make_sequence \/ h_svm_action_clear_to_mark \/ h_svm_action_action
  \/ h_svm_action_attr_bool \/ h_svm_action_ch \/ h_svm_action_bits \/ h_svm_action_pop
  \/ h_svm_action_optional \/ h_svm_action_validate_int_range \/ h_svm_action_ignoreseq
Finished == pc \in {"done", "abort"} /\ UNCHANGED vars
Next == Loops \/ Instruction \/ Replay \/ Finished
Spec == Init /\ [][Next]_vars /\ WF_vars(Loops \/ Instruction \/ Replay)

-----------------------------------------------------------------------------

\* ip_queue was allocated for as many threads as the program has instructions,
\* and RVM_FORK does not ask whether there is room: what bounds it is that no
\* instruction is queued twice for a byte.
QueueInBounds == Len(ip_queue) <= Length

\* No assertion of run_trace or of an action fails, no action reads below the
\* stack, and none uses a null token on it.  Not every parser that the backend
\* compiles is so: h_ignore pops the mark of the parser around it when what it
\* ignores leaves no token, and h_left and its kind leave a null token, which the
\* next action reads.
NoAbort == pc # "abort"

\* For the parsers that avoid those nestings the marks are where each action
\* looks for them, in every order in which the combinators push and remove them.
MarksKept == prog.disciplined => NoAbort

\* Every byte is done with: the threads of a byte cannot loop, in spite of the
\* loops of many and whitespace around parsers that read nothing.
Terminates == <>(pc \in {"done", "abort"})
=============================================================================
