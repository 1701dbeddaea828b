-------------------------------- MODULE Bits --------------------------------
(* The bit writer (bitwriter.c) and the bit reader (bitreader.c), with the   *)
(* parsers that read through it: h_bits, and h_with_endianness around any    *)
(* number of them.  What was written is then read.  One round of a loop is a *)
(* step.                                                                     *)
EXTENDS Integers, Sequences, FiniteSets

CONSTANTS
  Data,         \* values to write, of Width bits
  Sizes,        \* numbers of bits to write and to read
  Width,        \* bound on the numbers of bits
  MaxBytes,     \* bound on the bytes written
  MaxNest,      \* bound on h_with_endianness in h_with_endianness
  Capacity      \* of a new writer, 8 in the code

ASSUME SizesAssumption == Width \in Nat /\ Sizes \subseteq 1..Width
ASSUME BoundsAssumption == MaxBytes \in Nat /\ MaxNest \in Nat /\ Capacity \in Nat \ {0}

\* A byte order and a bit order; TRUE is big endian.
Orders == [byte : BOOLEAN, bit : BOOLEAN]

VARIABLES
  w,          \* the HBitWriter
  put,        \* what is left to write of the current value, or Nothing
  written,    \* the values written (history)
  in,         \* the HInputStream; input is the writer's buffer
  rd,         \* the locals of the running h_read_bits, or Nothing
  nest,       \* for each h_with_endianness that was entered: the order outside
  last,       \* the last read (history): see EndRead
  again,      \* how many values were read as they were written; -1 if not so (history)
  pc          \* "write" or "read"

wvars == <<w, put, written>>
rvars == <<in, rd, nest, last, again>>
vars == <<w, put, written, in, rd, nest, last, again, pc>>

Nothing == [count |-> -1]

Init ==
  /\ \E o \in Orders :
       /\ w = [buf |-> [i \in 0..Capacity - 1 |-> 0], capacity |-> Capacity, index |-> 0,
               bit_offset |-> 0, flags |-> o]
       /\ in = [index |-> 0, length |-> 0, bit_offset |-> 0, margin |-> 0, endianness |-> o,
                overrun |-> FALSE]
  /\ put = Nothing /\ written = <<>>
  /\ rd = Nothing /\ nest = <<>> /\ last = Nothing /\ again = 0
  /\ pc = "write"

\* The bits from bit k up of x, len of them.
Slice(x, k, len) == (x \div 2^k) % 2^len

-----------------------------------------------------------------------------
(* The writer. *)

\* A mutant: no byte for the bits that do not fill one.
_ReservedBytes(nbits) == IF nbits >= 8 THEN nbits \div 8 ELSE 1

\* The bytes h_bit_writer_reserve makes room for: the current one counts as full.
ReservedBytes(nbits) == (nbits + 7) \div 8 + (IF w.bit_offset # 0 THEN 1 ELSE 0)

h_bit_writer_put(data, nbits) ==
  /\ pc = "write" /\ put = Nothing
  /\ 8 * w.index + w.bit_offset + nbits <= 8 * MaxBytes
  /\ put' = [count |-> nbits, data |-> data, nbytes |-> ReservedBytes(nbits)]
  /\ written' = Append(written, [data |-> data, nbits |-> nbits])
  /\ UNCHANGED <<w, rvars, pc>>

\* One round of the loop of h_bit_writer_reserve: the buffer is doubled, and
\* what it gains is zero ...
h_bit_writer_reserve ==
  /\ put # Nothing /\ put.nbytes > 0 /\ w.index + put.nbytes >= w.capacity
  /\ w' = [buf |-> [i \in 0..2 * w.capacity - 1 |-> IF i < w.capacity THEN w.buf[i] ELSE 0],
           capacity |-> 2 * w.capacity, index |-> w.index, bit_offset |-> w.bit_offset,
           flags |-> w.flags]
  /\ UNCHANGED <<put, written, rvars, pc>>

\* ... until there is room.
Reserved ==
  /\ put # Nothing /\ put.nbytes > 0 /\ w.index + put.nbytes < w.capacity
  /\ put' = [count |-> put.count, data |-> put.data, nbytes |-> 0]
  /\ UNCHANGED <<w, written, rvars, pc>>

PutCount == IF 8 - w.bit_offset < put.count THEN 8 - w.bit_offset ELSE put.count

\* The bits that go into the current byte.
PutBits(n) ==
  IF w.flags.byte THEN Slice(put.data, put.count - n, n) ELSE Slice(put.data, 0, n)

PutByte(byte, bits, n) ==
  IF w.flags.bit THEN (byte * 2^n + bits) % 256 ELSE (byte + bits * 256) \div 2^n

\* One round of the loop of h_bit_writer_put.
PutSegment ==
  /\ put # Nothing /\ put.nbytes = 0 /\ put.count > 0
  /\ LET n == PutCount
         full == w.bit_offset + n = 8
     IN /\ w' = [buf |-> [w.buf EXCEPT ![w.index] = PutByte(@, PutBits(n), n)],
                 capacity |-> w.capacity,
                 index |-> IF full THEN w.index + 1 ELSE w.index,
                 bit_offset |-> IF full THEN 0 ELSE w.bit_offset + n,
                 flags |-> w.flags]
        /\ put' = [count |-> put.count - n,
                   data |-> IF w.flags.byte THEN put.data ELSE put.data \div 2^n,
                   nbytes |-> 0]
  /\ UNCHANGED <<written, rvars, pc>>

PutEnd == put.count = 0 /\ put' = Nothing /\ UNCHANGED <<w, written, rvars, pc>>

\* h_bit_writer_get_buffer, which asserts that the last byte is full; what was
\* written becomes the input.
h_bit_writer_get_buffer ==
  /\ pc = "write" /\ put = Nothing /\ w.bit_offset = 0
  /\ pc' = "read"
  /\ in' = [in EXCEPT !.length = w.index]
  /\ UNCHANGED <<wvars, rd, nest, last, again>>

-----------------------------------------------------------------------------
(* The reader. *)

Left == 8 * (in.length - in.index) - in.bit_offset - in.margin
Byte == w.buf[in.index]

\* The bits of the input that are gone, <<byte, bit>>: whole bytes, and both
\* ends of the current byte.
GoneOf(s) ==
  {z \in (0..s.length - 1) \X (0..7) :
     \/ z[1] < s.index
     \/ z[1] = s.index /\ s.endianness.bit /\ (z[2] >= 8 - s.bit_offset \/ z[2] < s.margin)
     \/ z[1] = s.index /\ ~s.endianness.bit /\ (z[2] < s.bit_offset \/ z[2] >= 8 - s.margin)}

\* h_read_bits begins: what is missing at the end of the input is not read.
h_read_bits(count, signed_p) ==
  LET short == Left < count
      n == IF short THEN Left ELSE count
  IN /\ pc = "read" /\ rd = Nothing /\ ~in.overrun
     /\ rd' = [count |-> n, out |-> 0, offset |-> 0,
               final_shift |-> IF short /\ in.endianness.byte THEN count - n ELSE 0,
               fast |-> in.bit_offset = 0 /\ n % 8 = 0 /\ in.margin = 0,
               nbits |-> count, signed_p |-> signed_p, gone |-> GoneOf(in)]
     /\ in' = IF short THEN [in EXCEPT !.overrun = TRUE] ELSE in
     /\ UNCHANGED <<wvars, nest, last, again, pc>>

\* out with the next segment, in the byte order of the stream.
Assembled(segment, len) ==
  IF in.endianness.byte
  THEN [rd EXCEPT !.out = @ * 2^len + segment, !.count = @ - len]
  ELSE [rd EXCEPT !.out = @ + segment * 2^rd.offset, !.offset = @ + len, !.count = @ - len]

FastByte ==
  /\ rd # Nothing /\ rd.count > 0 /\ rd.fast
  /\ rd' = Assembled(Byte, 8)
  /\ in' = [in EXCEPT !.index = @ + 1]
  /\ UNCHANGED <<wvars, nest, last, again, pc>>

\* A mutant: the margin is kept.
_NextByte(s) == [s EXCEPT !.index = @ + 1, !.bit_offset = 0]

NextByte(s) == [s EXCEPT !.index = @ + 1, !.bit_offset = 0, !.margin = 0]

\* The segment that ends the current byte.
RestOfByte ==
  /\ rd # Nothing /\ rd.count > 0 /\ ~rd.fast /\ rd.count + in.bit_offset + in.margin >= 8
  /\ LET len == 8 - in.bit_offset - in.margin
         from == IF in.endianness.bit THEN in.margin ELSE in.bit_offset
     IN rd' = Assembled(Slice(Byte, from, len), len)
  /\ in' = NextByte(in)
  /\ UNCHANGED <<wvars, nest, last, again, pc>>

\* A mutant: in big endian order, from the wrong end.
_PartStart == in.bit_offset

\* Where the segment is in the byte: one at the beginning of what is left of it.
PartStart == IF in.endianness.bit THEN 8 - in.bit_offset - rd.count ELSE in.bit_offset

PartOfByte ==
  /\ rd # Nothing /\ rd.count > 0 /\ ~rd.fast /\ rd.count + in.bit_offset + in.margin < 8
  /\ rd' = Assembled(Slice(Byte, PartStart, rd.count), rd.count)
  /\ in' = [in EXCEPT !.bit_offset = @ + rd.count]
  /\ UNCHANGED <<wvars, nest, last, again, pc>>

\* The sign extension by exclusive or.
SignExtended(x, nbits) == IF Slice(x, nbits - 1, 1) = 1 THEN x - 2^nbits ELSE x

\* h_read_bits returns to parse_bits.
EndRead ==
  /\ rd.count = 0
  /\ LET x == rd.out * 2^rd.final_shift
         value == IF rd.signed_p THEN SignExtended(x, rd.nbits) ELSE x
         next == again + 1
         same == /\ again >= 0 /\ next <= Len(written)
                 /\ rd.nbits = written[next].nbits /\ in.endianness = w.flags /\ ~rd.signed_p
     IN /\ last' = [count |-> rd.nbits, value |-> value, signed_p |-> rd.signed_p,
                    order |-> in.endianness, bits |-> GoneOf(in) \ rd.gone, lost |-> rd.gone \ GoneOf(in)]
        /\ again' = IF same THEN next ELSE -1
  /\ rd' = Nothing
  /\ UNCHANGED <<wvars, in, nest, pc>>

-----------------------------------------------------------------------------
(* h_with_endianness. *)

\* A mutant: the margin is not kept.
_switch_bit_order(s) == [s EXCEPT !.bit_offset = s.margin, !.margin = 0]

switch_bit_order(s) == [s EXCEPT !.bit_offset = s.margin, !.margin = s.bit_offset]

Turned(s, o) ==
  LET t == IF s.endianness.bit # o.bit THEN switch_bit_order(s) ELSE s
  IN [t EXCEPT !.endianness = o]

\* parse_endianness, before it calls its parser ...
Enter(o) ==
  /\ pc = "read" /\ rd = Nothing /\ ~in.overrun /\ Len(nest) < MaxNest
  /\ in' = Turned(in, o)
  /\ nest' = Append(nest, in.endianness)
  /\ UNCHANGED <<wvars, rd, last, again, pc>>

\* ... and after, whether it succeeded or not.
Leave ==
  /\ pc = "read" /\ rd = Nothing /\ nest # <<>>
  /\ in' = Turned(in, nest[Len(nest)])
  /\ nest' = SubSeq(nest, 1, Len(nest) - 1)
  /\ UNCHANGED <<wvars, rd, last, again, pc>>

-----------------------------------------------------------------------------
Next ==
  \/ \E n \in Sizes, d \in Data : h_bit_writer_put(d % 2^n, n)
  \/ h_bit_writer_reserve \/ Reserved \/ PutSegment \/ PutEnd \/ h_bit_writer_get_buffer
  \/ \E n \in Sizes, s \in BOOLEAN : h_read_bits(n, s)
  \/ FastByte \/ RestOfByte \/ PartOfByte \/ EndRead
  \/ \E o \in Orders : Enter(o)
  \/ Leave

Spec == Init /\ [][Next]_vars

-----------------------------------------------------------------------------
(* Properties. *)

WriterInBounds == w.index \in DOMAIN w.buf

ReaderInBounds ==
  /\ rd # Nothing /\ rd.count > 0 => in.index < in.length /\ rd.count <= Left
  /\ in.bit_offset + in.margin < 8

\* Neither loop leaves its buffer: w->buf[w->index] is valid, as a comment of
\* h_bit_writer_reserve promises, also when the last byte it made room for has
\* just been filled; and the segments that are read end with the input, wherever in a
\* byte the reader is and however often the bit order changed there.
InBounds == WriterInBounds /\ ReaderInBounds

\* h_read_bits gives back no bit that was taken before and takes as many new ones as
\* it was asked for; if the input ends first, it takes all that is left.
TakesFresh ==
  rd = Nothing /\ last # Nothing =>
    /\ last.lost = {}
    /\ Cardinality(last.bits) = last.count \/ in.overrun
    /\ in.overrun => GoneOf(in) = (0..in.length - 1) \X (0..7)

\* h_with_endianness neither skips bits nor lets them be read again, on its way
\* in and on its way out in the middle of a byte.
SwitchKeepsBits == [][nest' # nest => GoneOf(in') = GoneOf(in)]_vars
=============================================================================
