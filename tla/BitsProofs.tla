----------------------------- MODULE BitsProofs -----------------------------
(* For every set of sizes, every value written and every nesting of bit and  *)
(* byte orders, the loops of h_bit_writer_put and of h_read_bits stay within *)
(* their buffers, a change of the bit order loses no bit, and a read takes   *)
(* as many bits as it was asked for that nobody took before.                 *)
EXTENDS Bits, FiniteSetTheorems, TLAPS

IsWriter ==
  w = [buf |-> w.buf, capacity |-> w.capacity, index |-> w.index, bit_offset |-> w.bit_offset,
       flags |-> w.flags]

\* The writer stands in its buffer, at a bit of the current byte.
Writer ==
  /\ IsWriter
  /\ w.capacity \in Nat /\ w.index \in Nat /\ w.bit_offset \in 0..7
  /\ DOMAIN w.buf = 0..w.capacity - 1
  /\ w.index < w.capacity

\* What is left to write fits in the bytes that are being made room for and,
\* once there is room, ends before the end of the buffer.
Putting ==
  \/ put = Nothing
  \/ /\ put = [count |-> put.count, data |-> put.data, nbytes |-> put.nbytes]
     /\ put.count \in Nat /\ put.nbytes \in Nat
     /\ put.nbytes > 0 => w.bit_offset + put.count <= 8 * put.nbytes
     /\ put.nbytes = 0 => 8 * w.index + w.bit_offset + put.count < 8 * w.capacity

Streams ==
  [index : Nat, length : Nat, bit_offset : Nat, margin : Nat, endianness : Orders,
   overrun : BOOLEAN]

\* There is always a bit left in the current byte, and the stream is never
\* behind its end.
Placed(s) ==
  /\ s.bit_offset + s.margin < 8
  /\ 8 * (s.length - s.index) - s.bit_offset - s.margin >= 0

\* The locals of h_read_bits.
IsRead(r) ==
  r = [count |-> r.count, out |-> r.out, offset |-> r.offset, final_shift |-> r.final_shift,
       fast |-> r.fast, nbits |-> r.nbits, signed_p |-> r.signed_p, gone |-> r.gone]

\* A running read: what it still has to read is there, and whole bytes are read
\* only from the beginning of a byte.
Reading(r, s) ==
  \/ r = Nothing
  \/ /\ IsRead(r)
     /\ r.count \in Nat
     /\ r.count <= 8 * (s.length - s.index) - s.bit_offset - s.margin
     /\ r.fast \in BOOLEAN
     /\ r.fast => s.bit_offset = 0 /\ s.margin = 0 /\ r.count % 8 = 0

IInv ==
  /\ Writer /\ Putting
  /\ in \in Streams /\ Placed(in)
  /\ Reading(rd, in)
  /\ nest \in Seq(Orders)
  /\ pc \in {"write", "read"}
  /\ pc = "write" => rd = Nothing /\ in.index = 0 /\ in.bit_offset = 0 /\ in.margin = 0

-----------------------------------------------------------------------------
LEMMA InitIInv == Init => IInv
  <1> SUFFICES ASSUME Init PROVE IInv
    OBVIOUS
  <1>1. PICK o \in Orders :
          /\ w = [buf |-> [i \in 0..Capacity - 1 |-> 0], capacity |-> Capacity, index |-> 0,
                  bit_offset |-> 0, flags |-> o]
          /\ in = [index |-> 0, length |-> 0, bit_offset |-> 0, margin |-> 0, endianness |-> o,
                   overrun |-> FALSE]
    BY DEF Init
  <1>2. Writer /\ Putting
    BY <1>1, BoundsAssumption DEF Init, Writer, IsWriter, Putting
  <1>3. in \in Streams /\ Placed(in)
    BY <1>1 DEF Streams, Placed
  <1>4. Reading(rd, in) /\ nest \in Seq(Orders)
    BY DEF Init, Reading
  <1>5. pc = "write" /\ rd = Nothing /\ in.index = 0 /\ in.bit_offset = 0 /\ in.margin = 0
    BY <1>1 DEF Init
  <1> QED BY <1>2, <1>3, <1>4, <1>5 DEF IInv

\* The numbers of PutSegment: it fills the current byte or ends the value.
LEMMA SegmentArithmetic ==
  ASSUME NEW capacity \in Nat, NEW index \in Nat, NEW offset \in 0..7, NEW count \in Nat, count > 0,
         NEW n \in Nat, n <= 8 - offset, n <= count, n = 8 - offset \/ n = count,
         8 * index + offset + count < 8 * capacity
  PROVE  /\ count - n \in Nat
         /\ offset + n = 8 => /\ index + 1 < capacity
                              /\ 8 * (index + 1) + 0 + (count - n) < 8 * capacity
         /\ offset + n # 8 => /\ offset + n \in 0..7
                              /\ 8 * index + (offset + n) + (count - n) < 8 * capacity
  OBVIOUS

\* The numbers of FastByte: a whole byte off what is wanted and off what is left.
LEMMA WholeByteArithmetic ==
  ASSUME NEW length \in Nat, NEW index \in Nat, NEW count \in Nat,
         NEW offset \in Nat, NEW margin \in Nat,
         count <= 8 * (length - index) - offset - margin
  PROVE  count - 8 <= 8 * (length - (index + 1)) - 0 - 0
  OBVIOUS

\* The numbers of PartOfByte: the bits wanted, before the margin of this byte.
LEMMA PartByteArithmetic ==
  ASSUME NEW length \in Nat, NEW index \in Nat, NEW count \in Nat,
         NEW offset \in Nat, NEW margin \in Nat, count + offset + margin < 8,
         count <= 8 * (length - index) - offset - margin
  PROVE  /\ (offset + count) + margin < 8
         /\ 0 <= 8 * (length - index) - (offset + count) - margin
  OBVIOUS

\* The numbers of h_bit_writer_reserve: bits that fit in nbytes bytes from the
\* current one on fit in the buffer.
LEMMA RoundedUp ==
  ASSUME NEW n \in Nat, n > 0, NEW offset \in 0..7
  PROVE  LET nbytes == (n + 7) \div 8 + (IF offset # 0 THEN 1 ELSE 0)
         IN nbytes \in Nat /\ nbytes > 0 /\ offset + n <= 8 * nbytes
  OBVIOUS

LEMMA RoomArithmetic ==
  ASSUME NEW capacity \in Nat, NEW index \in Nat, NEW offset \in 0..7, NEW count \in Nat,
         NEW nbytes \in Nat, index + nbytes < capacity, offset + count <= 8 * nbytes
  PROVE  8 * index + offset + count < 8 * capacity
  OBVIOUS

\* The steps of the writer leave the reader alone.
LEMMA WriterStep ==
  ASSUME Writer, Putting,
         \/ \E n \in Sizes, d \in Data : h_bit_writer_put(d % 2^n, n)
         \/ h_bit_writer_reserve \/ Reserved \/ PutSegment \/ PutEnd
  PROVE  Writer' /\ Putting' /\ UNCHANGED <<in, rd, nest, pc>>
  <1> USE DEF Writer
  <1>1. CASE \E n \in Sizes, d \in Data : h_bit_writer_put(d % 2^n, n)
    <2>1. PICK n \in Sizes, d \in Data : h_bit_writer_put(d % 2^n, n)
      BY <1>1
    <2>2. /\ put' = [count |-> n, data |-> d % 2^n, nbytes |-> ReservedBytes(n)]
          /\ UNCHANGED <<w, in, rd, nest, pc>>
      BY <2>1 DEF h_bit_writer_put, rvars
    <2>3. n \in Nat /\ n > 0
      BY SizesAssumption
    <2>4. /\ ReservedBytes(n) \in Nat /\ ReservedBytes(n) > 0
          /\ w.bit_offset + n <= 8 * ReservedBytes(n)
      BY <2>3, RoundedUp DEF ReservedBytes
    <2>5. put'.count = n /\ put'.nbytes = ReservedBytes(n) /\ w'.bit_offset = w.bit_offset
      BY <2>2
    <2>6. put' = [count |-> put'.count, data |-> put'.data, nbytes |-> put'.nbytes]
      BY <2>2
    <2>7. Putting'
      BY <2>3, <2>4, <2>5, <2>6 DEF Putting
    <2> QED BY <2>2, <2>7 DEF IsWriter
  <1>2. CASE h_bit_writer_reserve
    <2>1. PICK b : /\ b = [i \in 0..2 * w.capacity - 1 |-> IF i < w.capacity THEN w.buf[i] ELSE 0]
                   /\ w' = [buf |-> b, capacity |-> 2 * w.capacity, index |-> w.index,
                            bit_offset |-> w.bit_offset, flags |-> w.flags]
      BY <1>2 DEF h_bit_writer_reserve
    <2>2. put # Nothing /\ put.nbytes > 0 /\ UNCHANGED <<put, in, rd, nest, pc>>
      BY <1>2 DEF h_bit_writer_reserve, rvars
    <2>3. DOMAIN b = 0..2 * w.capacity - 1
      BY <2>1
    <2>4. Writer'
      BY <2>1, <2>3 DEF IsWriter
    <2>5. w'.bit_offset = w.bit_offset
      BY <2>1
    <2> QED BY <2>2, <2>4, <2>5 DEF Putting
  <1>3. CASE Reserved
    <2>1. /\ put # Nothing /\ put.nbytes > 0 /\ w.index + put.nbytes < w.capacity
          /\ put' = [count |-> put.count, data |-> put.data, nbytes |-> 0]
          /\ UNCHANGED <<w, in, rd, nest, pc>>
      BY <1>3 DEF Reserved, rvars
    <2>2. put.count \in Nat /\ put.nbytes \in Nat /\ w.bit_offset + put.count <= 8 * put.nbytes
      BY <2>1 DEF Putting
    <2>3. 8 * w.index + w.bit_offset + put.count < 8 * w.capacity
      BY <2>1, <2>2, RoomArithmetic
    <2>4. put'.count = put.count /\ put'.nbytes = 0
          /\ put' = [count |-> put'.count, data |-> put'.data, nbytes |-> put'.nbytes]
      BY <2>1
    <2>5. Putting'
      BY <2>1, <2>2, <2>3, <2>4 DEF Putting
    <2> QED BY <2>1, <2>5 DEF IsWriter
  <1>4. CASE PutSegment
    <2>1. PICK b, d :
            /\ b = [w.buf EXCEPT ![w.index] = PutByte(w.buf[w.index], PutBits(PutCount), PutCount)]
            /\ w' = [buf |-> b, capacity |-> w.capacity,
                     index |-> IF w.bit_offset + PutCount = 8 THEN w.index + 1 ELSE w.index,
                     bit_offset |-> IF w.bit_offset + PutCount = 8 THEN 0 ELSE w.bit_offset + PutCount,
                     flags |-> w.flags]
            /\ put' = [count |-> put.count - PutCount, data |-> d, nbytes |-> 0]
      BY <1>4 DEF PutSegment
    <2>2. put # Nothing /\ put.nbytes = 0 /\ put.count > 0 /\ UNCHANGED <<in, rd, nest, pc>>
      BY <1>4 DEF PutSegment, rvars
    <2>3. put.count \in Nat /\ 8 * w.index + w.bit_offset + put.count < 8 * w.capacity
      BY <2>2 DEF Putting
    <2>4. DOMAIN b = 0..w.capacity - 1
      BY <2>1
    <2> DEFINE n == PutCount
    <2>5. /\ n \in Nat /\ n <= 8 - w.bit_offset /\ n <= put.count
          /\ n = 8 - w.bit_offset \/ n = put.count
      <3>1. w.bit_offset \in 0..7 /\ put.count \in Nat
        BY <2>3
      <3>2. n = IF 8 - w.bit_offset < put.count THEN 8 - w.bit_offset ELSE put.count
        BY DEF PutCount
      <3> QED BY <3>1, <3>2
    <2> HIDE DEF n
    <2>6. /\ put.count - n \in Nat
          /\ w.bit_offset + n = 8 => /\ w.index + 1 < w.capacity
                                     /\ 8 * (w.index + 1) + 0 + (put.count - n) < 8 * w.capacity
          /\ w.bit_offset + n # 8 =>
               /\ w.bit_offset + n \in 0..7
               /\ 8 * w.index + (w.bit_offset + n) + (put.count - n) < 8 * w.capacity
      BY <2>2, <2>3, <2>5, SegmentArithmetic
    <2>7. /\ w'.buf = b /\ w'.capacity = w.capacity /\ IsWriter'
          /\ w'.index = IF w.bit_offset + n = 8 THEN w.index + 1 ELSE w.index
          /\ w'.bit_offset = IF w.bit_offset + n = 8 THEN 0 ELSE w.bit_offset + n
      BY <2>1 DEF n, IsWriter
    <2>8. /\ put'.count = put.count - n /\ put'.nbytes = 0
          /\ put' = [count |-> put'.count, data |-> put'.data, nbytes |-> put'.nbytes]
      BY <2>1 DEF n
    <2>9. Writer'
      BY <2>4, <2>6, <2>7
    <2>10. Putting'
      BY <2>6, <2>7, <2>8 DEF Putting
    <2> QED BY <2>2, <2>9, <2>10
  <1>5. CASE PutEnd
    BY <1>5 DEF PutEnd, IsWriter, Putting, rvars
  <1> QED BY <1>1, <1>2, <1>3, <1>4, <1>5

\* The other steps leave the writer alone.
LEMMA WriterSame ==
  ASSUME Writer, Putting, UNCHANGED <<w, put>>
  PROVE  Writer' /\ Putting'
  BY DEF Writer, IsWriter, Putting

\* The bits gone at the two ends of a byte change places with the bit order.
LEMMA TurnedPlaced ==
  ASSUME NEW s \in Streams, Placed(s), NEW o \in Orders
  PROVE  Turned(s, o) \in Streams /\ Placed(Turned(s, o))
  <1>1. CASE s.endianness.bit # o.bit
    <2> DEFINE t == switch_bit_order(s)
    <2>1. t \in Streams
      BY DEF switch_bit_order, Streams
    <2>2. /\ t.index = s.index /\ t.length = s.length
          /\ t.bit_offset = s.margin /\ t.margin = s.bit_offset
      BY DEF switch_bit_order, Streams
    <2> HIDE DEF t
    <2>3. Placed(t)
      BY <2>2 DEF Placed, Streams
    <2>4. Turned(s, o) = [t EXCEPT !.endianness = o]
      BY <1>1 DEF Turned, t
    <2> QED BY <2>1, <2>3, <2>4 DEF Streams, Placed, t
  <1>2. CASE ~(s.endianness.bit # o.bit)
    <2>1. Turned(s, o) = [s EXCEPT !.endianness = o]
      BY <1>2 DEF Turned
    <2> QED BY <2>1 DEF Streams, Placed
  <1> QED BY <1>1, <1>2

\* One round of a loop of h_read_bits takes len bits off what is to be read.
LEMMA AssembledReads ==
  ASSUME NEW segment, NEW len, IsRead(rd)
  PROVE  /\ IsRead(Assembled(segment, len))
         /\ Assembled(segment, len).count = rd.count - len
         /\ Assembled(segment, len).fast = rd.fast
  BY DEF Assembled, IsRead

\* A stream at its next byte.
LEMMA NextByteFields ==
  ASSUME NEW s \in Streams
  PROVE  /\ NextByte(s) \in Streams /\ NextByte(s).length = s.length
         /\ NextByte(s).endianness = s.endianness /\ NextByte(s).overrun = s.overrun
         /\ NextByte(s).index = s.index + 1
         /\ NextByte(s).bit_offset = 0 /\ NextByte(s).margin = 0
  <1> DEFINE t == [s EXCEPT !.index = s.index + 1]
             u == [t EXCEPT !.bit_offset = 0]
  <1>1. /\ t \in Streams /\ t.length = s.length /\ t.index = s.index + 1
        /\ t.endianness = s.endianness /\ t.overrun = s.overrun
    BY DEF Streams
  <1>2. NextByte(s) = [u EXCEPT !.margin = 0]
    BY DEF NextByte, Streams
  <1> HIDE DEF t
  <1>3. /\ u \in Streams /\ u.length = s.length /\ u.index = s.index + 1 /\ u.bit_offset = 0
        /\ u.endianness = s.endianness /\ u.overrun = s.overrun
    BY <1>1 DEF Streams
  <1> HIDE DEF u
  <1> QED BY <1>2, <1>3 DEF Streams

\* What Reading says, from the fields of a read that goes on.
LEMMA ReadingFields ==
  ASSUME NEW r, NEW s, NEW k \in Nat, NEW o, NEW m, IsRead(r), r.count = k, r.fast \in BOOLEAN,
         s.bit_offset = o, s.margin = m,
         k <= 8 * (s.length - s.index) - o - m,
         r.fast => o = 0 /\ m = 0 /\ k % 8 = 0
  PROVE  Reading(r, s)
  BY DEF Reading

\* The bits left after the rest of a byte was read.
LEMMA BitsLeft ==
  ASSUME NEW length \in Nat, NEW index \in Nat, NEW offset \in Nat, NEW margin \in Nat,
         NEW count \in Nat, offset + margin < 8, count + offset + margin >= 8,
         count <= 8 * (length - index) - offset - margin
  PROVE  /\ count - (8 - offset - margin) \in Nat
         /\ count - (8 - offset - margin) <= 8 * (length - (index + 1)) - 0 - 0
         /\ 8 * (length - (index + 1)) - 0 - 0 >= 0
  OBVIOUS

-----------------------------------------------------------------------------
LEMMA NextIInv == IInv /\ [Next]_vars => IInv'
  <1> SUFFICES ASSUME IInv, [Next]_vars PROVE IInv'
    OBVIOUS
  <1> USE DEF IInv
  <1>1. CASE \/ \E n \in Sizes, d \in Data : h_bit_writer_put(d % 2^n, n)
             \/ h_bit_writer_reserve \/ Reserved \/ PutSegment \/ PutEnd
    BY <1>1, WriterStep DEF Reading, Placed, Streams
  <1>2. CASE h_bit_writer_get_buffer
    <2>1. Writer' /\ Putting' /\ nest' = nest /\ rd' = rd /\ pc' = "read" /\ rd = Nothing
      BY <1>2, WriterSame DEF h_bit_writer_get_buffer, wvars
    <2>2. in' = [in EXCEPT !.length = w.index] /\ w.index \in Nat
      BY <1>2 DEF h_bit_writer_get_buffer, Writer
    <2>3. /\ in' \in Streams
          /\ in'.length = w.index /\ in'.index = 0 /\ in'.bit_offset = 0 /\ in'.margin = 0
      BY <1>2, <2>2 DEF h_bit_writer_get_buffer, Streams
    <2>4. Placed(in')
      BY <2>2, <2>3 DEF Placed
    <2> QED BY <2>1, <2>3, <2>4 DEF Reading
  <1>3. ASSUME NEW n \in Sizes, NEW s \in BOOLEAN, h_read_bits(n, s)
        PROVE  IInv'
    <2> DEFINE k == IF Left < n THEN Left ELSE n
    <2>1. n \in Nat /\ Left \in Nat /\ k \in Nat /\ k <= Left
      BY SizesAssumption DEF Left, Streams, Placed
    <2> HIDE DEF k
    <2>2. /\ rd' = [count |-> k, out |-> 0, offset |-> 0,
                    final_shift |-> IF Left < n /\ in.endianness.byte THEN n - k ELSE 0,
                    fast |-> in.bit_offset = 0 /\ k % 8 = 0 /\ in.margin = 0,
                    nbits |-> n, signed_p |-> s, gone |-> GoneOf(in)]
          /\ in' = IF Left < n THEN [in EXCEPT !.overrun = TRUE] ELSE in
          /\ UNCHANGED <<w, put, nest, pc>> /\ pc = "read"
      BY <1>3 DEF h_read_bits, wvars, k
    <2>3. /\ in' \in Streams
          /\ in'.length = in.length /\ in'.index = in.index
          /\ in'.bit_offset = in.bit_offset /\ in'.margin = in.margin
      BY <2>2 DEF Streams
    <2>4. IsRead(rd') /\ rd'.count = k /\ rd'.fast \in BOOLEAN
          /\ (rd'.fast => in.bit_offset = 0 /\ k % 8 = 0 /\ in.margin = 0)
      BY <2>2 DEF IsRead
    <2>5. Placed(in') /\ Reading(rd', in')
      BY <2>1, <2>3, <2>4 DEF Placed, Reading, Left
    <2>6. Writer' /\ Putting'
      BY <2>2, WriterSame
    <2> QED BY <2>2, <2>3, <2>5, <2>6
  <1>4. ASSUME rd # Nothing, rd.count > 0,
               FastByte \/ RestOfByte \/ PartOfByte
        PROVE  IInv'
    <2>1. IsRead(rd) /\ rd.count \in Nat /\ rd.fast \in BOOLEAN /\ pc = "read"
      BY <1>4 DEF Reading
    <2>2. UNCHANGED <<w, put, nest, pc>>
      BY <1>4 DEF FastByte, RestOfByte, PartOfByte, wvars
    <2>3. Writer' /\ Putting' /\ nest' \in Seq(Orders) /\ pc' = "read"
      BY <2>1, <2>2, WriterSame
    <2>4. CASE FastByte
      <3>1. rd' = Assembled(Byte, 8) /\ in' = [in EXCEPT !.index = @ + 1] /\ rd.fast
        BY <2>4 DEF FastByte
      <3>2. IsRead(rd') /\ rd'.count = rd.count - 8 /\ rd'.fast = rd.fast
        BY <2>1, <3>1, AssembledReads
      <3>3. /\ in' \in Streams
            /\ in'.length = in.length /\ in'.index = in.index + 1
            /\ in'.bit_offset = in.bit_offset /\ in'.margin = in.margin
        BY <3>1 DEF Streams
      <3>4. in.bit_offset = 0 /\ in.margin = 0 /\ rd.count % 8 = 0
            /\ rd.count <= 8 * (in.length - in.index) - in.bit_offset - in.margin
        BY <1>4, <3>1 DEF Reading
      <3>5. rd.count - 8 \in Nat /\ (rd.count - 8) % 8 = 0
        BY <1>4, <2>1, <3>4
      <3>6. in.length \in Nat /\ in.index \in Nat
        BY DEF Streams
      <3>7. rd.count - 8 <= 8 * (in.length - (in.index + 1)) - 0 - 0
        <4>1. in.bit_offset \in Nat /\ in.margin \in Nat /\ rd.count \in Nat
          BY <2>1, <3>4
        <4>2. rd.count <= 8 * (in.length - in.index) - in.bit_offset - in.margin
          BY <3>4
        <4> QED BY <3>6, <4>1, <4>2, WholeByteArithmetic
      <3>8. Reading(rd', in')
        BY <2>1, <3>2, <3>3, <3>4, <3>5, <3>7, ReadingFields
      <3>9. Placed(in')
        BY <3>3, <3>4, <3>5, <3>6, <3>7 DEF Placed
      <3> QED BY <2>3, <3>3, <3>8, <3>9
    <2>5. CASE RestOfByte
      <3> DEFINE len == 8 - in.bit_offset - in.margin
      <3>1. PICK segment : rd' = Assembled(segment, len)
        BY <2>5 DEF RestOfByte
      <3>2. /\ in' = NextByte(in)
            /\ ~rd.fast /\ rd.count + in.bit_offset + in.margin >= 8
        BY <2>5 DEF RestOfByte
      <3>3. IsRead(rd') /\ rd'.count = rd.count - len /\ rd'.fast = rd.fast
        BY <2>1, <3>1, AssembledReads
      <3>4. /\ in' \in Streams
            /\ in'.length = in.length /\ in'.index = in.index + 1
            /\ in'.bit_offset = 0 /\ in'.margin = 0
        BY <3>2, NextByteFields
      <3>5. /\ in.length \in Nat /\ in.index \in Nat /\ in.bit_offset \in Nat /\ in.margin \in Nat
            /\ in.bit_offset + in.margin < 8
            /\ rd.count <= 8 * (in.length - in.index) - in.bit_offset - in.margin
        BY <1>4 DEF Streams, Reading, Placed
      <3>6. /\ rd.count - len \in Nat
            /\ rd.count - len <= 8 * (in.length - (in.index + 1)) - 0 - 0
            /\ 8 * (in.length - (in.index + 1)) - 0 - 0 >= 0
        BY <2>1, <3>2, <3>5, BitsLeft
      <3> HIDE DEF len
      <3>7. Reading(rd', in')
        BY <2>1, <3>2, <3>3, <3>4, <3>6, ReadingFields
      <3>8. Placed(in')
        BY <3>4, <3>6 DEF Placed
      <3> QED BY <2>3, <3>4, <3>7, <3>8
    <2>6. CASE PartOfByte
      <3>1. PICK segment : rd' = Assembled(segment, rd.count)
        BY <2>6 DEF PartOfByte
      <3>2. /\ in' = [in EXCEPT !.bit_offset = @ + rd.count]
            /\ ~rd.fast /\ rd.count + in.bit_offset + in.margin < 8
        BY <2>6 DEF PartOfByte
      <3>3. IsRead(rd') /\ rd'.count = rd.count - rd.count /\ rd'.fast = rd.fast
        BY <2>1, <3>1, AssembledReads
      <3>4. /\ in' \in Streams
            /\ in'.length = in.length /\ in'.index = in.index
            /\ in'.bit_offset = in.bit_offset + rd.count /\ in'.margin = in.margin
        BY <2>1, <3>2 DEF Streams
      <3>5. /\ in.length \in Nat /\ in.index \in Nat /\ in.bit_offset \in Nat /\ in.margin \in Nat
            /\ in.bit_offset + in.margin < 8
            /\ rd.count <= 8 * (in.length - in.index) - in.bit_offset - in.margin
        BY <1>4 DEF Streams, Reading, Placed
      <3>6. /\ (in.bit_offset + rd.count) + in.margin < 8
            /\ 0 <= 8 * (in.length - in.index) - (in.bit_offset + rd.count) - in.margin
        <4>1. rd.count \in Nat /\ rd.count + in.bit_offset + in.margin < 8
          BY <2>1, <3>2
        <4> QED BY <3>5, <4>1, PartByteArithmetic
      <3>7. rd'.count = 0 /\ 0 \in Nat /\ ~rd'.fast
        BY <2>1, <3>2, <3>3
      <3>8. Reading(rd', in')
        BY <2>1, <3>2, <3>3, <3>4, <3>6, <3>7, ReadingFields
      <3>9. Placed(in')
        BY <3>4, <3>6 DEF Placed
      <3> QED BY <2>3, <3>4, <3>8, <3>9
    <2> QED BY <1>4, <2>4, <2>5, <2>6
  <1>5. CASE FastByte \/ RestOfByte \/ PartOfByte
    BY <1>4, <1>5 DEF FastByte, RestOfByte, PartOfByte
  <1>6. CASE EndRead
    <2>1. rd.count = 0 /\ rd' = Nothing /\ UNCHANGED <<w, put, in, nest, pc>>
      BY <1>6 DEF EndRead, wvars
    <2>2. Writer' /\ Putting'
      BY <2>1, WriterSame
    <2> QED BY <2>1, <2>2 DEF Reading
  <1>7. ASSUME NEW o \in Orders, Enter(o)
        PROVE  IInv'
    <2>1. in' = Turned(in, o) /\ rd = Nothing /\ UNCHANGED <<w, put, rd, pc>> /\ pc = "read"
          /\ nest' = Append(nest, in.endianness)
      BY <1>7 DEF Enter, wvars
    <2>2. Writer' /\ Putting' /\ Reading(rd', in')
      BY <2>1, WriterSame DEF Reading
    <2>3. nest' \in Seq(Orders)
      BY <2>1 DEF Streams
    <2> QED BY <2>1, <2>2, <2>3, TurnedPlaced
  <1>8. CASE Leave
    <2>1. /\ in' = Turned(in, nest[Len(nest)]) /\ rd = Nothing /\ UNCHANGED <<w, put, rd, pc>>
          /\ pc = "read" /\ nest # <<>> /\ nest' = SubSeq(nest, 1, Len(nest) - 1)
      BY <1>8 DEF Leave, wvars
    <2>2. Writer' /\ Putting' /\ Reading(rd', in')
      BY <2>1, WriterSame DEF Reading
    <2>3. nest[Len(nest)] \in Orders /\ nest' \in Seq(Orders)
      BY <2>1
    <2> QED BY <2>1, <2>2, <2>3, TurnedPlaced
  <1>9. CASE UNCHANGED vars
    BY <1>9, WriterSame DEF vars
  <1> QED BY <1>1, <1>2, <1>3, <1>5, <1>6, <1>7, <1>8, <1>9 DEF Next

\* For every input, every sequence of sizes and every nesting of
\* h_with_endianness: h_bit_writer_put writes only into its buffer, with a byte
\* to spare after the last, and h_read_bits reads only bits of the input; there
\* is a bit left in the current byte whenever a round of its loops begins.
THEOREM BitsInBounds == Spec => []InBounds
  <1>1. IInv => InBounds
    <2> SUFFICES ASSUME IInv PROVE InBounds
      OBVIOUS
    <2>1. in.length \in Nat /\ in.index \in Nat /\ in.bit_offset \in Nat /\ in.margin \in Nat
      BY DEF IInv, Streams
    <2>2. ReaderInBounds
      BY <2>1 DEF IInv, Placed, Reading, ReaderInBounds, Left
    <2>3. WriterInBounds
      BY DEF IInv, Writer, WriterInBounds
    <2> QED BY <2>2, <2>3 DEF InBounds
  <1> QED BY <1>1, InitIInv, NextIInv, PTL DEF Spec

\* The bits gone at both ends of the current byte stay the same bits when the
\* ends change places with the bit order.
LEMMA TurnedKeepsBits ==
  ASSUME NEW s \in Streams, Placed(s), NEW o \in Orders
  PROVE  GoneOf(Turned(s, o)) = GoneOf(s)
  <1> DEFINE u == Turned(s, o)
             t == switch_bit_order(s)
  <1>1. /\ u.index = s.index /\ u.length = s.length /\ u.endianness = o
        /\ s.endianness.bit # o.bit => u.bit_offset = s.margin /\ u.margin = s.bit_offset
        /\ s.endianness.bit = o.bit => u.bit_offset = s.bit_offset /\ u.margin = s.margin
    <2>1. CASE s.endianness.bit # o.bit
      <3>1. /\ t \in Streams /\ t.index = s.index /\ t.length = s.length
            /\ t.bit_offset = s.margin /\ t.margin = s.bit_offset
        BY DEF switch_bit_order, Streams
      <3>2. u = [t EXCEPT !.endianness = o]
        BY <2>1 DEF Turned
      <3> HIDE DEF t, u
      <3> QED BY <2>1, <3>1, <3>2 DEF Streams
    <2>2. CASE ~(s.endianness.bit # o.bit)
      <3>1. u = [s EXCEPT !.endianness = o]
        BY <2>2 DEF Turned
      <3> HIDE DEF u
      <3> QED BY <2>2, <3>1 DEF Streams
    <2> QED BY <2>1, <2>2
  <1> HIDE DEF u, t
  <1>2. s.endianness.bit \in BOOLEAN /\ o.bit \in BOOLEAN
    BY DEF Streams, Orders
  <1>3. ASSUME NEW z \in (0..s.length - 1) \X (0..7)
        PROVE  z \in GoneOf(u) <=> z \in GoneOf(s)
    <2>1. /\ z[1] \in Int /\ z[2] \in 0..7 /\ s.index \in Nat /\ s.bit_offset \in Nat
          /\ s.margin \in Nat /\ s.length \in Nat
      BY DEF Streams
    <2>2. CASE o.bit /\ s.endianness.bit
      BY <1>1, <1>3, <2>2 DEF GoneOf
    <2>3. CASE ~o.bit /\ ~s.endianness.bit
      <3>1. o.bit = s.endianness.bit
        BY <1>2, <2>3
      <3> QED BY <1>1, <1>3, <2>3, <3>1 DEF GoneOf
    <2>4. CASE o.bit /\ ~s.endianness.bit
      <3>1. o.bit # s.endianness.bit
        BY <2>4
      <3> QED BY <1>1, <1>3, <2>1, <2>4, <3>1 DEF GoneOf
    <2>5. CASE ~o.bit /\ s.endianness.bit
      <3>1. o.bit # s.endianness.bit
        BY <2>5
      <3> QED BY <1>1, <1>3, <2>1, <2>5, <3>1 DEF GoneOf
    <2> QED BY <2>2, <2>3, <2>4, <2>5
  <1>4. GoneOf(u) = GoneOf(s)
    BY <1>1, <1>3 DEF GoneOf
  <1> QED BY <1>4 DEF u

\* h_with_endianness in the middle of a byte neither skips bits nor lets them
\* be read again, for every way to nest it.
THEOREM BitsSwitchKeepsBits == Spec => SwitchKeepsBits
  <1>1. ASSUME IInv, [Next]_vars, nest' # nest
        PROVE  GoneOf(in') = GoneOf(in)
    <2>1. CASE \E o \in Orders : Enter(o)
      <3>1. PICK o \in Orders : in' = Turned(in, o)
        BY <2>1 DEF Enter
      <3> QED BY <1>1, <3>1, TurnedKeepsBits DEF IInv
    <2>2. CASE Leave
      <3>1. in' = Turned(in, nest[Len(nest)]) /\ nest # <<>> /\ nest \in Seq(Orders)
        BY <1>1, <2>2 DEF Leave, IInv
      <3>2. nest[Len(nest)] \in Orders
        BY <3>1
      <3> QED BY <1>1, <3>1, <3>2, TurnedKeepsBits DEF IInv
    <2>3. UNCHANGED nest \/ (\E o \in Orders : Enter(o)) \/ Leave
      BY <1>1 DEF Next, vars, rvars, h_bit_writer_put, h_bit_writer_reserve, Reserved, PutSegment,
         PutEnd, h_bit_writer_get_buffer, h_read_bits, FastByte, RestOfByte, PartOfByte, EndRead
    <2> QED BY <1>1, <2>1, <2>2, <2>3
  <1>2. IInv /\ [Next]_vars => (nest' # nest => GoneOf(in') = GoneOf(in))
    BY <1>1
  <1> QED BY <1>2, InitIInv, NextIInv, PTL DEF Spec, SwitchKeepsBits

-----------------------------------------------------------------------------
(* The bits that a read takes. *)

LEMMA GoneFinite ==
  ASSUME NEW s \in Streams
  PROVE  IsFiniteSet(GoneOf(s))
  <1> DEFINE X == 0..s.length - 1
             Y == 0..7
  <1>1. s.length \in Nat
    BY DEF Streams
  <1>2. IsFiniteSet(X) /\ IsFiniteSet(Y)
    <2>1. 0 \in Int /\ 7 \in Int /\ s.length - 1 \in Int
      BY <1>1
    <2> QED BY <2>1, FS_Interval
  <1> HIDE DEF X, Y
  <1>3. IsFiniteSet(X \X Y)
    BY <1>2, FS_Product
  <1>4. GoneOf(s) \subseteq X \X Y
    BY DEF GoneOf, X, Y
  <1> QED BY <1>3, <1>4, FS_Subset

\* More bits are gone, and all of them since the read began.
LEMMA CountMore ==
  ASSUME NEW G, IsFiniteSet(G), NEW N, IsFiniteSet(N), G \cap N = {}, NEW H, H \subseteq G
  PROVE  H \subseteq G \cup N /\ Cardinality((G \cup N) \ H) = Cardinality(G \ H) + Cardinality(N)
  <1>1. (G \cup N) \ H = (G \ H) \cup N
    OBVIOUS
  <1>2. (G \ H) \cap N = {} /\ IsFiniteSet(G \ H)
    BY FS_Subset
  <1>3. Cardinality((G \ H) \cup N) = Cardinality(G \ H) + Cardinality(N) - Cardinality({})
    BY <1>2, FS_Union
  <1>4. Cardinality(G \ H) \in Nat /\ Cardinality(N) \in Nat /\ Cardinality({}) = 0
    BY <1>2, FS_CardinalityType, FS_EmptySet
  <1>5. Cardinality(G \ H) + Cardinality(N) - Cardinality({}) = Cardinality(G \ H) + Cardinality(N)
    BY <1>4
  <1>6. H \subseteq G \cup N
    OBVIOUS
  <1> QED BY <1>1, <1>3, <1>5, <1>6, Zenon

\* Which bits are gone.
LEMMA GoneAt ==
  ASSUME NEW s \in Streams, NEW x \in 0..s.length - 1, NEW y \in 0..7
  PROVE  <<x, y>> \in GoneOf(s)
           <=> \/ x < s.index
               \/ x = s.index /\ s.endianness.bit /\ (y >= 8 - s.bit_offset \/ y < s.margin)
               \/ x = s.index /\ ~s.endianness.bit /\ (y < s.bit_offset \/ y >= 8 - s.margin)
  BY DEF GoneOf

LEMMA GoneIn ==
  ASSUME NEW s, NEW z \in GoneOf(s)
  PROVE  \E x \in 0..s.length - 1, y \in 0..7 : z = <<x, y>>
  BY DEF GoneOf

\* Where the next n bits are in the current byte.
From(s, n) == IF s.endianness.bit THEN 8 - s.bit_offset - n ELSE s.bit_offset
Segment(s, n) == {s.index} \X (From(s, n)..From(s, n) + n - 1)

LEMMA SegmentSize ==
  ASSUME NEW s \in Streams, NEW n \in Nat
  PROVE  IsFiniteSet(Segment(s, n)) /\ Cardinality(Segment(s, n)) = n
  <1> DEFINE X == {s.index}
             Y == From(s, n)..From(s, n) + n - 1
  <1>1. IsFiniteSet(X) /\ Cardinality(X) = 1
    BY FS_Singleton
  <1>2. From(s, n) \in Int
    BY DEF From, Streams
  <1>3. IsFiniteSet(Y) /\ Cardinality(Y) = n
    <2>1. PICK k \in Int : k = From(s, n)
      BY <1>2
    <2>2. k + n - 1 \in Int
      OBVIOUS
    <2>3. /\ IsFiniteSet(k..k + n - 1)
          /\ Cardinality(k..k + n - 1) = IF k > k + n - 1 THEN 0 ELSE (k + n - 1) - k + 1
      BY <2>2, FS_Interval
    <2> QED BY <2>1, <2>3
  <1> HIDE DEF X, Y
  <1>4. IsFiniteSet(X \X Y) /\ Cardinality(X \X Y) = Cardinality(X) * Cardinality(Y)
    BY <1>1, <1>3, FS_Product
  <1>5. Cardinality(X \X Y) = n
    BY <1>1, <1>3, <1>4
  <1>6. Segment(s, n) = X \X Y
    BY DEF Segment, X, Y
  <1> QED BY <1>4, <1>5, <1>6

\* A segment of n bits is taken: a part of the current byte, or all that is left of it.
Taken(s, t, n) ==
  /\ t.length = s.length /\ t.endianness = s.endianness
  /\ \/ /\ t.index = s.index /\ t.bit_offset = s.bit_offset + n /\ t.margin = s.margin
        /\ n + s.bit_offset + s.margin < 8
     \/ /\ t.index = s.index + 1 /\ t.bit_offset = 0 /\ t.margin = 0
        /\ n = 8 - s.bit_offset - s.margin

LEMMA SegmentTaken ==
  ASSUME NEW s \in Streams, NEW t \in Streams, NEW n \in Nat, n > 0, s.index < s.length,
         s.bit_offset + s.margin < 8, Taken(s, t, n)
  PROVE  GoneOf(t) = GoneOf(s) \cup Segment(s, n) /\ GoneOf(s) \cap Segment(s, n) = {}
  <1> DEFINE N == Segment(s, n)
  <1>1. /\ s.length \in Nat /\ s.index \in Nat /\ s.bit_offset \in Nat /\ s.margin \in Nat
        /\ t.bit_offset \in Nat /\ t.margin \in Nat /\ t.index \in Nat
        /\ s.endianness.bit \in BOOLEAN /\ t.endianness = s.endianness /\ t.length = s.length
    BY DEF Streams, Orders, Taken
  <1>2. From(s, n) \in 0..7 /\ From(s, n) + n - 1 \in 0..7
    BY <1>1 DEF From, Taken
  <1>3. ASSUME NEW x, NEW y
        PROVE  <<x, y>> \in N <=> x = s.index /\ y \in From(s, n)..From(s, n) + n - 1
    BY DEF Segment
  <1>4. ASSUME NEW z \in N
        PROVE  \E x \in 0..s.length - 1, y \in 0..7 : z = <<x, y>>
    <2>1. PICK y \in From(s, n)..From(s, n) + n - 1 : z = <<s.index, y>>
      BY <1>4 DEF Segment
    <2>2. PICK f : f = From(s, n)
      OBVIOUS
    <2>3. f \in 0..7 /\ f + n - 1 \in 0..7 /\ y \in f..f + n - 1
      BY <1>2, <2>1, <2>2
    <2>4. y \in 0..7
      BY <2>3
    <2>5. s.index \in 0..s.length - 1
      BY <1>1
    <2> QED BY <2>1, <2>4, <2>5
  <1>5. ASSUME NEW x \in 0..s.length - 1, NEW y \in 0..7
        PROVE  /\ <<x, y>> \in GoneOf(t) <=> <<x, y>> \in GoneOf(s) \/ <<x, y>> \in N
               /\ ~(<<x, y>> \in GoneOf(s) /\ <<x, y>> \in N)
    <2>1. <<x, y>> \in GoneOf(s)
            <=> \/ x < s.index
                \/ x = s.index /\ s.endianness.bit /\ (y >= 8 - s.bit_offset \/ y < s.margin)
                \/ x = s.index /\ ~s.endianness.bit /\ (y < s.bit_offset \/ y >= 8 - s.margin)
      BY GoneAt
    <2>2. <<x, y>> \in GoneOf(t)
            <=> \/ x < t.index
                \/ x = t.index /\ s.endianness.bit /\ (y >= 8 - t.bit_offset \/ y < t.margin)
                \/ x = t.index /\ ~s.endianness.bit /\ (y < t.bit_offset \/ y >= 8 - t.margin)
      BY <1>1, GoneAt
    <2>3. <<x, y>> \in N <=> x = s.index /\ y \in From(s, n)..From(s, n) + n - 1
      BY <1>3
    <2> HIDE DEF N
    <2>4. CASE s.endianness.bit
      BY <1>1, <2>1, <2>2, <2>3, <2>4 DEF From, Taken
    <2>5. CASE ~s.endianness.bit
      BY <1>1, <2>1, <2>2, <2>3, <2>5 DEF From, Taken
    <2> QED BY <2>4, <2>5
  <1> HIDE DEF N
  <1>6. ASSUME NEW z \in GoneOf(t) PROVE z \in GoneOf(s) \cup N
    <2>1. PICK x \in 0..s.length - 1, y \in 0..7 : z = <<x, y>>
      BY <1>1, <1>6, GoneIn
    <2> QED BY <1>5, <1>6, <2>1
  <1>7. ASSUME NEW z \in GoneOf(s) \cup N
        PROVE  z \in GoneOf(t) /\ ~(z \in GoneOf(s) /\ z \in N)
    <2>1. PICK x \in 0..s.length - 1, y \in 0..7 : z = <<x, y>>
      <3>1. CASE z \in N
        BY <1>4, <3>1
      <3>2. CASE z \in GoneOf(s)
        BY <3>2, GoneIn
      <3> QED BY <1>7, <3>1, <3>2
    <2> QED BY <1>5, <1>7, <2>1
  <1> QED BY <1>6, <1>7 DEF N

LeftOf(s) == 8 * (s.length - s.index) - s.bit_offset - s.margin

\* What is gone since the read began and what it still has to read is what it was asked
\* for; if that was more than there is, it reads all that is left.
FInv ==
  /\ rd # Nothing => /\ rd.gone \subseteq GoneOf(in)
                     /\ in.overrun \/ Cardinality(GoneOf(in) \ rd.gone) + rd.count = rd.nbits
  /\ in.overrun => pc = "read" /\ LeftOf(in) = IF rd = Nothing THEN 0 ELSE rd.count
  /\ last # Nothing => last.lost = {} /\ (Cardinality(last.bits) = last.count \/ in.overrun)

\* GoneOf looks at the place only.
LEMMA GoneSame ==
  ASSUME NEW s, NEW t, t.length = s.length, t.index = s.index, t.bit_offset = s.bit_offset,
         t.margin = s.margin, t.endianness = s.endianness
  PROVE  GoneOf(t) = GoneOf(s)
  BY DEF GoneOf

\* Nothing is left: every bit is gone.
LEMMA AllGone ==
  ASSUME NEW s \in Streams, Placed(s), LeftOf(s) = 0
  PROVE  GoneOf(s) = (0..s.length - 1) \X (0..7)
  <1>1. s.length \in Nat /\ s.index \in Nat /\ s.bit_offset \in Nat /\ s.margin \in Nat
    BY DEF Streams
  <1>2. s.index = s.length
    <2>1. s.bit_offset + s.margin < 8 /\ 8 * (s.length - s.index) = s.bit_offset + s.margin
      BY <1>1 DEF Placed, LeftOf
    <2>2. PICK d \in Int : d = s.length - s.index
      BY <1>1
    <2>3. 8 * d < 8 /\ 8 * d >= 0
      BY <1>1, <2>1, <2>2
    <2>4. d = 0
      BY <2>3
    <2> QED BY <1>1, <2>2, <2>4
  <1>3. ASSUME NEW x \in 0..s.length - 1, NEW y \in 0..7 PROVE <<x, y>> \in GoneOf(s)
    <2>1. x < s.index
      BY <1>1, <1>2
    <2> QED BY <2>1, GoneAt
  <1>4. ASSUME NEW z \in (0..s.length - 1) \X (0..7) PROVE z \in GoneOf(s)
    <2>1. PICK x \in 0..s.length - 1, y \in 0..7 : z = <<x, y>>
      BY <1>4
    <2> QED BY <1>3, <2>1
  <1>5. GoneOf(s) \subseteq (0..s.length - 1) \X (0..7)
    BY DEF GoneOf
  <1> QED BY <1>4, <1>5

\* Turning a stream keeps what is left.
LEMMA TurnedLeft ==
  ASSUME NEW s \in Streams, NEW o \in Orders
  PROVE  LeftOf(Turned(s, o)) = LeftOf(s) /\ Turned(s, o).overrun = s.overrun
  <1> DEFINE u == Turned(s, o)
             t == switch_bit_order(s)
  <1>1. s.length \in Nat /\ s.index \in Nat /\ s.bit_offset \in Nat /\ s.margin \in Nat
    BY DEF Streams
  <1>2. /\ u.index = s.index /\ u.length = s.length /\ u.overrun = s.overrun
        /\ \/ u.bit_offset = s.margin /\ u.margin = s.bit_offset
           \/ u.bit_offset = s.bit_offset /\ u.margin = s.margin
    <2>1. CASE s.endianness.bit # o.bit
      <3>1. /\ t \in Streams /\ t.index = s.index /\ t.length = s.length /\ t.overrun = s.overrun
            /\ t.bit_offset = s.margin /\ t.margin = s.bit_offset
        BY DEF switch_bit_order, Streams
      <3>2. u = [t EXCEPT !.endianness = o]
        BY <2>1 DEF Turned
      <3> HIDE DEF t, u
      <3> QED BY <3>1, <3>2 DEF Streams
    <2>2. CASE ~(s.endianness.bit # o.bit)
      <3>1. u = [s EXCEPT !.endianness = o]
        BY <2>2 DEF Turned
      <3> HIDE DEF u
      <3> QED BY <3>1 DEF Streams
    <2> QED BY <2>1, <2>2
  <1> HIDE DEF u, t
  <1>3. LeftOf(u) = LeftOf(s)
    BY <1>1, <1>2 DEF LeftOf
  <1> QED BY <1>2, <1>3 DEF u

LEMMA AssembledKeeps ==
  ASSUME NEW segment, NEW len, IsRead(rd)
  PROVE  /\ Assembled(segment, len).gone = rd.gone
         /\ Assembled(segment, len).nbits = rd.nbits
         /\ Assembled(segment, len).count = rd.count - len
  BY DEF Assembled, IsRead

\* One segment is taken.
LEMMA SegmentKeeps ==
  ASSUME IInv, FInv, rd # Nothing, NEW n \in Nat, n > 0, n <= rd.count, in' \in Streams,
         Taken(in, in', n), in'.overrun = in.overrun, rd' # Nothing,
         rd'.count = rd.count - n, rd'.gone = rd.gone, rd'.nbits = rd.nbits, UNCHANGED <<last, pc>>
  PROVE  FInv'
  <1>1. /\ in \in Streams /\ Placed(in) /\ rd.count \in Nat
        /\ rd.count <= 8 * (in.length - in.index) - in.bit_offset - in.margin
    BY DEF IInv, Reading
  <1>2. in.length \in Nat /\ in.index \in Nat /\ in.bit_offset \in Nat /\ in.margin \in Nat
    BY <1>1 DEF Streams
  <1>3. in.index < in.length /\ in.bit_offset + in.margin < 8
    BY <1>1, <1>2 DEF Placed
  <1>4. PICK s : s = in'
    OBVIOUS
  <1>5. s \in Streams /\ Taken(in, s, n)
    BY <1>4
  <1>6. GoneOf(s) = GoneOf(in) \cup Segment(in, n) /\ GoneOf(in) \cap Segment(in, n) = {}
    BY <1>1, <1>3, <1>5, SegmentTaken
  <1>7. IsFiniteSet(Segment(in, n)) /\ Cardinality(Segment(in, n)) = n
    BY <1>1, SegmentSize
  <1>8. IsFiniteSet(GoneOf(in))
    BY <1>1, GoneFinite
  <1>9. rd.gone \subseteq GoneOf(in)
    BY DEF FInv
  <1>10. /\ rd.gone \subseteq GoneOf(s)
         /\ Cardinality(GoneOf(s) \ rd.gone) = Cardinality(GoneOf(in) \ rd.gone) + n
    <2>1. PICK G : G = GoneOf(in)
      OBVIOUS
    <2>2. PICK N : N = Segment(in, n)
      OBVIOUS
    <2>3. PICK H : H = rd.gone
      OBVIOUS
    <2>4. H \subseteq G \cup N /\ Cardinality((G \cup N) \ H) = Cardinality(G \ H) + Cardinality(N)
      BY <1>6, <1>7, <1>8, <1>9, <2>1, <2>2, <2>3, CountMore
    <2> QED BY <1>6, <1>7, <2>1, <2>2, <2>3, <2>4
  <1>11. Cardinality(GoneOf(in) \ rd.gone) \in Nat
    <2>1. IsFiniteSet(GoneOf(in) \ rd.gone)
      BY <1>8, FS_Difference
    <2> QED BY <2>1, FS_CardinalityType
  <1>12. in.overrun \/ Cardinality(GoneOf(s) \ rd.gone) + (rd.count - n) = rd.nbits
    <2>1. CASE in.overrun
      BY <2>1
    <2>2. CASE ~in.overrun
      <3>1. Cardinality(GoneOf(in) \ rd.gone) + rd.count = rd.nbits
        BY <2>2 DEF FInv
      <3> QED BY <1>1, <1>10, <1>11, <3>1
    <2> QED BY <2>1, <2>2
  <1>13. LeftOf(s) = LeftOf(in) - n
    BY <1>2, <1>5 DEF LeftOf, Taken
  <1>14. in.overrun => pc = "read" /\ LeftOf(s) = rd.count - n
    BY <1>13 DEF FInv
  <1>15. last # Nothing => last.lost = {} /\ (Cardinality(last.bits) = last.count \/ in.overrun)
    BY DEF FInv
  <1> QED BY <1>4, <1>10, <1>12, <1>14, <1>15 DEF FInv

LEMMA InitFInv == Init => FInv
  BY DEF Init, FInv

LEMMA NextFInv == IInv /\ FInv /\ [Next]_vars => FInv'
  <1> SUFFICES ASSUME IInv, FInv, [Next]_vars PROVE FInv'
    OBVIOUS
  <1>0. /\ in \in Streams /\ Placed(in) /\ Reading(rd, in) /\ nest \in Seq(Orders)
        /\ pc = "write" => rd = Nothing
    BY DEF IInv
  <1>1. CASE UNCHANGED <<in, rd, last, pc>>
    BY <1>1 DEF FInv
  <1>2. CASE h_bit_writer_get_buffer
    <2>1. /\ pc = "write" /\ rd' = rd /\ last' = last /\ in' = [in EXCEPT !.length = w.index]
      BY <1>2 DEF h_bit_writer_get_buffer
    <2>2. ~in.overrun
      BY <2>1 DEF FInv
    <2>3. in'.overrun = in.overrun
      BY <1>0, <2>1 DEF Streams
    <2> QED BY <1>0, <2>1, <2>2, <2>3 DEF FInv
  <1>3. ASSUME NEW n \in Sizes, NEW s \in BOOLEAN, h_read_bits(n, s)
        PROVE  FInv'
    <2> DEFINE k == IF Left < n THEN Left ELSE n
    <2>1. /\ rd'.count = k /\ rd'.nbits = n /\ rd'.gone = GoneOf(in) /\ rd' # Nothing
          /\ in' = IF Left < n THEN [in EXCEPT !.overrun = TRUE] ELSE in
          /\ UNCHANGED <<last, pc>> /\ pc = "read" /\ ~in.overrun
      <3>1. k \in Nat
        BY <1>0, SizesAssumption DEF Left, Streams, Placed
      <3>2. PICK f, b : rd' = [count |-> k, out |-> 0, offset |-> 0, final_shift |-> f,
                         fast |-> b, nbits |-> n, signed_p |-> s, gone |-> GoneOf(in)]
        BY <1>3 DEF h_read_bits
      <3> HIDE DEF k
      <3>3. rd'.count = k /\ rd'.nbits = n /\ rd'.gone = GoneOf(in)
        BY <3>2
      <3>4. rd' # Nothing
        <4>1. Nothing.count = -1
          BY DEF Nothing
        <4> QED BY <3>1, <3>3, <4>1
      <3> QED BY <1>3, <3>3, <3>4 DEF h_read_bits
    <2>2. /\ in'.length = in.length /\ in'.index = in.index /\ in'.bit_offset = in.bit_offset
          /\ in'.margin = in.margin /\ in'.endianness = in.endianness
          /\ in'.overrun <=> Left < n
      <3>1. in' = IF Left < n THEN [in EXCEPT !.overrun = TRUE] ELSE in
        BY <2>1
      <3>2. in.overrun = FALSE
        BY <1>0, <2>1 DEF Streams
      <3>3. CASE Left < n
        <4>1. in' = [in EXCEPT !.overrun = TRUE]
          BY <3>1, <3>3
        <4>2. in'.overrun = TRUE
          BY <1>0, <4>1 DEF Streams
        <4> QED BY <1>0, <3>3, <4>1, <4>2 DEF Streams
      <3>4. CASE ~(Left < n)
        <4>1. in' = in
          BY <3>1, <3>4
        <4> QED BY <3>2, <3>4, <4>1
      <3> QED BY <3>3, <3>4
    <2>3. PICK t : t = in'
      OBVIOUS
    <2>4. GoneOf(t) = GoneOf(in)
      BY <2>2, <2>3, GoneSame
    <2>5. LeftOf(t) = Left
      BY <2>2, <2>3 DEF LeftOf, Left
    <2>6. Cardinality(GoneOf(in) \ GoneOf(in)) = 0
      BY FS_EmptySet
    <2>7. n \in Nat
      BY SizesAssumption
    <2>8. t.overrun \/ Cardinality(GoneOf(t) \ rd'.gone) + rd'.count = rd'.nbits
      <3>1. CASE Left < n
        BY <2>2, <2>3, <3>1
      <3>2. CASE ~(Left < n)
        BY <2>1, <2>4, <2>6, <2>7, <3>2
      <3> QED BY <3>1, <3>2
    <2>9. t.overrun => LeftOf(t) = rd'.count
      BY <2>1, <2>2, <2>3, <2>5
    <2>10. last # Nothing => last.lost = {} /\ (Cardinality(last.bits) = last.count \/ t.overrun)
      BY <2>1 DEF FInv
    <2> HIDE DEF k
    <2> QED BY <2>1, <2>3, <2>4, <2>8, <2>9, <2>10 DEF FInv
  <1>4. CASE FastByte \/ RestOfByte \/ PartOfByte
    <2>1. PICK n, segment :
            /\ rd' = Assembled(segment, n)
            /\ n \in Nat /\ n > 0 /\ n <= rd.count
            /\ in' \in Streams /\ Taken(in, in', n) /\ in'.overrun = in.overrun
            /\ rd # Nothing
      <3>1. /\ rd # Nothing /\ rd.count > 0
            /\ in.bit_offset \in Nat /\ in.margin \in Nat /\ in.index \in Nat
            /\ in.bit_offset + in.margin < 8
        BY <1>0, <1>4 DEF FastByte, RestOfByte, PartOfByte, Streams, Placed
      <3>2. /\ rd.count \in Nat
            /\ rd.fast => in.bit_offset = 0 /\ in.margin = 0 /\ rd.count % 8 = 0
        BY <1>0, <3>1 DEF Reading
      <3>3. CASE FastByte
        <4>1. rd' = Assembled(Byte, 8) /\ in' = [in EXCEPT !.index = @ + 1] /\ rd.fast
          BY <3>3 DEF FastByte
        <4>2. 8 \in Nat /\ 8 > 0 /\ 8 <= rd.count
          BY <3>1, <3>2, <4>1
        <4>3. /\ in' \in Streams /\ in'.overrun = in.overrun
              /\ in'.length = in.length /\ in'.index = in.index + 1
              /\ in'.bit_offset = in.bit_offset /\ in'.margin = in.margin
              /\ in'.endianness = in.endianness
          BY <1>0, <4>1 DEF Streams
        <4>4. Taken(in, in', 8)
          BY <3>2, <4>1, <4>3 DEF Taken
        <4> QED BY <3>1, <4>1, <4>2, <4>3, <4>4
      <3>4. CASE RestOfByte
        <4>1. /\ \E segment : rd' = Assembled(segment, 8 - in.bit_offset - in.margin)
              /\ in' = NextByte(in)
              /\ rd.count + in.bit_offset + in.margin >= 8
          BY <3>4 DEF RestOfByte
        <4>2. PICK n : n = 8 - in.bit_offset - in.margin
          OBVIOUS
        <4>3. PICK segment : rd' = Assembled(segment, n)
          BY <4>1, <4>2
        <4>4. n \in Nat /\ n > 0 /\ n <= rd.count
          BY <3>1, <3>2, <4>1, <4>2
        <4>5. /\ in' \in Streams /\ in'.overrun = in.overrun
              /\ in'.length = in.length /\ in'.index = in.index + 1
              /\ in'.bit_offset = 0 /\ in'.margin = 0 /\ in'.endianness = in.endianness
          BY <1>0, <4>1, NextByteFields
        <4>6. Taken(in, in', n)
          BY <4>2, <4>5 DEF Taken
        <4> QED BY <3>1, <4>3, <4>4, <4>5, <4>6
      <3>5. CASE PartOfByte
        <4>1. /\ \E segment : rd' = Assembled(segment, rd.count)
              /\ in' = [in EXCEPT !.bit_offset = @ + rd.count]
              /\ rd.count + in.bit_offset + in.margin < 8
          BY <3>5 DEF PartOfByte
        <4>2. /\ in' \in Streams /\ in'.overrun = in.overrun
              /\ in'.length = in.length /\ in'.index = in.index
              /\ in'.bit_offset = in.bit_offset + rd.count /\ in'.margin = in.margin
              /\ in'.endianness = in.endianness
          <5>1. in \in Streams /\ rd.count \in Nat
            BY <1>0, <3>2
          <5>2. in' = [in EXCEPT !.bit_offset = @ + rd.count]
            BY <4>1
          <5> QED BY <5>1, <5>2 DEF Streams
        <4>3. Taken(in, in', rd.count)
          BY <4>1, <4>2 DEF Taken
        <4> QED BY <3>1, <3>2, <4>1, <4>2, <4>3
      <3> QED BY <1>4, <3>3, <3>4, <3>5
    <2>2. IsRead(rd) /\ rd.count \in Nat /\ rd.count - n \in Nat
      BY <1>0, <2>1 DEF Reading
    <2>3. rd'.gone = rd.gone /\ rd'.nbits = rd.nbits /\ rd'.count = rd.count - n
      BY <2>1, <2>2, AssembledKeeps
    <2>4. rd' # Nothing
      <3>1. Nothing.count = -1
        BY DEF Nothing
      <3> QED BY <2>2, <2>3, <3>1
    <2>5. UNCHANGED <<last, pc>>
      BY <1>4 DEF FastByte, RestOfByte, PartOfByte
    <2> QED BY <2>1, <2>3, <2>4, <2>5, SegmentKeeps
  <1>5. CASE EndRead
    <2>1. /\ rd.count = 0 /\ rd' = Nothing /\ UNCHANGED <<in, pc>>
          /\ last'.count = rd.nbits /\ last'.bits = GoneOf(in) \ rd.gone
          /\ last'.lost = rd.gone \ GoneOf(in)
      <3>1. PICK v : last' = [count |-> rd.nbits, value |-> v, signed_p |-> rd.signed_p,
                    order |-> in.endianness, bits |-> GoneOf(in) \ rd.gone, lost |-> rd.gone \ GoneOf(in)]
        BY <1>5 DEF EndRead
      <3>2. rd.count = 0 /\ rd' = Nothing /\ UNCHANGED <<in, pc>>
        BY <1>5 DEF EndRead
      <3> QED BY <3>1, <3>2
    <2>2. rd # Nothing
      <3>1. Nothing.count = -1
        BY DEF Nothing
      <3> QED BY <2>1, <3>1
    <2>3. rd.gone \subseteq GoneOf(in)
      BY <2>2 DEF FInv
    <2>4. last'.lost = {}
      BY <2>1, <2>3
    <2>5. in.overrun \/ Cardinality(last'.bits) = last'.count
      <3>1. Cardinality(GoneOf(in) \ rd.gone) \in Nat
        <4>1. IsFiniteSet(GoneOf(in))
          BY <1>0, GoneFinite
        <4>2. IsFiniteSet(GoneOf(in) \ rd.gone)
          BY <4>1, FS_Difference
        <4> QED BY <4>2, FS_CardinalityType
      <3>2. in.overrun \/ Cardinality(GoneOf(in) \ rd.gone) + rd.count = rd.nbits
        BY <2>2 DEF FInv
      <3> QED BY <2>1, <3>1, <3>2
    <2>6. in.overrun => pc = "read" /\ LeftOf(in) = 0
      BY <2>1, <2>2 DEF FInv
    <2> QED BY <2>1, <2>4, <2>5, <2>6 DEF FInv
  <1>6. ASSUME NEW o \in Orders, in' = Turned(in, o), rd = Nothing, UNCHANGED <<rd, last, pc>>
        PROVE  FInv'
    <2>1. PICK t : t = in'
      OBVIOUS
    <2>2. LeftOf(t) = LeftOf(in) /\ t.overrun = in.overrun
      BY <1>0, <1>6, <2>1, TurnedLeft
    <2> QED BY <1>6, <2>1, <2>2 DEF FInv
  <1>7. CASE \E o \in Orders : Enter(o)
    BY <1>6, <1>7 DEF Enter
  <1>8. CASE Leave
    <2>1. nest # <<>> /\ in' = Turned(in, nest[Len(nest)]) /\ rd = Nothing /\ UNCHANGED <<rd, last, pc>>
      BY <1>8 DEF Leave
    <2>2. nest[Len(nest)] \in Orders
      BY <1>0, <2>1
    <2> QED BY <1>6, <2>1, <2>2
  <1>9. \/ UNCHANGED <<in, rd, last, pc>> \/ h_bit_writer_get_buffer
        \/ \E n \in Sizes, s \in BOOLEAN : h_read_bits(n, s)
        \/ FastByte \/ RestOfByte \/ PartOfByte \/ EndRead
        \/ \E o \in Orders : Enter(o)
        \/ Leave
    BY DEF Next, vars, rvars, h_bit_writer_put, h_bit_writer_reserve, Reserved, PutSegment, PutEnd
  <1> QED BY <1>1, <1>2, <1>3, <1>4, <1>5, <1>7, <1>8, <1>9

\* For every input, every sequence of sizes and every nesting of
\* h_with_endianness: h_read_bits gives back no bit that was taken before, takes as
\* many as it was asked for, all of them new, and if the input ends first it takes
\* all that is left, so that a failed read leaves nothing unread.
THEOREM BitsTakesFresh == Spec => []TakesFresh
  <1>1. IInv /\ FInv => TakesFresh
    <2> SUFFICES ASSUME IInv, FInv, rd = Nothing, last # Nothing
                 PROVE  /\ last.lost = {}
                        /\ Cardinality(last.bits) = last.count \/ in.overrun
                        /\ in.overrun => GoneOf(in) = (0..in.length - 1) \X (0..7)
      BY DEF TakesFresh
    <2>1. last.lost = {} /\ (Cardinality(last.bits) = last.count \/ in.overrun)
      BY DEF FInv
    <2>2. ASSUME in.overrun PROVE GoneOf(in) = (0..in.length - 1) \X (0..7)
      <3>1. in \in Streams /\ Placed(in) /\ LeftOf(in) = 0
        BY <2>2 DEF IInv, FInv
      <3> QED BY <3>1, AllGone
    <2> QED BY <2>1, <2>2
  <1> QED BY <1>1, InitIInv, NextIInv, InitFInv, NextFInv, PTL DEF Spec
=============================================================================
