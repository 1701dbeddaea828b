------------------------------- MODULE MCBits -------------------------------
(* The bit writer and the bit reader on small buffers, and what a read means *)
(* in terms of the bits it takes.                                            *)
EXTENDS Bits, FiniteSetsExt

\* The weight of a bit among those of one read: bits of the same byte keep
\* their order, and bytes are in the byte order of the stream.
Weight(r, z) ==
  Cardinality({x \in r.bits : x[1] = z[1] /\ x[2] < z[2]})
  + Cardinality({x \in r.bits : IF r.order.byte THEN x[1] > z[1] ELSE x[1] < z[1]})

Sum(r) == MapThenSumSet(LAMBDA z : 2^Weight(r, z) * Slice(w.buf[z[1]], z[2], 1), r.bits)

\* What is missing at the end is taken as zeros, in the lowest places.
Expected(r) ==
  LET missing == r.count - Cardinality(r.bits)
      x == Sum(r) * 2^(IF r.order.byte THEN missing ELSE 0)
  IN IF r.signed_p /\ x >= 2^(r.count - 1) THEN x - 2^r.count ELSE x

\* h_read_bits returns the value of the bits it takes: the segments of bytes with
\* taken bits at both ends, in four orders, make one number. So what
\* h_bit_writer_put wrote is read back with the orders it was written in.
ReadsValue ==
  /\ rd = Nothing /\ last # Nothing => last.value = Expected(last)
  /\ again > 0 /\ ~in.overrun => last.value = written[again].data
=============================================================================
