----------------------------- MODULE Wraparound -----------------------------
(***************************************************************************)
(* Sequence numbers and frame ids are 32-bit counters that wrap around.    *)
(* m stands for 2^32 and is even.                                          *)
(***************************************************************************)
EXTENDS Integers

\* static_cast<int32_t>(d)
Signed(d, m) == LET r == d % m IN IF 2 * r < m THEN r ELSE r - m

\* Fault: the counters are compared as plain numbers.
PlainlyNewer(a, b, m) == a > b

\* seqNewerThan()
seqNewerThan(a, b, m) == Signed(a - b, m) > 0

=============================================================================
