------------------------------- MODULE TcpSeq -------------------------------
(***************************************************************************)
(* TCP sequence numbers: u32_t arithmetic, compared as (s32_t)(a - b).     *)
(***************************************************************************)
EXTENDS Integers

CONSTANT M    \* size of the sequence space: 2^32 in the code

Plus(s, n) == (s + n) % M

Minus(s, t) == ((s - t + (M \div 2)) % M) - (M \div 2)

TCP_SEQ_LT(s, t) == Minus(s, t) < 0

TCP_SEQ_LEQ(s, t) == Minus(s, t) <= 0

TCP_SEQ_GT(s, t) == Minus(s, t) > 0

TCP_SEQ_GEQ(s, t) == Minus(s, t) >= 0

TCP_SEQ_BETWEEN(s, lo, hi) == Minus(s, lo) >= 0 /\ Minus(s, hi) <= 0
=============================================================================
