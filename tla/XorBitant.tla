------------------------------ MODULE XorBitant ------------------------------
(***************************************************************************)
(* XorBitant (include/quick/utils/XorBitant.hh): a generator of random     *)
(* numbers that shifts and xors a 64-bit state.  What a call returns is    *)
(* the low half of the new state times a constant, a function of the state *)
(* that changes nothing; the state is what is modelled, bit by bit.        *)
(***************************************************************************)
EXTENDS Integers

Width == 64
Position == 0..(Width - 1)
Word == [Position -> {0, 1}]

Zero == [i \in Position |-> 0]

\* x << k and x >> k: what is shifted out is lost.
ShiftLeft(x, k)  == [i \in Position |-> IF i >= k THEN x[i - k] ELSE 0]
ShiftRight(x, k) == [i \in Position |-> IF i + k < Width THEN x[i + k] ELSE 0]

Xor(x, y) == [i \in Position |-> IF x[i] = y[i] THEN 0 ELSE 1]

XorLeft(x, k)  == Xor(x, ShiftLeft(x, k))
XorRight(x, k) == Xor(x, ShiftRight(x, k))

\* The three assignments to x.
NextState(x) == XorLeft(XorRight(XorLeft(x, 13), 7), 5)

VARIABLE m_state

\* The constructor takes any seed.
Init == m_state \in Word

\* operator()
Generate == m_state' = NextState(m_state)

Spec == Init /\ [][Generate]_m_state

-----------------------------------------------------------------------------
TypeOK == m_state \in Word

\* No call (33-37) brings the generator to the state 0, from which it would
\* return 0 for ever: only a seed of 0 (14) does.
ZeroOnlyFromZero == [][m_state' = Zero <=> m_state = Zero]_m_state

=============================================================================
