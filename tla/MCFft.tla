------------------------------- MODULE MCFft -------------------------------
(* Fft for TLC: in the integers modulo 97 the element 28 has order 32. The *)
(* transform is linear, so the unit vectors stand for all buffers.         *)
EXTENDS Fft

MCRoot(n) == Power(28, 32 \div n)
MCInputs(n) == {[p \in 0 .. n - 1 |-> IF p = m THEN 1 ELSE 0] : m \in 0 .. n - 1}
=============================================================================
