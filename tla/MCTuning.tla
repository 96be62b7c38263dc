------------------------------ MODULE MCTuning ------------------------------
(* Tuning for TLC: two units in a kHz, one Zero-IF and one Low-IF rate,    *)
(* frequencies below, at and above the lowest LO of each.                  *)
EXTENDS Tuning

MCLowIf(r) == r = 1
MCAdjusted(f, ppb) == f + ppb * ((f + 3) \div 4)
MCDelta(khz) == (khz % 3) - 1
=============================================================================
