------------------------------ MODULE MCTools ------------------------------
(* Tools for TLC: three devices, so that a list of them has a first, a     *)
(* middle and a last, with two outputs each.                               *)
EXTENDS Tools
=============================================================================
