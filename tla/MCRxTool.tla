------------------------------ MODULE MCRxTool ------------------------------
(* RxTool for TLC: words of 8 and 4 bits instead of 64 and 32, samples of  *)
(* 4 bytes and blocks of two.  As in the program, the values -n accepts,   *)
(* below U64 \div 2, include some whose number of bytes exceeds the larger *)
(* word, and the asked bytes may exceed the smaller one.                   *)
EXTENDS RxTool
=============================================================================
