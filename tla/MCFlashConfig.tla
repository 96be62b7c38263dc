---------------------------- MODULE MCFlashConfig ----------------------------
(* FlashConfig for TLC: each field has two values. *)
EXTENDS FlashConfig
=============================================================================
