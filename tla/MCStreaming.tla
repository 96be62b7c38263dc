---------------------------- MODULE MCStreaming ----------------------------
(* Streaming for TLC: buffers are interchangeable. *)
EXTENDS Streaming, TLC

BufferSymmetry == Permutations(Buffers)
=============================================================================
