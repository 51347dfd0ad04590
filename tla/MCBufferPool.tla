---------------------------- MODULE MCBufferPool ----------------------------
(* BufferPool for TLC: symmetric threads. *)
EXTENDS BufferPool

Symmetry == Permutations(Thread)
=============================================================================
