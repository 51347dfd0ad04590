--------------------------- MODULE MCDiskManager ---------------------------
(* DiskManager for TLC: symmetric threads. *)
EXTENDS DiskManager, TLC

Symmetry == Permutations(Thread)
=============================================================================
