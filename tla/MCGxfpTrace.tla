---------------------------- MODULE MCGxfpTrace -----------------------------
(* Small instance of GxfpTrace: a ring that wraps around, sequence numbers *)
(* that wrap around as well, and threads that are interchangeable.         *)
EXTENDS GxfpTrace, TLC

Symmetry == Permutations(Threads)
=============================================================================
