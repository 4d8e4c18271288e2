------------------------------ MODULE MCGxfpRxq ------------------------------
(* Small instance of GxfpRxq: a queue of two cells and two user threads.   *)
EXTENDS GxfpRxq, TLC
=============================================================================
