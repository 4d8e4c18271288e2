---------------------------- MODULE MCGxfpEspi ------------------------------
(* Small instances of GxfpEspi: packets of one, two and three windows.     *)
EXTENDS GxfpEspi, TLC
=============================================================================
