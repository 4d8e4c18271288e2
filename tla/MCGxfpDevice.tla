---------------------------- MODULE MCGxfpDevice ----------------------------
EXTENDS GxfpDevice, TLC
=============================================================================
