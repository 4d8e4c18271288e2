----------------------------- MODULE LastLines ------------------------------
(***************************************************************************)
(* What the driver's trace promises its reader: a dump shows the last Size *)
(* numbered lines since the trace was cleared, oldest first, with none     *)
(* missing in between.  A trace can be spoilt; then nothing is promised    *)
(* until it is cleared or started again.                                   *)
(***************************************************************************)
EXTENDS Naturals, Sequences

CONSTANTS Size, SeqMod

VARIABLES n, shown, spoilt

Init == n = 0 /\ shown = <<>> /\ ~spoilt

Latest(s) == IF Len(s) > Size THEN Tail(s) ELSE s

Log ==
  /\ ~spoilt /\ ~spoilt'
  /\ n' = (n + 1) % SeqMod
  /\ shown' = Latest(Append(shown, n'))

Clear == shown' = <<>> /\ ~spoilt' /\ UNCHANGED n

Restart == n' = 0 /\ shown' = <<>> /\ ~spoilt'

Spoil == spoilt'

Spec == Init /\ [][Log \/ Clear \/ Restart \/ Spoil]_<<n, shown, spoilt>>
=============================================================================
