-------------------------- MODULE MCShiftOverlaps ---------------------------
(***************************************************************************)
(* Small instances of ShiftOverlaps for TLC.                               *)
(***************************************************************************)
EXTENDS ShiftOverlaps

CONSTANTS c1, c2, t1, t2

=============================================================================
