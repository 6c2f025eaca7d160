-------------------------- MODULE MCOrderIngestion --------------------------
(***************************************************************************)
(* Small instances of OrderIngestion for TLC.                              *)
(***************************************************************************)
EXTENDS OrderIngestion

CONSTANTS n1, n2, p1, p2, c1, c2, r1, r2

=============================================================================
