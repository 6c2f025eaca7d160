------------------------ MODULE MCTrackingOverlaps -------------------------
(***************************************************************************)
(* Instances of TrackingOverlaps for TLC.                                  *)
(***************************************************************************)
EXTENDS TrackingOverlaps, TLC

CONSTANTS c1, c2, o1, p1, p2, r1, r2, q1

Symmetry ==
  Permutations(Couriers) \cup Permutations(Points) \cup Permutations(Requests)
=============================================================================
