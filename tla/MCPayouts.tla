----------------------------- MODULE MCPayouts ------------------------------
(***************************************************************************)
(* Small instances of Payouts for TLC.                                     *)
(***************************************************************************)
EXTENDS Payouts, TLC

CONSTANTS p1, p2, c1, c2, o1, o2, r1, r2

Symmetry == Permutations(Requests) \cup Permutations(Couriers)

=============================================================================
