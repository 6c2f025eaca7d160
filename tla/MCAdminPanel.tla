---------------------------- MODULE MCAdminPanel ----------------------------
(***************************************************************************)
(* Instances of AdminPanel for TLC.                                        *)
(***************************************************************************)
EXTENDS AdminPanel, TLC

CONSTANTS o1, o2, c1, c2, l1, l2, e1, e2, q1, q2

Symmetry == Permutations(Orders) \cup Permutations(Couriers) \cup Permutations(Runs)
=============================================================================
