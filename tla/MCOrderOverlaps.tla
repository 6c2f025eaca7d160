--------------------------- MODULE MCOrderOverlaps ---------------------------
(***************************************************************************)
(* Instances of OrderOverlaps for TLC.                                     *)
(***************************************************************************)
EXTENDS OrderOverlaps, TLC

CONSTANTS o1, o2, o3, c1, c2, s1, s2, A, B, r1, r2

\* Two tenants: the order o3 and the operator s2 belong to B, the rest to A.
TwoTenants ==
  [x \in Orders \cup Users |-> IF x \in {o3, s2} THEN B ELSE A]

\* The couriers are of one tenant, and neither they nor the slots are told apart.
Symmetry == Permutations(Couriers) \cup Permutations(Requests)

=============================================================================
