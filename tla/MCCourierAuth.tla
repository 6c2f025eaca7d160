--------------------------- MODULE MCCourierAuth ---------------------------
(***************************************************************************)
(* An instance for TLC of CourierAuthService.  Codes and passwords share   *)
(* no state, so that the properties of each are explored while the other   *)
(* rests.                                                                  *)
(***************************************************************************)
EXTENDS CourierAuthService, TLC

CONSTANTS c1, d1, r1, r2, k1, k2, l1, l2, l3

AuthInit == Init /\ Tracker!Init

AuthNext ==
  \/ Tracker!Init /\ Next /\ UNCHANGED <<store, logins>>
  \/ Init /\ Tracker!Next /\ UNCHANGED vars

AuthSpec == AuthInit /\ [][AuthNext]_<<vars, store, logins>>

Symmetry == Permutations(Requests)
=============================================================================
