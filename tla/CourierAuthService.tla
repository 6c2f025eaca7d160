-------------------------- MODULE CourierAuthService -------------------------
(***************************************************************************)
(* The two ways into auth/courier-auth.service.ts: codes, of CourierAuth,  *)
(* and passwords, of LoginAttemptTracker.  They share no state.            *)
(***************************************************************************)
EXTENDS CourierAuth

CONSTANTS
  Keys,          \* owner_id and login, of a courier or not
  Credentialed,  \* those of a courier with a password_hash
  Logins,        \* slots for logins being handled at the same time
  Limit          \* THROTTLE_LOGIN_LIMIT

ASSUME LoginsAssumption ==
  /\ IsFiniteSet(Logins) /\ Logins # {}
  /\ Limit \in Nat

VARIABLES store, logins

Tracker == INSTANCE LoginAttemptTracker WITH Requests <- Logins, req <- logins

LoginSpec == Tracker!Spec

\* FR-010: however many logins overlap, the failures of a key exceed the limit
\* by no more than the logins that had passed the check before.
FailuresAreBounded == Tracker!FailuresAreBounded

-----------------------------------------------------------------------------
\* The inductive invariant behind it: what is being compared has a key, and a
\* login that has passed the check has its failure reserved under the bound.
LoginInv ==
  /\ store \in [Keys -> Nat]
  /\ logins \in [Logins -> [pc : {"idle", "compare", "issue"}, key : Keys \cup {NULL}]]
  /\ \A r \in Logins : logins[r].pc = "compare" => logins[r].key \in Keys
  /\ FailuresAreBounded
=============================================================================
