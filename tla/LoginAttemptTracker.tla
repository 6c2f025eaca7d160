------------------------- MODULE LoginAttemptTracker -------------------------
(***************************************************************************)
(* auth/services/login-attempt-tracker.service.ts, and loginWithPassword   *)
(* of auth/courier-auth.service.ts, which asks it and tells it.  Its       *)
(* methods have no await; the lookup of the courier and the comparison of  *)
(* the hash come between isBlocked and recordFailure, so other logins pass *)
(* the check meanwhile.                                                    *)
(***************************************************************************)
EXTENDS Naturals, FiniteSets

CONSTANTS
  Keys,          \* owner_id and login, of a courier or not
  Credentialed,  \* those of a courier with a password_hash
  Requests,      \* slots for requests being handled at the same time
  Limit,         \* THROTTLE_LOGIN_LIMIT
  NULL

VARIABLES
  store,  \* store[k]: failures of the record of k, 0 when there is none
  req     \* req[r]: the login in slot r

vars == <<store, req>>

Idle == [pc |-> "idle", key |-> NULL]

Init ==
  /\ store = [k \in Keys |-> 0]
  /\ req = [r \in Requests |-> Idle]

Step(r, pc) == req' = [req EXCEPT ![r].pc = pc]
Return(r) == req' = [req EXCEPT ![r] = Idle]

\* A key without a record is not blocked, whatever the limit.  Mutation: one
\* failure too many is let through.
IsBlockedLate(k) == store[k] > 0 /\ store[k] > Limit
IsBlocked(k) == store[k] > 0 /\ store[k] >= Limit

\* A key that is blocked gets a 429.
LoginWithPassword(r, k) ==
  /\ req[r].pc = "idle"
  /\ ~IsBlocked(k)
  /\ req' = [req EXCEPT ![r] = [pc |-> "compare", key |-> k]]
  /\ UNCHANGED store

\* No courier, no password_hash, or another password: 401.
RecordFailure(r) ==
  /\ req[r].pc = "compare"
  /\ store' = [store EXCEPT ![req[r].key] = @ + 1]
  /\ Return(r)

\* The password is the courier's: the record goes, also one that others have
\* brought to the limit since.
Reset(r) ==
  /\ req[r].pc = "compare"
  /\ req[r].key \in Credentialed
  /\ store' = [store EXCEPT ![req[r].key] = 0]
  /\ Step(r, "issue")

\* issueTokens, and the answer.
IssueTokens(r) ==
  /\ req[r].pc = "issue"
  /\ Return(r)
  /\ UNCHANGED store

\* resetAt passes: the record counts no more.
WindowEnds(k) ==
  /\ store[k] > 0
  /\ store' = [store EXCEPT ![k] = 0]
  /\ UNCHANGED req

\* The lookup throws: nothing is recorded.
Fail(r) ==
  /\ req[r].pc # "idle"
  /\ Return(r)
  /\ UNCHANGED store

\* The store is in memory: with the server it goes, and the requests with it.
Restart ==
  /\ store' = [k \in Keys |-> 0]
  /\ req' = [r \in Requests |-> Idle]

Next ==
  \/ \E r \in Requests, k \in Keys : LoginWithPassword(r, k)
  \/ \E r \in Requests : RecordFailure(r) \/ Reset(r) \/ IssueTokens(r) \/ Fail(r)
  \/ \E k \in Keys : WindowEnds(k)
  \/ Restart

Spec == Init /\ [][Next]_vars

-----------------------------------------------------------------------------
\* The failures of a record with which its key is blocked.
Ceiling == IF Limit = 0 THEN 1 ELSE Limit

\* FR-010: however many logins overlap, the failures of a record exceed the
\* limit by no more than the requests that had passed the check before.  A window
\* that ends, a reset and a restart begin another record.
Comparing(k) == {r \in Requests : req[r].pc = "compare" /\ req[r].key = k}

FailuresAreBounded ==
  \A k \in Keys : store[k] + Cardinality(Comparing(k)) < Ceiling + Cardinality(Requests)
=============================================================================
