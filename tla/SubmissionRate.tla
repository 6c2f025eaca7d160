--------------------------- MODULE SubmissionRate ---------------------------
(***************************************************************************)
(* How often a courier may submit a location: LocationThrottleGuard, as    *)
(* the module configures it.  The guard counts a courier's submissions in  *)
(* the window of every throttler of app.module.ts, and those are `code`    *)
(* and `login`, of ten minutes each; the five seconds of the controller's  *)
(* @Throttle({ default }) belong to none of them and are counted here only *)
(* to state what specs/004 expect of them.                                 *)
(***************************************************************************)
EXTENDS CourierTracking

CONSTANT Limit   \* THROTTLE_CODE_LIMIT and THROTTLE_LOGIN_LIMIT, the smaller

VARIABLES
  hits,      \* hits[c]: submissions of c counted in the window of ten minutes
  recent     \* history: recent[c], those accepted in a window of five seconds

rvars == <<vars, hits, recent>>

RateInit ==
  /\ Init
  /\ hits = [c \in Couriers |-> 0]
  /\ recent = [c \in Couriers |-> 0]

\* canActivate, and the submission it lets in.
Submit(r, c, p, o) ==
  /\ hits[c] < Limit
  /\ hits' = [hits EXCEPT ![c] = @ + 1]
  /\ recent' = [recent EXCEPT ![c] = @ + 1]
  /\ FindActiveOrder(r, c, p, o)

TenMinutesPass(c) ==
  /\ hits' = [hits EXCEPT ![c] = 0]
  /\ recent' = [recent EXCEPT ![c] = 0]
  /\ UNCHANGED vars

FiveSecondsPass(c) ==
  /\ recent' = [recent EXCEPT ![c] = 0]
  /\ UNCHANGED <<vars, hits>>

RateNext ==
  \/ \E r \in Requests, c \in Couriers, p \in Points, o \in Orders \cup {NULL} : Submit(r, c, p, o)
  \/ \E r \in Requests : (Continue(r) \/ Fail(r)) /\ UNCHANGED <<hits, recent>>
  \/ \E c \in Couriers : TenMinutesPass(c) \/ FiveSecondsPass(c)

RateSpec == RateInit /\ [][RateNext]_rvars

-----------------------------------------------------------------------------
\* Specs/004, FR-008 and research, Decision 3: one submission per courier and
\* five seconds; what exceeds it is rejected.
OnePerWindow == \A c \in Couriers : recent[c] <= 1
=============================================================================
