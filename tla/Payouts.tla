------------------------------ MODULE Payouts -------------------------------
(***************************************************************************)
(* payouts/payouts.service.ts: payout periods, payouts and the reports     *)
(* that staff pay from.  A report adds up courier_earnings each time it is *)
(* asked for, while the completions of order-lifecycle.service.ts go on    *)
(* adding rows: earned_at is read from the clock before the transaction    *)
(* that commits the row.                                                   *)
(***************************************************************************)
EXTENDS Naturals, Sequences

CONSTANTS
  Periods,   \* bound: the periods that staff may create
  Couriers,  \* couriers of the tenant
  Orders,    \* orders of the tenant, each completed at most once
  Requests,  \* slots for requests being handled at the same time
  LastDay,   \* bound: the last day of the calendar
  NULL

Days == 1..LastDay

ASSUME LastDayAssumption == LastDay \in Nat \ {0}
ASSUME NullAssumption ==
  /\ NULL \notin Periods \cup Couriers
  /\ NULL \notin [courier : Couriers, day : Days]

VARIABLES
  periods,     \* rows of payout_periods
  payouts,     \* payouts[p][c]: the rows of payouts of that period and courier
  completing,  \* earnings stamped by a completion that has not committed
  earnings,    \* committed rows of courier_earnings, by order
  today,
  req,         \* req[r]: the request in slot r
  reports      \* reports[r]: the couriers last reported unpaid in slot r

outside == <<completing, earnings, today>>
vars == <<periods, payouts, outside, req, reports>>

NoPeriod == [status |-> "none", start |-> 1, end |-> 1]
Idle == [pc |-> "idle", period |-> NULL, courier |-> NULL, earners |-> {}, paid |-> {}]

Init ==
  /\ periods = [p \in Periods |-> NoPeriod]
  /\ payouts = [p \in Periods |-> [c \in Couriers |-> <<>>]]
  /\ completing = [o \in Orders |-> NULL]
  /\ earnings = [o \in Orders |-> NULL]
  /\ today = 1
  /\ req = [r \in Requests |-> Idle]
  /\ reports = [r \in Requests |-> {}]

Begin(r, pc, p, c) ==
  /\ req[r].pc = "idle"
  /\ req' = [req EXCEPT ![r] = [pc |-> pc, period |-> p, courier |-> c,
                                earners |-> {}, paid |-> {}]]
Return(r) == req' = [req EXCEPT ![r] = Idle]

(***************************************************************************)
(* createPeriod and closePeriod.                                           *)
(***************************************************************************)
\* One INSERT: ranges may overlap, and their days need not have passed.
CreatePeriod(p, start, end) ==
  /\ periods[p].status = "none"
  /\ start <= end
  /\ periods' = [periods EXCEPT ![p] = [status |-> "open", start |-> start, end |-> end]]
  /\ UNCHANGED <<payouts, outside, req, reports>>

CloseLoad(r, p) ==
  /\ periods[p].status = "open"
  /\ Begin(r, "close", p, NULL)
  /\ UNCHANGED <<periods, payouts, outside, reports>>

\* WHERE id AND owner_id: a period closed in between is closed again.
CloseWrite(r) ==
  /\ req[r].pc = "close"
  /\ periods' = [periods EXCEPT ![req[r].period].status = "closed"]
  /\ Return(r)
  /\ UNCHANGED <<payouts, outside, reports>>

(***************************************************************************)
(* recordPayout.  The courier is looked up in between and is there.        *)
(***************************************************************************)
Payable(p) == periods[p].status = "closed"

PayoutLoad(r, p, c) ==
  /\ Payable(p)
  /\ Begin(r, "pay", p, c)
  /\ UNCHANGED <<periods, payouts, outside, reports>>

\* Mutation: uq_payout_period_courier is missing.
NoViolation(p, c) == FALSE
UniqueViolation(p, c) == payouts[p][c] # <<>>

\* A unique violation on the period and the courier is a 409.
PayoutInsert(r) ==
  /\ req[r].pc = "pay"
  /\ LET p == req[r].period
         c == req[r].courier
     IN payouts' = IF UniqueViolation(p, c) THEN payouts
                   ELSE [payouts EXCEPT ![p][c] = Append(@, r)]
  /\ Return(r)
  /\ UNCHANGED <<periods, outside, reports>>

(***************************************************************************)
(* getPeriodSummary and getPendingCouriers: the earnings of the range and  *)
(* then the payouts, in two statements.  Mutations: the payouts are read   *)
(* first; the range has one day more.                                      *)
(***************************************************************************)
PaidFirst == [load |-> "paid", paid |-> "sum", sum |-> "idle"]
After == [load |-> "sum", sum |-> "paid", paid |-> "idle"]

InRangeLong(p, day) == periods[p].start <= day /\ day <= periods[p].end + 1
InRange(p, day) == periods[p].start <= day /\ day <= periods[p].end

Counted(p) ==
  {o \in Orders : earnings[o] # NULL /\ InRange(p, earnings[o].day)}
Earners(p) == {earnings[o].courier : o \in Counted(p)}
Paid(p) == {c \in Couriers : payouts[p][c] # <<>>}

ReportLoad(r, p, pendingOnly) ==
  /\ periods[p].status # "none"
  /\ pendingOnly => periods[p].status = "closed"
  /\ Begin(r, After.load, p, NULL)
  /\ UNCHANGED <<periods, payouts, outside, reports>>

\* One of the two reads; the second one answers.
Read(r, next, earners, paid) ==
  /\ IF next = "idle"
     THEN /\ Return(r)
          /\ reports' = [reports EXCEPT ![r] = earners \ paid]
     ELSE /\ req' = [req EXCEPT ![r].pc = next, ![r].earners = earners, ![r].paid = paid]
          /\ UNCHANGED reports
  /\ UNCHANGED <<periods, payouts, outside>>

AggregateCourierEarnings(r) ==
  /\ req[r].pc = "sum"
  /\ Read(r, After.sum, Earners(req[r].period), req[r].paid)

GetPaidCourierIds(r) ==
  /\ req[r].pc = "paid"
  /\ Read(r, After.paid, req[r].earners, Paid(req[r].period))

(***************************************************************************)
(* The completions of OrderLifecycle, and the calendar.                    *)
(***************************************************************************)
StampEarning(o, c) ==
  /\ completing[o] = NULL
  /\ earnings[o] = NULL
  /\ completing' = [completing EXCEPT ![o] = [courier |-> c, day |-> today]]
  /\ UNCHANGED <<periods, payouts, earnings, today, req, reports>>

CommitEarning(o) ==
  /\ completing[o] # NULL
  /\ earnings' = [earnings EXCEPT ![o] = completing[o]]
  /\ completing' = [completing EXCEPT ![o] = NULL]
  /\ UNCHANGED <<periods, payouts, today, req, reports>>

NextDay ==
  /\ today < LastDay
  /\ today' = today + 1
  /\ UNCHANGED <<periods, payouts, completing, earnings, req, reports>>

\* The process dies or a statement throws: every request writes at most once.
Fail(r) ==
  /\ req[r].pc # "idle"
  /\ Return(r)
  /\ UNCHANGED <<periods, payouts, outside, reports>>

Continue(r) ==
  \/ CloseWrite(r)
  \/ PayoutInsert(r)
  \/ AggregateCourierEarnings(r)
  \/ GetPaidCourierIds(r)

Next ==
  \/ \E p \in Periods, start, end \in Days : CreatePeriod(p, start, end)
  \/ \E r \in Requests, p \in Periods : CloseLoad(r, p)
  \/ \E r \in Requests, p \in Periods, c \in Couriers : PayoutLoad(r, p, c)
  \/ \E r \in Requests, p \in Periods, pendingOnly \in BOOLEAN : ReportLoad(r, p, pendingOnly)
  \/ \E r \in Requests : Continue(r)
  \/ \E r \in Requests : Fail(r)
  \/ \E o \in Orders, c \in Couriers : StampEarning(o, c)
  \/ \E o \in Orders : CommitEarning(o)
  \/ NextDay

Spec == Init /\ [][Next]_vars

-----------------------------------------------------------------------------
Earning == [courier : Couriers, day : Days]
Request == [pc : {"close", "pay", "sum", "paid"}, period : Periods,
            courier : Couriers \cup {NULL}, earners : SUBSET Couriers,
            paid : SUBSET Couriers]

TypeOK ==
  /\ periods \in [Periods -> [status : {"none", "open", "closed"}, start : Days, end : Days]]
  /\ payouts \in [Periods -> [Couriers -> {<<>>} \cup {<<r>> : r \in Requests}]]
  /\ completing \in [Orders -> Earning \cup {NULL}]
  /\ earnings \in [Orders -> Earning \cup {NULL}]
  /\ today \in Days
  /\ req \in [Requests -> Request \cup {Idle}]
  /\ reports \in [Requests -> SUBSET Couriers]

(***************************************************************************)
(* The inductive invariant: the status that a request has checked is still *)
(* so when it writes, for no period is ever opened again; and an earning   *)
(* that is about to commit is new, and not stamped with a day to come.     *)
(***************************************************************************)
IInv ==
  /\ TypeOK
  /\ \A r \in Requests :
       /\ req[r].pc = "close" => periods[req[r].period].status # "none"
       /\ req[r].pc = "pay" => /\ periods[req[r].period].status = "closed"
                               /\ req[r].courier \in Couriers
  /\ \A p \in Periods, c \in Couriers :
       payouts[p][c] # <<>> => periods[p].status = "closed"
  /\ \A o \in Orders : completing[o] # NULL => /\ earnings[o] = NULL
                                                /\ completing[o].day <= today

\* FR-003, FR-005, FR-006, SC-004: requests for periods and payouts, however
\* they overlap, implement CashBook.
Cash == INSTANCE CashBook WITH
  book <- [p \in Periods |-> periods[p].status],
  paid <- [p \in Periods |-> [c \in Couriers |-> Len(payouts[p][c])]]
CashBookSpec == Cash!Spec

\* FR-009: a courier who is reported unpaid has not been paid by the time the
\* report is made, whatever payouts are recorded between its two reads.
ReportedAreUnpaid ==
  [][\A r \in Requests :
       reports'[r] # reports[r] => reports'[r] \cap Paid(req[r].period) = {}]_vars

\* What staff have paid for does not change: once the days of a period have
\* passed and every completion that was stamped in them has committed, no
\* later completion is counted in it.
SettledPeriodsAreStable ==
  [][\A p \in Periods :
       /\ periods[p].status = "closed"
       /\ periods[p].end < today
       /\ \A o \in Orders : completing[o] # NULL => completing[o].day > periods[p].end
       => Counted(p)' = Counted(p)]_vars

=============================================================================
