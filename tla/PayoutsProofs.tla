--------------------------- MODULE PayoutsProofs ----------------------------
(***************************************************************************)
(* Proofs about Payouts for any periods, couriers, orders, overlapping     *)
(* requests and days.                                                      *)
(*                                                                         *)
(* No request ever takes a status back, so the unguarded writes of         *)
(* closePeriod and recordPayout still find the period as it was checked;   *)
(* and time does not run back, so a day that has passed earns no more.     *)
(***************************************************************************)
EXTENDS Payouts, TLAPS

\* The clauses of IInv by name.
RequestInv(r) ==
  /\ req[r].pc = "close" => periods[req[r].period].status # "none"
  /\ req[r].pc = "pay" => /\ periods[req[r].period].status = "closed"
                          /\ req[r].courier \in Couriers

PaidInv ==
  \A p \in Periods, c \in Couriers :
    payouts[p][c] # <<>> => periods[p].status = "closed"

ClockInv ==
  \A o \in Orders : completing[o] # NULL => /\ earnings[o] = NULL
                                             /\ completing[o].day <= today

LEMMA Clauses ==
  IInv <=> TypeOK /\ (\A r \in Requests : RequestInv(r)) /\ PaidInv /\ ClockInv
BY DEF IInv, RequestInv, PaidInv, ClockInv

LEMMA InFlightType ==
  ASSUME TypeOK, NEW r \in Requests, req[r].pc # "idle"
  PROVE  req[r] \in Request
BY DEF TypeOK, Idle

LEMMA BeginIs ==
  ASSUME TypeOK, NEW r \in Requests, NEW pc \in {"close", "pay", "sum", "paid"},
         NEW p \in Periods, NEW c \in Couriers \cup {NULL}, Begin(r, pc, p, c)
  PROVE  /\ req' \in [Requests -> Request \cup {Idle}]
         /\ req'[r].pc = pc /\ req'[r].period = p /\ req'[r].courier = c
         /\ \A q \in Requests \ {r} : req'[q] = req[q]
BY DEF Begin, TypeOK, Request

LEMMA ReturnIs ==
  ASSUME TypeOK, NEW r \in Requests, Return(r)
  PROVE  /\ req' \in [Requests -> Request \cup {Idle}]
         /\ req'[r] = Idle
         /\ \A q \in Requests \ {r} : req'[q] = req[q]
BY DEF TypeOK, Return

\* A step of one request that leaves the tables alone.
LEMMA LocalStep ==
  ASSUME IInv, NEW r \in Requests,
         UNCHANGED <<periods, payouts, outside>>,
         req' \in [Requests -> Request \cup {Idle}],
         \A q \in Requests \ {r} : req'[q] = req[q],
         reports' \in [Requests -> SUBSET Couriers],
         RequestInv(r)'
  PROVE  IInv'
<1>1. TypeOK' /\ PaidInv' /\ ClockInv'
  BY DEF outside, IInv, TypeOK, PaidInv, ClockInv
<1>2. \A q \in Requests : RequestInv(q)'
  BY DEF IInv, RequestInv, outside
<1>3. QED
  BY <1>1, <1>2 DEF IInv, RequestInv, PaidInv, ClockInv

-----------------------------------------------------------------------------
LEMMA InitInv == Init => IInv
<1> SUFFICES ASSUME Init PROVE IInv
  OBVIOUS
<1>1. TypeOK
  BY LastDayAssumption DEF Init, TypeOK, NoPeriod, Days
<1>2. QED
  BY <1>1 DEF Init, IInv, Idle

LEMMA CreatePeriodInv ==
  ASSUME IInv, NEW p \in Periods, NEW start \in Days, NEW end \in Days,
         CreatePeriod(p, start, end)
  PROVE  IInv'
<1>1. TypeOK'
  BY DEF CreatePeriod, IInv, TypeOK, outside
<1>2. /\ \A q \in Periods : q # p => periods'[q] = periods[q]
      /\ periods'[p].status = "open" /\ periods[p].status = "none"
  BY DEF CreatePeriod, IInv, TypeOK
<1>3. \A r \in Requests : RequestInv(r)'
  <2> SUFFICES ASSUME NEW r \in Requests, req[r].pc # "idle" PROVE RequestInv(r)'
    BY DEF CreatePeriod, RequestInv
  <2>1. req[r].period \in Periods
    BY InFlightType DEF IInv, Request
  <2>2. QED
    BY <1>2, <2>1 DEF CreatePeriod, IInv, RequestInv
<1>4. PaidInv'
  BY <1>2 DEF CreatePeriod, IInv, PaidInv
<1>5. ClockInv'
  BY DEF CreatePeriod, IInv, ClockInv, outside
<1>6. QED
  BY <1>1, <1>3, <1>4, <1>5 DEF IInv, RequestInv, PaidInv, ClockInv

LEMMA CloseWriteInv ==
  ASSUME IInv, NEW r \in Requests, CloseWrite(r)
  PROVE  IInv'
<1> DEFINE p == req[r].period
<1>1. p \in Periods
  BY InFlightType DEF IInv, Request, CloseWrite
<1>2. periods' = [periods EXCEPT ![p] = [periods[p] EXCEPT !.status = "closed"]]
  BY <1>1 DEF CloseWrite, IInv, TypeOK
<1>3. /\ periods' \in [Periods -> [status : {"none", "open", "closed"}, start : Days, end : Days]]
      /\ \A q \in Periods : q # p => periods'[q] = periods[q]
      /\ periods'[p].status = "closed"
  BY <1>1, <1>2 DEF IInv, TypeOK
<1>4. /\ req' \in [Requests -> Request \cup {Idle}] /\ req'[r] = Idle
      /\ \A q \in Requests \ {r} : req'[q] = req[q]
  BY ReturnIs DEF CloseWrite, IInv
<1>5. TypeOK'
  BY <1>3, <1>4 DEF CloseWrite, IInv, TypeOK, outside
<1>6. \A q \in Requests : RequestInv(q)'
  <2> SUFFICES ASSUME NEW q \in Requests, q # r, req[q].pc # "idle"
               PROVE  RequestInv(q)'
    BY <1>4 DEF RequestInv, Idle
  <2>1. req[q].period \in Periods /\ req'[q] = req[q]
    BY <1>4, InFlightType DEF IInv, Request
  <2>2. QED
    BY <1>3, <2>1 DEF IInv, RequestInv
<1>7. PaidInv' /\ ClockInv'
  BY <1>3 DEF CloseWrite, IInv, PaidInv, ClockInv, outside
<1>8. QED
  BY <1>5, <1>6, <1>7 DEF IInv, RequestInv, PaidInv, ClockInv

LEMMA PayoutInsertInv ==
  ASSUME IInv, NEW r \in Requests, PayoutInsert(r)
  PROVE  IInv'
<1> DEFINE p == req[r].period
           c == req[r].courier
<1>1. p \in Periods /\ c \in Couriers /\ periods[p].status = "closed"
  BY InFlightType DEF IInv, Request, PayoutInsert
<1>2. /\ req' \in [Requests -> Request \cup {Idle}] /\ req'[r] = Idle
      /\ \A q \in Requests \ {r} : req'[q] = req[q]
  BY ReturnIs DEF PayoutInsert, IInv
<1>3. UNCHANGED <<periods, completing, earnings, today, reports>>
  BY DEF PayoutInsert, outside
<1>4. /\ payouts' \in [Periods -> [Couriers -> {<<>>} \cup {<<s>> : s \in Requests}]]
      /\ \A q \in Periods, d \in Couriers :
           payouts'[q][d] # <<>> => payouts[q][d] # <<>> \/ q = p
  <2>1. CASE payouts' = payouts
    BY <2>1 DEF IInv, TypeOK
  <2>2. CASE payouts[p][c] = <<>> /\ payouts' = [payouts EXCEPT ![p][c] = Append(@, r)]
    <3>1. Append(payouts[p][c], r) = <<r>>
      BY <2>2
    <3>2. payouts' = [payouts EXCEPT ![p] = [payouts[p] EXCEPT ![c] = <<r>>]]
      BY <1>1, <2>2, <3>1 DEF IInv, TypeOK
    <3>3. payouts[p] \in [Couriers -> {<<>>} \cup {<<s>> : s \in Requests}]
      BY <1>1 DEF IInv, TypeOK
    <3> DEFINE row == [payouts[p] EXCEPT ![c] = <<r>>]
    <3>4. row \in [Couriers -> {<<>>} \cup {<<s>> : s \in Requests}]
      BY <1>1, <3>3
    <3> HIDE DEF row
    <3>5. QED
      BY <1>1, <3>2, <3>4 DEF IInv, TypeOK, row
  <2>3. QED
    BY <2>1, <2>2 DEF PayoutInsert, UniqueViolation
<1>5. TypeOK'
  BY <1>2, <1>3, <1>4 DEF IInv, TypeOK
<1>6. \A q \in Requests : RequestInv(q)'
  BY <1>2, <1>3 DEF IInv, RequestInv, Idle
<1>7. PaidInv' /\ ClockInv'
  BY <1>1, <1>3, <1>4 DEF IInv, PaidInv, ClockInv
<1>8. QED
  BY <1>5, <1>6, <1>7 DEF IInv, RequestInv, PaidInv, ClockInv

LEMMA ReadInv ==
  ASSUME IInv, NEW r \in Requests, req[r].pc # "idle",
         NEW next \in {"idle", "sum", "paid"},
         NEW earners \in SUBSET Couriers, NEW paid \in SUBSET Couriers,
         Read(r, next, earners, paid)
  PROVE  IInv'
<1>1. UNCHANGED <<periods, payouts, outside>>
  BY DEF Read
<1>2. CASE next = "idle"
  <2>1. Return(r) /\ reports' = [reports EXCEPT ![r] = earners \ paid]
    BY <1>2 DEF Read
  <2>2. /\ req' \in [Requests -> Request \cup {Idle}] /\ req'[r] = Idle
        /\ \A q \in Requests \ {r} : req'[q] = req[q]
    BY <2>1, ReturnIs DEF IInv
  <2>3. reports' \in [Requests -> SUBSET Couriers]
    BY <2>1 DEF IInv, TypeOK
  <2>4. RequestInv(r)'
    BY <2>2 DEF RequestInv, Idle
  <2>5. QED
    BY <1>1, <2>2, <2>3, <2>4, LocalStep
<1>3. CASE next # "idle"
  <2>1. req[r] \in Request
    BY InFlightType DEF IInv
  <2> DEFINE row == [req[r] EXCEPT !.pc = next, !.earners = earners, !.paid = paid]
  <2>2. req' = [req EXCEPT ![r] = row] /\ UNCHANGED reports
    BY <1>3 DEF Read, IInv, TypeOK
  <2>3. row \in Request /\ row.pc = next
    BY <1>3, <2>1 DEF Request
  <2> HIDE DEF row
  <2>4. /\ req' \in [Requests -> Request \cup {Idle}]
        /\ req'[r] = row
        /\ \A q \in Requests \ {r} : req'[q] = req[q]
    BY <2>2, <2>3 DEF IInv, TypeOK
  <2>5. RequestInv(r)'
    BY <1>3, <2>3, <2>4 DEF RequestInv
  <2>6. reports' \in [Requests -> SUBSET Couriers]
    BY <2>2 DEF IInv, TypeOK
  <2>7. QED
    BY <1>1, <2>4, <2>5, <2>6, LocalStep
<1>4. QED
  BY <1>2, <1>3

LEMMA EarningsInv ==
  ASSUME IInv, UNCHANGED <<periods, payouts, req, reports>>,
         completing' \in [Orders -> Earning \cup {NULL}],
         earnings' \in [Orders -> Earning \cup {NULL}],
         today' \in Days, today <= today',
         \A o \in Orders : completing'[o] # NULL =>
           /\ earnings'[o] = NULL
           /\ completing'[o] = completing[o] \/ completing'[o].day = today
  PROVE  IInv'
<1>1. TypeOK' /\ PaidInv' /\ \A r \in Requests : RequestInv(r)'
  BY DEF IInv, TypeOK, PaidInv, RequestInv
<1>2. today \in Nat /\ today' \in Nat
  BY LastDayAssumption DEF IInv, TypeOK, Days
<1>3. ASSUME NEW o \in Orders, completing'[o] # NULL
      PROVE  completing'[o].day <= today'
  <2>1. CASE completing'[o] = completing[o]
    <3>1. completing[o] \in Earning /\ completing[o].day <= today
      BY <1>3, <2>1 DEF IInv, TypeOK
    <3>2. completing[o].day \in Nat
      BY <3>1 DEF Earning, Days
    <3>3. QED
      BY <1>2, <2>1, <3>1, <3>2
  <2>2. CASE completing'[o].day = today
    BY <1>2, <2>2
  <2>3. QED
    BY <1>3, <2>1, <2>2
<1>4. QED
  BY <1>1, <1>3 DEF IInv, RequestInv, PaidInv

(***************************************************************************)
(* Every reachable state satisfies the inductive invariant: a status that  *)
(* was checked still holds when the request writes.                        *)
(***************************************************************************)
THEOREM Invariance == Spec => []IInv
<1>1. IInv /\ [Next]_vars => IInv'
  <2> SUFFICES ASSUME IInv, [Next]_vars PROVE IInv'
    OBVIOUS
  <2>1. ASSUME NEW p \in Periods, NEW start \in Days, NEW end \in Days,
               CreatePeriod(p, start, end)
        PROVE  IInv'
    BY <2>1, CreatePeriodInv
  <2>2. ASSUME NEW r \in Requests, NEW p \in Periods, CloseLoad(r, p)
        PROVE  IInv'
    <3>1. RequestInv(r)'
      BY <2>2, BeginIs DEF CloseLoad, IInv, RequestInv
    <3>2. QED
      BY <2>2, <3>1, BeginIs, LocalStep DEF CloseLoad, IInv, TypeOK
  <2>3. ASSUME NEW r \in Requests, NEW p \in Periods, NEW c \in Couriers, PayoutLoad(r, p, c)
        PROVE  IInv'
    <3>1. RequestInv(r)'
      BY <2>3, BeginIs DEF PayoutLoad, Payable, IInv, RequestInv
    <3>2. QED
      BY <2>3, <3>1, BeginIs, LocalStep DEF PayoutLoad, IInv, TypeOK
  <2>4. ASSUME NEW r \in Requests, NEW p \in Periods, NEW pendingOnly \in BOOLEAN,
               ReportLoad(r, p, pendingOnly)
        PROVE  IInv'
    <3>1. RequestInv(r)'
      BY <2>4, BeginIs DEF ReportLoad, After, IInv, RequestInv
    <3>2. QED
      BY <2>4, <3>1, BeginIs, LocalStep DEF ReportLoad, After, IInv, TypeOK
  <2>5. ASSUME NEW r \in Requests, AggregateCourierEarnings(r)
        PROVE  IInv'
    <3>1. req[r] \in Request
      BY <2>5, InFlightType DEF AggregateCourierEarnings, IInv
    <3>2. Earners(req[r].period) \in SUBSET Couriers /\ req[r].paid \in SUBSET Couriers
      BY <3>1 DEF Earners, Counted, IInv, TypeOK, Earning, Request
    <3>3. QED
      BY <2>5, <3>2, ReadInv DEF AggregateCourierEarnings, After
  <2>6. ASSUME NEW r \in Requests, GetPaidCourierIds(r)
        PROVE  IInv'
    <3>1. req[r] \in Request
      BY <2>6, InFlightType DEF GetPaidCourierIds, IInv
    <3>2. Paid(req[r].period) \in SUBSET Couriers /\ req[r].earners \in SUBSET Couriers
      BY <3>1 DEF Paid, Request
    <3>3. QED
      BY <2>6, <3>2, ReadInv DEF GetPaidCourierIds, After
  <2>7. ASSUME NEW r \in Requests, Fail(r)
        PROVE  IInv'
    <3>1. RequestInv(r)'
      BY <2>7, ReturnIs DEF Fail, IInv, RequestInv, Idle
    <3>2. QED
      BY <2>7, <3>1, ReturnIs, LocalStep DEF Fail, IInv, TypeOK
  <2>8. ASSUME NEW o \in Orders, NEW c \in Couriers, StampEarning(o, c)
        PROVE  IInv'
    BY <2>8, EarningsInv DEF StampEarning, IInv, TypeOK, Earning, Days
  <2>9. ASSUME NEW o \in Orders, CommitEarning(o)
        PROVE  IInv'
    BY <2>9, EarningsInv DEF CommitEarning, IInv, TypeOK, Days
  <2>10. CASE NextDay
    BY <2>10, LastDayAssumption, EarningsInv DEF NextDay, IInv, TypeOK, Days
  <2>11. CASE UNCHANGED vars
    BY <2>11 DEF vars, outside, IInv, TypeOK
  <2>12. QED
    BY <2>1, <2>2, <2>3, <2>4, <2>5, <2>6, <2>7, <2>8, <2>9, <2>10, <2>11,
       CloseWriteInv, PayoutInsertInv DEF Next, Continue
<1>2. QED
  BY InitInv, <1>1, PTL DEF Spec

-----------------------------------------------------------------------------
(***************************************************************************)
(* Only CloseWrite and CreatePeriod write periods, only PayoutInsert       *)
(* writes payouts.                                                         *)
(***************************************************************************)
LEMMA WhoWrites ==
  ASSUME [Next]_vars
  PROVE  \/ \E p \in Periods, start, end \in Days : CreatePeriod(p, start, end)
         \/ \E r \in Requests : CloseWrite(r) \/ PayoutInsert(r)
         \/ UNCHANGED <<periods, payouts>>
BY DEF Next, vars, outside, Continue, CloseLoad, PayoutLoad, ReportLoad,
   AggregateCourierEarnings, GetPaidCourierIds, Read, Fail, StampEarning,
   CommitEarning, NextDay

LEMMA CreateTurns ==
  ASSUME IInv, NEW p \in Periods, NEW start \in Days, NEW end \in Days,
         CreatePeriod(p, start, end)
  PROVE  Cash!Turn(p, "none", "open")
BY DEF CreatePeriod, Cash!Turn, IInv, TypeOK

\* The second of two closings changes nothing.
LEMMA CloseTurns ==
  ASSUME IInv, NEW r \in Requests, NEW p \in Periods, p = req[r].period, CloseWrite(r)
  PROVE  Cash!Turn(p, "open", "closed") \/ UNCHANGED Cash!vars
<1>1. periods[p].status \in {"open", "closed"}
  BY DEF CloseWrite, IInv, TypeOK
<1>2. periods' = [periods EXCEPT ![p] = [periods[p] EXCEPT !.status = "closed"]]
      /\ payouts' = payouts
  BY DEF CloseWrite, IInv, TypeOK
<1>3. /\ \A q \in Periods : q # p => periods'[q] = periods[q]
      /\ periods'[p].status = "closed"
  BY <1>2 DEF IInv, TypeOK
<1>4. CASE periods[p].status = "open"
  <2>1. [q \in Periods |-> periods'[q].status]
          = [[q \in Periods |-> periods[q].status] EXCEPT ![p] = "closed"]
    BY <1>3
  <2>2. QED
    BY <1>2, <1>4, <2>1 DEF Cash!Turn
<1>5. CASE periods[p].status = "closed"
  <2>1. [q \in Periods |-> periods'[q].status] = [q \in Periods |-> periods[q].status]
    BY <1>3, <1>5
  <2>2. QED
    BY <1>2, <2>1 DEF Cash!vars
<1>6. QED
  BY <1>1, <1>4, <1>5

\* The second of two payouts is refused.
LEMMA InsertPays ==
  ASSUME IInv, NEW r \in Requests, NEW p \in Periods, NEW c \in Couriers,
         p = req[r].period, c = req[r].courier, PayoutInsert(r)
  PROVE  Cash!Pay(p, c) \/ UNCHANGED Cash!vars
<1> DEFINE count(table) == [q \in Periods |-> [d \in Couriers |-> Len(table[q][d])]]
<1>1. periods[p].status = "closed" /\ periods' = periods
  BY DEF PayoutInsert, IInv
<1>2. CASE payouts[p][c] # <<>>
  BY <1>1, <1>2 DEF PayoutInsert, UniqueViolation, Cash!vars
<1>3. CASE payouts[p][c] = <<>>
  <2>1. payouts' = [payouts EXCEPT ![p] = [payouts[p] EXCEPT ![c] = <<r>>]]
    <3>1. Append(payouts[p][c], r) = <<r>>
      BY <1>3
    <3>2. payouts' = [payouts EXCEPT ![p][c] = Append(@, r)]
      BY <1>3 DEF PayoutInsert, UniqueViolation
    <3>3. QED
      BY <3>1, <3>2 DEF IInv, TypeOK
  <2>2. \A q \in Periods, d \in Couriers :
          payouts'[q][d] = IF q = p /\ d = c THEN <<r>> ELSE payouts[q][d]
    BY <2>1 DEF IInv, TypeOK
  <2>3. Len(<<r>>) = 1 /\ Len(payouts[p][c]) = 0
    BY <1>3
  <2>4. \A q \in Periods, d \in Couriers :
          Len(payouts'[q][d]) = IF q = p /\ d = c THEN 1 ELSE Len(payouts[q][d])
    BY <2>2, <2>3
  <2> DEFINE counts == count(payouts)
             row == [counts[p] EXCEPT ![c] = 1]
  <2>5. counts[p] = [d \in Couriers |-> Len(payouts[p][d])] /\ counts[p][c] = 0
    BY <2>3
  <2>6. row = [d \in Couriers |-> IF d = c THEN 1 ELSE Len(payouts[p][d])]
    BY <2>5
  <2>7. [d \in Couriers |-> Len(payouts'[p][d])] = row
    BY <2>4, <2>6
  <2>8. \A q \in Periods \ {p} :
          [d \in Couriers |-> Len(payouts'[q][d])] = [d \in Couriers |-> Len(payouts[q][d])]
    BY <2>4
  <2>9. count(payouts') = [q \in Periods |-> IF q = p THEN row ELSE counts[q]]
    <3> HIDE DEF row
    <3>1. QED
      BY <2>7, <2>8
  <2>10. count(payouts') = [counts EXCEPT ![p] = row]
    <3> HIDE DEF row
    <3>1. QED
      BY <2>9
  <2>11. QED
    BY <1>1, <2>5, <2>10 DEF Cash!Pay
<1>4. QED
  BY <1>2, <1>3

(***************************************************************************)
(* The service implements the cash book: periods are closed for good, and  *)
(* a courier is paid for a period at most once and only then.              *)
(***************************************************************************)
THEOREM ImplementsCashBook == Spec => CashBookSpec
<1>1. Init => Cash!Init
  BY DEF Init, Cash!Init, NoPeriod
<1>2. IInv /\ [Next]_vars => [Cash!Next]_Cash!vars
  <2> SUFFICES ASSUME IInv, [Next]_vars PROVE [Cash!Next]_Cash!vars
    OBVIOUS
  <2>1. ASSUME NEW p \in Periods, NEW start \in Days, NEW end \in Days,
               CreatePeriod(p, start, end)
        PROVE  Cash!Next
    BY <2>1, CreateTurns DEF Cash!Next
  <2>2. ASSUME NEW r \in Requests, CloseWrite(r)
        PROVE  [Cash!Next]_Cash!vars
    <3>1. PICK p \in Periods : p = req[r].period
      BY <2>2, InFlightType DEF CloseWrite, IInv, Request
    <3>2. QED
      BY <2>2, <3>1, CloseTurns DEF Cash!Next
  <2>3. ASSUME NEW r \in Requests, PayoutInsert(r)
        PROVE  [Cash!Next]_Cash!vars
    <3>1. PICK p \in Periods, c \in Couriers : p = req[r].period /\ c = req[r].courier
      BY <2>3, InFlightType DEF PayoutInsert, IInv, Request
    <3>2. QED
      BY <2>3, <3>1, InsertPays DEF Cash!Next
  <2>4. CASE UNCHANGED <<periods, payouts>>
    BY <2>4 DEF Cash!vars
  <2>5. QED
    BY <2>1, <2>2, <2>3, <2>4, WhoWrites
<1>3. QED
  BY <1>1, <1>2, Invariance, PTL DEF Spec, CashBookSpec, Cash!Spec

(***************************************************************************)
(* Nobody is reported unpaid who has been paid by then: the payouts are    *)
(* the second read.                                                        *)
(***************************************************************************)
THEOREM ReportedAreUnpaidHolds == Spec => ReportedAreUnpaid
<1> DEFINE Truthful(r) == reports'[r] # reports[r] => reports'[r] \cap Paid(req[r].period) = {}
<1>1. IInv /\ [Next]_vars => [\A r \in Requests : Truthful(r)]_vars
  <2> SUFFICES ASSUME IInv, [Next]_vars, NEW r \in Requests, reports'[r] # reports[r]
               PROVE  reports'[r] \cap Paid(req[r].period) = {}
    OBVIOUS
  <2>1. GetPaidCourierIds(r)
    <3>1. \E q \in Requests : AggregateCourierEarnings(q) \/ GetPaidCourierIds(q)
      BY DEF Next, vars, Continue, CreatePeriod, CloseLoad, CloseWrite, PayoutLoad,
         PayoutInsert, ReportLoad, Fail, StampEarning, CommitEarning, NextDay
    <3>2. PICK q \in Requests : AggregateCourierEarnings(q) \/ GetPaidCourierIds(q)
      BY <3>1
    <3>3. GetPaidCourierIds(q)
      BY <3>2 DEF AggregateCourierEarnings, Read, After
    <3>4. q = r
      BY <3>3 DEF GetPaidCourierIds, Read, After, IInv, TypeOK
    <3>5. QED
      BY <3>3, <3>4
  <2>2. reports'[r] = req[r].earners \ Paid(req[r].period)
    BY <2>1 DEF GetPaidCourierIds, Read, After, IInv, TypeOK
  <2>3. QED
    BY <2>2
<1>2. QED
  BY <1>1, Invariance, PTL DEF Spec, ReportedAreUnpaid

(***************************************************************************)
(* The sums of a closed period stay once its days have passed and the      *)
(* completions stamped in them have committed.                             *)
(***************************************************************************)
THEOREM SettledPeriodsAreStableHolds == Spec => SettledPeriodsAreStable
<1> DEFINE Settled(p) ==
             /\ periods[p].status = "closed"
             /\ periods[p].end < today
             /\ \A o \in Orders : completing[o] # NULL => completing[o].day > periods[p].end
<1>1. IInv /\ [Next]_vars => [\A p \in Periods : Settled(p) => Counted(p)' = Counted(p)]_vars
  <2> SUFFICES ASSUME IInv, [Next]_vars, NEW p \in Periods, Settled(p)
               PROVE  Counted(p)' = Counted(p)
    OBVIOUS
  <2>1. periods'[p].start = periods[p].start /\ periods'[p].end = periods[p].end
    <3>1. CASE \E q \in Periods, start, end \in Days : CreatePeriod(q, start, end)
      BY <3>1 DEF CreatePeriod, IInv, TypeOK
    <3>2. CASE \E r \in Requests : CloseWrite(r)
      <4>1. PICK r \in Requests : CloseWrite(r)
        BY <3>2
      <4>2. req[r].period \in Periods
        BY <4>1, InFlightType DEF CloseWrite, IInv, Request
      <4>3. periods' = [periods EXCEPT ![req[r].period] =
                          [periods[req[r].period] EXCEPT !.status = "closed"]]
        BY <4>1, <4>2 DEF CloseWrite, IInv, TypeOK
      <4>4. QED
        BY <4>2, <4>3 DEF IInv, TypeOK
    <3>3. CASE UNCHANGED periods
      BY <3>3
    <3>4. QED
      BY <3>1, <3>2, <3>3, WhoWrites DEF PayoutInsert
  <2>2. CASE earnings' = earnings
    BY <2>1, <2>2 DEF Counted, InRange
  <2>3. ASSUME NEW o \in Orders, CommitEarning(o)
        PROVE  Counted(p)' = Counted(p)
    <3>1. /\ earnings' = [earnings EXCEPT ![o] = completing[o]]
          /\ completing[o] \in Earning /\ completing[o].day > periods[p].end
          /\ earnings[o] = NULL
      BY <2>3 DEF CommitEarning, IInv, TypeOK
    <3>2. completing[o].day \in Nat /\ periods[p].end \in Nat
      BY <3>1 DEF IInv, TypeOK, Earning, Days
    <3>3. earnings'[o] = completing[o] /\ \A q \in Orders \ {o} : earnings'[q] = earnings[q]
      BY <3>1 DEF IInv, TypeOK
    <3>4. o \notin Counted(p)
      BY <3>1 DEF Counted
    <3>5. ~(completing[o].day <= periods[p].end)
      BY <3>1, <3>2
    <3>6. o \notin Counted(p)'
      BY <2>1, <3>3, <3>5 DEF Counted, InRange
    <3>7. QED
      BY <2>1, <3>3, <3>4, <3>6 DEF Counted, InRange
  <2>4. QED
    BY <2>2, <2>3 DEF Next, vars, outside, Continue, CreatePeriod, CloseLoad, CloseWrite,
       PayoutLoad, PayoutInsert, ReportLoad, AggregateCourierEarnings, GetPaidCourierIds,
       Read, Fail, StampEarning, NextDay
<1>2. QED
  BY <1>1, Invariance, PTL DEF Spec, SettledPeriodsAreStable

=============================================================================
