------------------------ MODULE OrderLifecycleProofs ------------------------
(***************************************************************************)
(* Proofs about OrderLifecycle and OrderOverlaps for any number of orders, *)
(* couriers, staff, tenants, concurrent requests and failures.             *)
(*                                                                         *)
(* The inductive invariant IInv says that what a request carries from an   *)
(* earlier read is either still true (the winner of an order never         *)
(* changes; stamps, earnings and audit rows are never taken back) or is    *)
(* not used by the properties.  So the proof has two halves: every step    *)
(* only makes these facts grow (Grow, and the Keeps lemmas that follow     *)
(* from it), and the one request that takes the step keeps its own facts.  *)
(*                                                                         *)
(* The last part is about OrderOverlaps: IInvOverlaps says what is still   *)
(* true of what was read, as long as no other request was at work on the   *)
(* same order or for the same courier.                                     *)
(***************************************************************************)
EXTENDS OrderOverlaps, TLAPS

Grow ==
  /\ \A o \in Orders : winner[o] # NULL => winner'[o] = winner[o]
  /\ \A o \in Orders : orders[o].stamps \subseteq orders'[o].stamps
  /\ \A o \in Orders : HasRow(earnings, o) => HasRow(earnings', o)
  /\ audit \subseteq audit'

-----------------------------------------------------------------------------
\* A request that is being handled is a whole Request.
LEMMA InFlightType ==
  ASSUME TypeOK, NEW r \in Requests, InFlight(r)
  PROVE  req[r] \in Request
BY DEF TypeOK, InFlight, Idle

\* A request that did not move keeps its facts when the tables only grow.
LEMMA RequestKeeps ==
  ASSUME TypeOK, Grow, NEW r \in Requests, RequestInv(r), req'[r] = req[r]
  PROVE  RequestInv(r)'
<1>1. CASE ~InFlight(r)
  <2>1. req[r] = Idle
    BY <1>1 DEF TypeOK, InFlight, Request, Steps
  <2>. QED
    BY <2>1 DEF RequestInv, Moved, Audited, Idle
<1>2. CASE InFlight(r)
  <2>1. req[r] \in Request
    BY <1>2, InFlightType
  <2>2. /\ req[r].order \in Orders
        /\ req[r].user \in Users
        /\ req[r].user # NULL
    BY <2>1, UsersAssumption DEF Request
  <2>3. HasRow(earnings, req[r].order) => HasRow(earnings', req[r].order)
    BY <2>2 DEF Grow
  <2>4. HasEntry(req[r].order, req[r].to) => HasEntry(req[r].order, req[r].to)'
    BY DEF Grow, HasEntry
  <2>5. winner[req[r].order] # NULL => winner'[req[r].order] = winner[req[r].order]
    BY <2>2 DEF Grow
  <2>6. orders[req[r].order].stamps \subseteq orders'[req[r].order].stamps
    BY <2>2 DEF Grow
  <2>. QED
    BY <2>2, <2>3, <2>4, <2>5, <2>6
       DEF RequestInv, Moved, Audited, NeedsCallback
<1>. QED
  BY <1>1, <1>2

\* A row that was not written keeps its facts.
LEMMA OrderKeeps ==
  ASSUME Grow, NEW o \in Orders, OrderInv(o),
         orders'[o] = orders[o], winner'[o] = winner[o]
  PROVE  OrderInv(o)'
BY DEF Grow, OrderInv

\* So do the ledger tables, the audit and the queues.
LEMMA MoneyKeeps ==
  ASSUME TypeOK, Grow, MoneyInv, records' = records, earnings' = earnings
  PROVE  MoneyInv'
BY DEF Grow, MoneyInv

LEMMA AuditKeeps ==
  ASSUME TypeOK, Grow, AuditInv, audit' = audit
  PROVE  AuditInv'
<1>1. \A e \in audit : e.order \in Orders /\ e.actor # NULL
  BY UsersAssumption DEF TypeOK, AuditRow
<1>. QED
  BY <1>1 DEF Grow, AuditInv

LEMMA JobsKeep ==
  ASSUME TypeOK, Grow, JobInv, cancelJobs' = cancelJobs,
         callbackJobs' = callbackJobs
  PROVE  JobInv'
<1>1. \A j \in cancelJobs : j.order \in Orders /\ j.courier # NULL
  BY UsersAssumption DEF TypeOK, CancelJob, Users
<1>. QED
  BY <1>1 DEF Grow, JobInv, HasEntry

-----------------------------------------------------------------------------
(***************************************************************************)
(* What Begin, Goto and Return make of the request slots.                  *)
(***************************************************************************)
SlotsType == req' \in [Requests -> Request \cup {Idle}]
OthersSame(r) == \A q \in Requests \ {r} : req'[q] = req[q]

\* The slot of r is at another await, and remembers all it did (but seen).
Resumed(r, step) ==
  /\ req'[r] \in Request
  /\ req'[r].pc = step
  /\ req'[r].user = req[r].user
  /\ req'[r].order = req[r].order
  /\ req'[r].from = req[r].from
  /\ req'[r].to = req[r].to
  /\ req'[r].courier = req[r].courier

LEMMA GotoIs ==
  ASSUME TypeOK, NEW r \in Requests, InFlight(r), NEW step \in Steps,
         Goto(r, step)
  PROVE  /\ SlotsType
         /\ OthersSame(r)
         /\ Resumed(r, step)
<1>1. req[r] \in Request
  BY InFlightType
<1>2. req'[r] = [req[r] EXCEPT !.pc = step]
  BY DEF TypeOK, Goto
<1>3. req'[r] \in Request
  BY <1>1, <1>2 DEF Request
<1>. QED
  BY <1>1, <1>2, <1>3 DEF TypeOK, Goto, SlotsType, OthersSame, Resumed, Request

LEMMA ReturnIs ==
  ASSUME TypeOK, NEW r \in Requests, Return(r)
  PROVE  /\ SlotsType
         /\ OthersSame(r)
         /\ req'[r] = Idle
BY DEF TypeOK, Return, SlotsType, OthersSame

LEMMA BeginIs ==
  ASSUME TypeOK, NEW r \in Requests, NEW step \in Steps, NEW u \in Users,
         NEW o \in Orders, NEW from \in Statuses, NEW to \in Statuses,
         NEW courier \in Couriers \cup {NULL},
         Begin(r, step, u, o, from, to, courier)
  PROVE  /\ SlotsType
         /\ OthersSame(r)
         /\ req'[r] = [pc |-> step, user |-> u, order |-> o, from |-> from,
                       to |-> to, courier |-> courier, seen |-> NULL]
<1>1. req'[r] = [pc |-> step, user |-> u, order |-> o, from |-> from,
                 to |-> to, courier |-> courier, seen |-> NULL]
  BY DEF TypeOK, Begin, Idle
<1>2. req'[r] \in Request
  BY <1>1 DEF Request
<1>. QED
  BY <1>1, <1>2 DEF TypeOK, Begin, SlotsType, OthersSame

\* An idle slot owes nothing.
LEMMA IdleOwesNothing ==
  ASSUME NEW r \in Requests, req'[r] = Idle
  PROVE  RequestInv(r)'
BY DEF RequestInv, Moved, Audited, Idle

\* It is enough to look at the slot that moved.
LEMMA OneSlot ==
  ASSUME TypeOK, Grow, \A q \in Requests : RequestInv(q),
         NEW r \in Requests, OthersSame(r), RequestInv(r)'
  PROVE  \A q \in Requests : RequestInv(q)'
<1>1. ASSUME NEW q \in Requests, q # r PROVE RequestInv(q)'
  BY <1>1, RequestKeeps DEF OthersSame
<1>. QED
  BY <1>1

\* Steps that change nothing but a request slot, and perhaps the shifts or the
\* count of failures.
LEMMA SlotOnly ==
  ASSUME IInv, UNCHANGED <<tables, audit, outputs>>,
         onShift' \subseteq Couriers, failures' \in 0..MaxFailures,
         SlotsType, NEW r \in Requests, OthersSame(r), RequestInv(r)'
  PROVE  IInv'
<1>1. Grow
  BY DEF Grow, tables
<1>2. TypeOK'
  BY DEF IInv, TypeOK, tables, outputs, SlotsType
<1>3. \A o \in Orders : OrderInv(o)'
  BY <1>1, OrderKeeps DEF IInv, tables
<1>4. MoneyInv'
  BY <1>1, MoneyKeeps DEF IInv, tables
<1>5. \A q \in Requests : RequestInv(q)'
  BY <1>1, OneSlot DEF IInv
<1>6. AuditInv' /\ JobInv'
  BY <1>1, AuditKeeps, JobsKeep DEF IInv, outputs
<1>. QED
  BY <1>2, <1>3, <1>4, <1>5, <1>6 DEF IInv

-----------------------------------------------------------------------------
(***************************************************************************)
(* The reads: they only move a slot.                                       *)
(***************************************************************************)
LEMMA ClaimCheckShiftKeeps ==
  ASSUME IInv, NEW r \in Requests, NEW c \in Couriers, NEW o \in Orders,
         ClaimCheckShift(r, c, o)
  PROVE  IInv'
<1>1. /\ SlotsType
      /\ OthersSame(r)
      /\ req'[r] = [pc |-> "count", user |-> c, order |-> o,
                    from |-> "created", to |-> "assigned", courier |-> NULL,
                    seen |-> NULL]
  <2>1. Begin(r, "count", c, o, "created", "assigned", NULL) /\ TypeOK
    BY DEF ClaimCheckShift, IInv
  <2>2. /\ "count" \in Steps /\ "created" \in Statuses
        /\ "assigned" \in Statuses /\ c \in Users
        /\ NULL \in Couriers \cup {NULL}
    BY DEF Steps, Statuses, Users
  <2>. QED
    BY <2>1, <2>2, BeginIs
<1>2. RequestInv(r)'
  BY <1>1 DEF RequestInv, Moved, Audited
<1>. QED
  BY <1>1, <1>2, SlotOnly DEF ClaimCheckShift, IInv, TypeOK

LEMMA AdvanceLoadKeeps ==
  ASSUME IInv, NEW r \in Requests, NEW c \in Couriers, NEW o \in Orders,
         NEW target \in {"picked_up", "in_delivery", "completed"},
         AdvanceLoad(r, c, o, target)
  PROVE  IInv'
<1>1. orders[o].status \in Statuses /\ target \in Statuses
  BY DEF IInv, TypeOK, Row, Statuses
<1>2. /\ SlotsType
      /\ OthersSame(r)
      /\ req'[r] = [pc |-> "write", user |-> c, order |-> o,
                    from |-> orders[o].status, to |-> target,
                    courier |-> NULL, seen |-> NULL]
  <2>1. /\ Begin(r, "write", c, o, orders[o].status, target, NULL)
        /\ TypeOK
    BY DEF AdvanceLoad, IInv
  <2>. QED
    BY <1>1, <2>1, BeginIs DEF Steps, Users
<1>3. c = winner[o] /\ winner' = winner
  BY UsersAssumption
     DEF AdvanceLoad, MayAdvance, IInv, OrderInv, Users, tables
<1>4. RequestInv(r)'
  BY <1>2, <1>3 DEF RequestInv, Moved, Audited
<1>. QED
  BY <1>2, <1>4, SlotOnly DEF AdvanceLoad, IInv, TypeOK

LEMMA CancelLoadKeeps ==
  ASSUME IInv, NEW r \in Requests, NEW u \in Staff, NEW o \in Orders,
         CancelLoad(r, u, o)
  PROVE  IInv'
<1>1. /\ orders[o].status \in Statuses
      /\ orders[o].courier_id \in Couriers \cup {NULL}
      /\ OperatorTransition[orders[o].status] = "cancelled"
  BY DEF IInv, TypeOK, Row, CancelLoad, MayCancel, OperatorTransition
<1>2. /\ SlotsType
      /\ OthersSame(r)
      /\ req'[r] = [pc |-> "void", user |-> u, order |-> o,
                    from |-> orders[o].status, to |-> "cancelled",
                    courier |-> orders[o].courier_id, seen |-> NULL]
  <2>1. /\ Begin(r, "void", u, o, orders[o].status, "cancelled",
                 orders[o].courier_id)
        /\ TypeOK
    BY <1>1 DEF CancelLoad, MayCancel, IInv
  <2>2. "void" \in Steps /\ "cancelled" \in Statuses /\ u \in Users
    BY DEF Steps, Statuses, Users
  <2>. QED
    BY <1>1, <2>1, <2>2, BeginIs
<1>3. /\ orders[o].courier_id \in {NULL, winner[o]}
      /\ winner' = winner
      /\ OwnerOf[u] = OwnerOf[o]
  BY DEF CancelLoad, MayCancel, IInv, OrderInv, tables
<1>4. RequestInv(r)'
  BY <1>2, <1>3 DEF RequestInv, Moved, Audited
<1>. QED
  BY <1>2, <1>4, SlotOnly DEF CancelLoad, MayCancel, IInv, TypeOK

LEMMA ClaimCountKeeps ==
  ASSUME IInv, NEW r \in Requests, ClaimCount(r)
  PROVE  IInv'
<1>1. CASE Return(r)
  BY <1>1, ReturnIs, IdleOwesNothing, SlotOnly DEF ClaimCount, IInv, TypeOK
<1>2. CASE Goto(r, "take")
  <2>1. InFlight(r)
    BY DEF ClaimCount, InFlight
  <2>2. /\ SlotsType
        /\ OthersSame(r)
        /\ Resumed(r, "take")
    BY <1>2, <2>1, GotoIs DEF IInv, Steps
  <2>3. winner' = winner
    BY DEF ClaimCount, tables
  <2>4. RequestInv(r)
    BY DEF IInv
  <2>5. RequestInv(r)'
    BY <2>2, <2>3, <2>4
       DEF RequestInv, Moved, Audited, ClaimCount, Resumed
  <2>. QED
    BY <2>2, <2>5, SlotOnly DEF ClaimCount, IInv, TypeOK
<1>. QED
  BY <1>1, <1>2 DEF ClaimCount

LEMMA ReloadKeeps ==
  ASSUME IInv, NEW r \in Requests, Reload(r)
  PROVE  IInv'
<1>1. req[r] \in Request
  BY InFlightType DEF Reload, InFlight, IInv
<1>2. orders[req[r].order].status \in Statuses
  BY <1>1 DEF IInv, TypeOK, Row, Request
<1>3. req'[r] = [req[r] EXCEPT !.pc = "audit",
                               !.seen = orders[req[r].order].status]
  BY DEF Reload, SeenNow, IInv, TypeOK
<1>4. Resumed(r, "audit")
  BY <1>1, <1>2, <1>3 DEF Resumed, Request, Steps
<1>5. SlotsType /\ OthersSame(r)
  BY <1>4 DEF Reload, IInv, TypeOK, SlotsType, OthersSame, Resumed
<1>6. winner' = winner /\ earnings' = earnings /\ orders' = orders
  BY DEF Reload, tables
<1>7. RequestInv(r) /\ Moved(r)
  BY DEF IInv, Reload, Moved
<1>8. RequestInv(r)'
  BY <1>4, <1>6, <1>7 DEF RequestInv, Moved, Audited, Resumed, HasRow
<1>. QED
  BY <1>5, <1>8, SlotOnly DEF Reload, IInv, TypeOK

LEMMA FailKeeps ==
  ASSUME IInv, NEW r \in Requests, Fail(r)
  PROVE  IInv'
<1>1. failures' \in 0..MaxFailures
  BY FailuresAssumption DEF Fail, IInv, TypeOK
<1>. QED
  BY <1>1, ReturnIs, IdleOwesNothing, SlotOnly DEF Fail, IInv, TypeOK

\* Opening and closing a shift move nothing but onShift.
LEMMA ShiftKeeps ==
  ASSUME IInv, NEW c \in Couriers, OpenShift(c) \/ CloseShift(c)
  PROVE  IInv'
<1>1. /\ UNCHANGED <<tables, audit, outputs, req, failures>>
      /\ onShift' \subseteq Couriers
  BY DEF OpenShift, CloseShift, IInv, TypeOK
<1>2. Grow
  BY <1>1 DEF Grow, tables
<1>3. TypeOK'
  BY <1>1 DEF IInv, TypeOK, tables, outputs
<1>4. \A o \in Orders : OrderInv(o)'
  BY <1>1, <1>2, OrderKeeps DEF IInv, tables
<1>5. \A q \in Requests : RequestInv(q)'
  BY <1>1, <1>2, RequestKeeps DEF IInv
<1>6. MoneyInv' /\ AuditInv' /\ JobInv'
  BY <1>1, <1>2, MoneyKeeps, AuditKeeps, JobsKeep DEF IInv, tables, outputs
<1>. QED
  BY <1>3, <1>4, <1>5, <1>6 DEF IInv

-----------------------------------------------------------------------------
(***************************************************************************)
(* The writes to the orders table.                                         *)
(***************************************************************************)
LEMMA ClaimTakeKeeps ==
  ASSUME IInv, NEW r \in Requests, ClaimTake(r)
  PROVE  IInv'
<1> DEFINE o == req[r].order
           c == req[r].user
<1>1. req[r] \in Request /\ InFlight(r)
  BY InFlightType DEF ClaimTake, InFlight, IInv
<1>2. o \in Orders /\ c \in Couriers /\ req[r].to = "assigned" /\ c # NULL
  BY <1>1, UsersAssumption DEF ClaimTake, IInv, RequestInv, Request, Users
<1>3. CASE ~Claimable(o, c)
  BY <1>3, ReturnIs, IdleOwesNothing, SlotOnly
     DEF ClaimTake, Update, AfterUpdate, IInv, TypeOK, tables
<1>4. CASE Claimable(o, c)
  <2>1. /\ orders' = [orders EXCEPT ![o] = Stamped(@, "assigned", c)]
        /\ winner' = [winner EXCEPT ![o] = c]
        /\ Goto(r, "reload")
        /\ UNCHANGED <<onShift, records, earnings, audit, outputs, failures>>
    BY <1>4 DEF ClaimTake, Update, AfterUpdate
  <2>2. SlotsType /\ OthersSame(r) /\ Resumed(r, "reload")
    BY <1>1, <2>1, GotoIs DEF IInv, Steps
  <2>3. winner[o] = NULL /\ OwnerOf[c] = OwnerOf[o]
    BY <1>2, <1>4 DEF Claimable, IInv, OrderInv
  <2>4. /\ winner'[o] = c
        /\ orders'[o].courier_id = c
        /\ orders'[o].status = "assigned"
        /\ orders'[o].stamps = orders[o].stamps \cup {"assigned"}
        /\ orders'[o] \in Row
    BY <1>2, <2>1 DEF IInv, TypeOK, Stamped, Row, Statuses
  <2>5. Grow
    BY <2>1, <2>3, <2>4 DEF Grow, IInv, TypeOK, HasRow
  <2>6. TypeOK'
    BY <1>2, <2>1, <2>2, <2>4 DEF IInv, TypeOK, outputs, SlotsType
  <2>7. ASSUME NEW x \in Orders PROVE OrderInv(x)'
    <3>1. CASE x = o
      BY <3>1, <2>3, <2>4 DEF OrderInv
    <3>2. CASE x # o
      BY <3>2, <2>1, <2>5, OrderKeeps DEF IInv, TypeOK
    <3>. QED
      BY <3>1, <3>2
  <2>8. RequestInv(r)'
    <3>1. RequestInv(r) /\ req[r].pc = "take"
      BY DEF IInv, ClaimTake
    <3>2. req[r].courier = NULL
      BY <2>3, <3>1 DEF RequestInv
    <3>. QED
      BY <1>2, <2>2, <2>3, <2>4, <3>2
         DEF RequestInv, Moved, Audited, Resumed
  <2>9. MoneyInv' /\ AuditInv' /\ JobInv'
    BY <2>1, <2>5, MoneyKeeps, AuditKeeps, JobsKeep DEF IInv, outputs
  <2>. QED
    BY <2>2, <2>5, <2>6, <2>7, <2>8, <2>9, OneSlot DEF IInv
<1>. QED
  BY <1>3, <1>4

LEMMA AdvanceWriteKeeps ==
  ASSUME IInv, NEW r \in Requests, AdvanceWrite(r)
  PROVE  IInv'
<1> DEFINE o == req[r].order
<1>1. req[r] \in Request /\ InFlight(r)
  BY InFlightType DEF AdvanceWrite, InFlight, IInv
<1>2. /\ o \in Orders
      /\ req[r].to \in {"picked_up", "in_delivery"}
      /\ req[r].user = winner[o]
      /\ winner[o] # NULL
      /\ OwnerOf[winner[o]] = OwnerOf[o]
  BY <1>1, UsersAssumption
     DEF AdvanceWrite, PayingStatus, IInv, RequestInv, OrderInv, Request
<1>3. /\ orders' = [orders EXCEPT ![o] =
                       Stamped(@, req[r].to, orders[o].courier_id)]
      /\ Goto(r, "reload")
      /\ UNCHANGED <<onShift, records, earnings, winner, audit, outputs,
                     failures>>
  BY DEF AdvanceWrite, Update, AfterUpdate
<1>4. SlotsType /\ OthersSame(r) /\ Resumed(r, "reload")
  BY <1>1, <1>3, GotoIs DEF IInv, Steps
<1>5. orders[o] \in Row
  BY <1>2 DEF IInv, TypeOK
<1>6. /\ orders'[o].status = req[r].to
      /\ orders'[o].courier_id = orders[o].courier_id
      /\ orders'[o].stamps = orders[o].stamps \cup {req[r].to}
      /\ orders'[o] \in Row
  BY <1>2, <1>3, <1>5 DEF IInv, TypeOK, Row, Statuses, Stamped
<1>7. Grow
  BY <1>3, <1>6 DEF Grow, IInv, TypeOK, HasRow
<1>8. TypeOK'
  BY <1>2, <1>3, <1>4, <1>6 DEF IInv, TypeOK, outputs, SlotsType
<1>9. ASSUME NEW x \in Orders PROVE OrderInv(x)'
  <2>1. CASE x = o
    BY <2>1, <1>2, <1>3, <1>6 DEF OrderInv, IInv
  <2>2. CASE x # o
    BY <2>2, <1>3, <1>7, OrderKeeps DEF IInv, TypeOK
  <2>. QED
    BY <2>1, <2>2
<1>10. RequestInv(r)'
  <2>1. RequestInv(r) /\ req[r].pc = "write"
    BY DEF IInv, AdvanceWrite
  <2>. QED
    BY <1>2, <1>3, <1>4, <1>6, <2>1 DEF RequestInv, Moved, Audited, Resumed
<1>11. MoneyInv' /\ AuditInv' /\ JobInv'
  BY <1>3, <1>7, MoneyKeeps, AuditKeeps, JobsKeep DEF IInv, outputs
<1>. QED
  BY <1>4, <1>7, <1>8, <1>9, <1>10, <1>11, OneSlot DEF IInv

LEMMA CompleteWriteKeeps ==
  ASSUME IInv, NEW r \in Requests, CompleteWrite(r)
  PROVE  IInv'
<1> DEFINE o == req[r].order
           c == req[r].user
<1>1. req[r] \in Request /\ InFlight(r)
  BY InFlightType DEF CompleteWrite, InFlight, IInv
<1>2. /\ o \in Orders
      /\ req[r].to = "completed"
      /\ req[r].user = winner[o]
      /\ winner[o] \in Couriers
      /\ winner[o] # NULL
      /\ OwnerOf[winner[o]] = OwnerOf[o]
  <2>1. o \in Orders /\ c # NULL
    BY <1>1, UsersAssumption DEF Request
  <2>2. c = winner[o] /\ req[r].to = "completed"
    BY DEF CompleteWrite, PayingStatus, IInv, RequestInv
  <2>3. winner[o] \in Couriers
    BY <2>1, <2>2 DEF IInv, TypeOK
  <2>4. OwnerOf[winner[o]] = OwnerOf[o]
    BY <2>1, <2>2 DEF IInv, OrderInv
  <2>. QED
    BY <2>1, <2>2, <2>3, <2>4
<1>3. CASE HasRow(records, o) \/ HasRow(earnings, o)
  BY <1>3, ReturnIs, IdleOwesNothing, SlotOnly
     DEF CompleteWrite, UniqueViolation, Update, AfterUpdate, IInv, TypeOK, tables
<1>4. CASE ~(HasRow(records, o) \/ HasRow(earnings, o))
  <2>1. /\ orders' = [orders EXCEPT ![o] =
                         Stamped(@, "completed", orders[o].courier_id)]
        /\ records' = Insert(records, o, c)
        /\ earnings' = Insert(earnings, o, c)
        /\ Goto(r, "reload")
        /\ UNCHANGED <<onShift, winner, audit, outputs, failures>>
    BY <1>2, <1>4 DEF CompleteWrite, UniqueViolation, Update, AfterUpdate
  <2>2. SlotsType /\ OthersSame(r) /\ Resumed(r, "reload")
    BY <1>1, <2>1, GotoIs DEF IInv, Steps
  <2>3. orders[o] \in Row
    BY <1>2 DEF IInv, TypeOK
  <2>4. /\ orders'[o].status = "completed"
        /\ orders'[o].courier_id = orders[o].courier_id
        /\ orders'[o].stamps = orders[o].stamps \cup {"completed"}
        /\ orders'[o] \in Row
    BY <1>2, <2>1, <2>3 DEF IInv, TypeOK, Row, Statuses, Stamped
  <2>5. /\ records' \in [Orders -> Seq(Couriers)]
        /\ earnings' \in [Orders -> Seq(Couriers)]
        /\ earnings'[o] = Append(<<>>, c)
        /\ \A x \in Orders \ {o} : earnings'[x] = earnings[x]
    <3>1. records \in [Orders -> Seq(Couriers)] /\ earnings \in [Orders -> Seq(Couriers)]
      BY DEF IInv, TypeOK
    <3>2. earnings[o] = <<>> /\ records[o] = <<>>
      BY <1>4 DEF HasRow
    <3>3. c \in Couriers /\ Append(<<>>, c) \in Seq(Couriers)
      BY <1>2
    <3>. QED
      BY <1>2, <2>1, <3>1, <3>2, <3>3 DEF Insert
  <2>6. earnings'[o] = <<c>> /\ HasRow(earnings', o)
    BY <1>2, <2>5 DEF HasRow
  <2>7. Grow
    BY <2>1, <2>4, <2>5, <2>6 DEF Grow, IInv, TypeOK, HasRow
  <2>8. TypeOK'
    BY <1>2, <2>1, <2>2, <2>4, <2>5 DEF IInv, TypeOK, outputs, SlotsType
  <2>9. ASSUME NEW x \in Orders PROVE OrderInv(x)'
    <3>1. CASE x = o
      BY <3>1, <1>2, <2>1, <2>4, <2>6 DEF OrderInv, IInv
    <3>2. CASE x # o
      BY <3>2, <2>1, <2>7, OrderKeeps DEF IInv, TypeOK
    <3>. QED
      BY <3>1, <3>2
  <2>10. RequestInv(r)'
    <3>1. RequestInv(r) /\ req[r].pc = "write"
      BY DEF IInv, CompleteWrite
    <3>. QED
      BY <1>2, <2>1, <2>2, <2>4, <2>6, <3>1
         DEF RequestInv, Moved, Audited, Resumed
  <2>11. MoneyInv'
    <3>1. records = earnings /\ records' = earnings'
      BY <2>1 DEF MoneyInv, IInv
    <3>2. ASSUME NEW x \in Orders, HasRow(earnings', x)
          PROVE  winner'[x] # NULL /\ earnings'[x] = <<winner'[x]>>
      BY <3>2, <1>2, <2>1, <2>5, <2>6 DEF MoneyInv, IInv, HasRow
    <3>. QED
      BY <3>1, <3>2 DEF MoneyInv
  <2>12. AuditInv' /\ JobInv'
    BY <2>1, <2>7, AuditKeeps, JobsKeep DEF IInv, outputs
  <2>. QED
    BY <2>2, <2>7, <2>8, <2>9, <2>10, <2>11, <2>12, OneSlot DEF IInv
<1>. QED
  BY <1>3, <1>4

LEMMA CancelVoidKeeps ==
  ASSUME IInv, NEW r \in Requests, CancelVoid(r)
  PROVE  IInv'
<1> DEFINE o == req[r].order
<1>1. req[r] \in Request /\ InFlight(r)
  BY InFlightType DEF CancelVoid, InFlight, IInv
<1>2. /\ o \in Orders
      /\ req[r].to = "cancelled"
      /\ OwnerOf[req[r].user] = OwnerOf[o]
  BY <1>1 DEF CancelVoid, IInv, RequestInv, Request
<1>3. CASE orders[o].status \in Terminal
  BY <1>3, ReturnIs, IdleOwesNothing, SlotOnly
     DEF CancelVoid, Update, AfterUpdate, IInv, TypeOK, tables
<1>4. CASE orders[o].status \notin Terminal
  <2>1. /\ orders' = [orders EXCEPT ![o] = Stamped(@, "cancelled", NULL)]
        /\ Goto(r, "reload")
        /\ UNCHANGED <<onShift, records, earnings, winner, audit, outputs,
                       failures>>
    BY <1>4 DEF CancelVoid, Update, AfterUpdate
  <2>2. SlotsType /\ OthersSame(r) /\ Resumed(r, "reload")
    BY <1>1, <2>1, GotoIs DEF IInv, Steps
  <2>3. /\ orders'[o].status = "cancelled"
        /\ orders'[o].courier_id = NULL
        /\ orders'[o].stamps = orders[o].stamps \cup {"cancelled"}
        /\ orders'[o] \in Row
    BY <1>2, <2>1 DEF IInv, TypeOK, Stamped, Row, Statuses
  <2>4. Grow
    BY <2>1, <2>3 DEF Grow, IInv, TypeOK, HasRow
  <2>5. TypeOK'
    BY <2>1, <2>2, <2>3 DEF IInv, TypeOK, outputs, SlotsType
  <2>6. ASSUME NEW x \in Orders PROVE OrderInv(x)'
    <3>1. CASE x = o
      BY <3>1, <1>2, <2>1, <2>3 DEF OrderInv, IInv
    <3>2. CASE x # o
      BY <3>2, <2>1, <2>4, OrderKeeps DEF IInv, TypeOK
    <3>. QED
      BY <3>1, <3>2
  <2>7. RequestInv(r)'
    <3>1. RequestInv(r) /\ req[r].pc = "void"
      BY DEF IInv, CancelVoid
    <3>. QED
      BY <1>2, <2>1, <2>2, <2>3, <3>1
         DEF RequestInv, Moved, Audited, Resumed
  <2>8. MoneyInv' /\ AuditInv' /\ JobInv'
    BY <2>1, <2>4, MoneyKeeps, AuditKeeps, JobsKeep DEF IInv, outputs
  <2>. QED
    BY <2>2, <2>4, <2>5, <2>6, <2>7, <2>8, OneSlot DEF IInv
<1>. QED
  BY <1>3, <1>4

-----------------------------------------------------------------------------
(***************************************************************************)
(* What follows the UPDATE: the audit row, the queues and the rooms.       *)
(***************************************************************************)
LEMMA AppendAuditEntryKeeps ==
  ASSUME IInv, NEW r \in Requests, AppendAuditEntry(r)
  PROVE  IInv'
<1> DEFINE e == [order |-> req[r].order, from |-> req[r].from,
                 to |-> req[r].to, actor |-> req[r].user]
<1>1. req[r] \in Request /\ InFlight(r) /\ RequestInv(r) /\ Moved(r)
  BY InFlightType DEF AppendAuditEntry, InFlight, Moved, IInv
<1>2. /\ e \in AuditRow
      /\ e.order = req[r].order /\ e.to = req[r].to /\ e.actor = req[r].user
  BY <1>1 DEF Request, AuditRow
<1>3. audit' = audit \cup {e} /\ UNCHANGED <<tables, onShift, outputs, failures>>
  BY DEF AppendAuditEntry, Entry
<1>4. PICK step \in {"tell", "emit"} :
        Goto(r, step) /\ (step = "tell" => req[r].courier # NULL)
  BY DEF AppendAuditEntry, AfterAudit
<1>5. SlotsType /\ OthersSame(r) /\ Resumed(r, step)
  <2>1. step \in Steps
    BY <1>4 DEF Steps
  <2>. QED
    BY <1>1, <1>4, <2>1, GotoIs DEF IInv
<1>6. Grow
  BY <1>3 DEF Grow, tables
<1>7. TypeOK'
  BY <1>2, <1>3, <1>5 DEF IInv, TypeOK, tables, outputs, SlotsType
<1>8. \A o \in Orders : OrderInv(o)'
  BY <1>3, <1>6, OrderKeeps DEF IInv, tables
<1>9. winner' = winner /\ earnings' = earnings /\ orders' = orders
  BY <1>3 DEF tables
<1>10. \E x \in audit' : x.order = req[r].order /\ x.to = req[r].to
  <2>1. e \in audit'
    BY <1>3
  <2>. QED
    BY <1>2, <2>1
<1>11. RequestInv(r)'
  BY <1>1, <1>4, <1>5, <1>9, <1>10
     DEF RequestInv, Moved, Audited, Resumed, HasEntry
<1>12. AuditInv'
  <2>1. /\ OwnerOf[e.order] = OwnerOf[e.actor]
        /\ e.to \in orders[e.order].stamps
        /\ e.to = "assigned" => e.actor = winner[e.order]
        /\ e.to = "completed" => HasRow(earnings, e.order)
    BY <1>1, <1>2 DEF RequestInv
  <2>2. AuditInv /\ audit' = audit \cup {e}
    BY <1>3 DEF IInv
  <2>. QED
    BY <1>9, <2>1, <2>2 DEF AuditInv, HasRow
<1>13. MoneyInv' /\ JobInv'
  BY <1>3, <1>6, MoneyKeeps, JobsKeep DEF IInv, tables, outputs
<1>. QED
  BY <1>5, <1>6, <1>7, <1>8, <1>11, <1>12, <1>13, OneSlot DEF IInv

LEMMA TellCourierKeeps ==
  ASSUME IInv, NEW r \in Requests, TellCourier(r)
  PROVE  IInv'
<1> DEFINE j == [order |-> req[r].order, courier |-> req[r].courier]
<1>1. req[r] \in Request /\ InFlight(r) /\ RequestInv(r) /\ Moved(r) /\ Audited(r)
  BY InFlightType DEF TellCourier, InFlight, Moved, Audited, IInv
<1>2. req[r].courier = winner[req[r].order] /\ req[r].courier # NULL
  BY <1>1 DEF RequestInv, TellCourier
<1>3. j \in CancelJob /\ j.courier = winner[j.order]
  BY <1>1, <1>2 DEF Request, CancelJob
<1>4. /\ cancelJobs' = cancelJobs \cup {j}
      /\ Goto(r, "emit")
      /\ UNCHANGED <<tables, onShift, audit, callbackJobs, staffRoom,
                     courierRoom, failures>>
  BY DEF TellCourier
<1>5. SlotsType /\ OthersSame(r) /\ Resumed(r, "emit")
  BY <1>1, <1>4, GotoIs DEF IInv, Steps
<1>6. Grow
  BY <1>4 DEF Grow, tables
<1>7. TypeOK'
  BY <1>3, <1>4, <1>5 DEF IInv, TypeOK, tables, SlotsType
<1>8. \A o \in Orders : OrderInv(o)'
  BY <1>4, <1>6, OrderKeeps DEF IInv, tables
<1>9. RequestInv(r)'
  BY <1>1, <1>4, <1>5 DEF RequestInv, Moved, Audited, Resumed, tables, HasEntry
<1>10. MoneyInv' /\ AuditInv'
  BY <1>4, <1>6, MoneyKeeps, AuditKeeps DEF IInv, tables
<1>11. JobInv'
  BY <1>3, <1>4 DEF JobInv, IInv, tables, HasEntry
<1>. QED
  BY <1>5, <1>6, <1>7, <1>8, <1>9, <1>10, <1>11, OneSlot DEF IInv

LEMMA EmitStatusChangedKeeps ==
  ASSUME IInv, NEW r \in Requests, EmitStatusChanged(r)
  PROVE  IInv'
<1>1. req[r] \in Request /\ InFlight(r) /\ RequestInv(r) /\ Moved(r) /\ Audited(r)
  BY InFlightType DEF EmitStatusChanged, InFlight, Moved, Audited, IInv
<1>2. UNCHANGED <<tables, onShift, audit, cancelJobs, callbackJobs, failures>>
  BY DEF EmitStatusChanged
<1>3. /\ staffRoom' \in [Orders -> Statuses \cup {NULL}]
      /\ courierRoom' \in [Orders -> Statuses \cup {NULL}]
  BY <1>1 DEF EmitStatusChanged, IInv, TypeOK, Request
<1>4. SlotsType /\ OthersSame(r) /\ RequestInv(r)'
  <2>1. CASE NeedsCallback(r)
    <3>1. Resumed(r, "callback") /\ SlotsType /\ OthersSame(r)
      BY <1>1, <2>1, GotoIs DEF EmitStatusChanged, IInv, Steps
    <3>. QED
      BY <1>1, <1>2, <2>1, <3>1
         DEF RequestInv, Moved, Audited, Resumed, tables, HasEntry,
             NeedsCallback
  <2>2. CASE ~NeedsCallback(r)
    BY <2>2, ReturnIs, IdleOwesNothing DEF EmitStatusChanged, IInv
  <2>. QED
    BY <2>1, <2>2
<1>5. Grow
  BY <1>2 DEF Grow, tables
<1>6. TypeOK'
  BY <1>2, <1>3, <1>4 DEF IInv, TypeOK, tables, SlotsType
<1>7. \A o \in Orders : OrderInv(o)'
  BY <1>2, <1>5, OrderKeeps DEF IInv, tables
<1>8. MoneyInv' /\ AuditInv' /\ JobInv'
  BY <1>2, <1>5, MoneyKeeps, AuditKeeps, JobsKeep DEF IInv, tables
<1>. QED
  BY <1>4, <1>5, <1>6, <1>7, <1>8, OneSlot DEF IInv

LEMMA EnqueueCallbackKeeps ==
  ASSUME IInv, NEW r \in Requests, EnqueueCallback(r)
  PROVE  IInv'
<1> DEFINE j == [order |-> req[r].order, status |-> req[r].to]
<1>1. req[r] \in Request /\ RequestInv(r) /\ Audited(r)
  BY InFlightType DEF EnqueueCallback, InFlight, Audited, IInv
<1>2. NeedsCallback(r) /\ HasEntry(req[r].order, req[r].to)
  BY <1>1 DEF RequestInv, EnqueueCallback
<1>3. /\ j \in CallbackJob
      /\ j.order \in WithCallback
      /\ HasEntry(j.order, j.status)
  BY <1>1, <1>2 DEF Request, CallbackJob, NeedsCallback
<1>4. /\ callbackJobs' = callbackJobs \cup {j}
      /\ Return(r)
      /\ UNCHANGED <<tables, onShift, audit, cancelJobs, staffRoom,
                     courierRoom, failures>>
  BY DEF EnqueueCallback
<1>5. SlotsType /\ OthersSame(r) /\ RequestInv(r)'
  BY <1>4, ReturnIs, IdleOwesNothing DEF IInv
<1>6. Grow
  BY <1>4 DEF Grow, tables
<1>7. TypeOK'
  BY <1>3, <1>4, <1>5 DEF IInv, TypeOK, tables, SlotsType
<1>8. \A o \in Orders : OrderInv(o)'
  BY <1>4, <1>6, OrderKeeps DEF IInv, tables
<1>9. MoneyInv' /\ AuditInv'
  BY <1>4, <1>6, MoneyKeeps, AuditKeeps DEF IInv, tables
<1>10. JobInv'
  BY <1>3, <1>4 DEF JobInv, IInv, tables, HasEntry
<1>. QED
  BY <1>5, <1>6, <1>7, <1>8, <1>9, <1>10, OneSlot DEF IInv

-----------------------------------------------------------------------------
(***************************************************************************)
(* The invariant.                                                          *)
(***************************************************************************)
LEMMA InitEstablishes == Init => IInv
<1>. SUFFICES ASSUME Init PROVE IInv
  OBVIOUS
<1>1. TypeOK
  BY FailuresAssumption DEF Init, TypeOK, Row, Statuses
<1>2. \A o \in Orders : OrderInv(o)
  BY DEF Init, OrderInv
<1>3. \A r \in Requests : RequestInv(r)
  BY DEF Init, RequestInv, Moved, Audited, Idle
<1>4. MoneyInv /\ AuditInv /\ JobInv
  BY DEF Init, MoneyInv, AuditInv, JobInv, HasRow
<1>. QED
  BY <1>1, <1>2, <1>3, <1>4 DEF IInv

LEMMA NextPreserves == IInv /\ [Next]_vars => IInv'
<1>. SUFFICES ASSUME IInv, [Next]_vars PROVE IInv'
  OBVIOUS
<1>1. ASSUME NEW r \in Requests, NEW c \in Couriers, NEW o \in Orders,
             ClaimCheckShift(r, c, o)
      PROVE  IInv'
  BY <1>1, ClaimCheckShiftKeeps
<1>2. ASSUME NEW r \in Requests, NEW c \in Couriers, NEW o \in Orders,
             NEW target \in {"picked_up", "in_delivery", "completed"},
             AdvanceLoad(r, c, o, target)
      PROVE  IInv'
  BY <1>2, AdvanceLoadKeeps
<1>3. ASSUME NEW r \in Requests, NEW u \in Staff, NEW o \in Orders,
             CancelLoad(r, u, o)
      PROVE  IInv'
  BY <1>3, CancelLoadKeeps
<1>4. ASSUME NEW r \in Requests, Continue(r) PROVE IInv'
  BY <1>4, ClaimCountKeeps, ClaimTakeKeeps, AdvanceWriteKeeps,
     CompleteWriteKeeps, CancelVoidKeeps, ReloadKeeps, AppendAuditEntryKeeps,
     TellCourierKeeps, EmitStatusChangedKeeps, EnqueueCallbackKeeps
     DEF Continue
<1>5. ASSUME NEW r \in Requests, Fail(r) PROVE IInv'
  BY <1>5, FailKeeps
<1>6. ASSUME NEW c \in Couriers, OpenShift(c) \/ CloseShift(c) PROVE IInv'
  BY <1>6, ShiftKeeps
<1>7. CASE UNCHANGED vars
  BY <1>7 DEF vars, IInv, TypeOK, OrderInv, MoneyInv, RequestInv, AuditInv,
              JobInv, Moved, Audited, NeedsCallback, HasRow, HasEntry
<1>. QED
  BY <1>1, <1>2, <1>3, <1>4, <1>5, <1>6, <1>7 DEF Next

\* The strengthening that carries the others: stale reads never reach the
\* ledger, the audit's claims and completions, or the jobs.
THEOREM Invariance == Spec => []IInv
<1>1. Init => IInv
  BY InitEstablishes
<1>2. IInv /\ [Next]_vars => IInv'
  BY NextPreserves
<1>. QED
  BY <1>1, <1>2, PTL DEF Spec

\* Every table, queue, room and slot keeps its type.
THEOREM TypeCorrect == Spec => []TypeOK
<1>1. IInv => TypeOK
  BY DEF IInv
<1>. QED
  BY <1>1, Invariance, PTL

\* FR-002, FR-003, SC-002: at most one courier is ever let through as the winner
\* of an order, whatever races and failures there are.
THEOREM ExclusiveAssignmentHolds == Spec => []ExclusiveAssignment
<1>1. IInv => ExclusiveAssignment
  <2>. SUFFICES ASSUME IInv, NEW o \in Orders, NEW c \in Claimants(o)
                PROVE  c = winner[o]
    BY DEF ExclusiveAssignment
  <2>1. CASE c \in {orders[o].courier_id} \ {NULL}
    BY <2>1 DEF IInv, OrderInv
  <2>2. CASE \E e \in audit : e.order = o /\ e.to = "assigned" /\ c = e.actor
    BY <2>2 DEF IInv, AuditInv
  <2>3. CASE \E r \in Requests : /\ Moved(r) /\ req[r].order = o
                                 /\ req[r].to = "assigned" /\ c = req[r].user
    BY <2>3 DEF IInv, RequestInv
  <2>. QED
    BY <2>1, <2>2, <2>3 DEF Claimants
<1>. QED
  BY <1>1, Invariance, PTL

\* SC-006, first half: a completed order has its delivery record and earning.
THEOREM CompletedIsPaidHolds == Spec => []CompletedIsPaid
<1>1. IInv => CompletedIsPaid
  BY DEF IInv, OrderInv, MoneyInv, CompletedIsPaid
<1>. QED
  BY <1>1, Invariance, PTL

\* FR-011: audited claims were won and audited completions were paid.
THEOREM AuditIsTrueHolds == Spec => []AuditIsTrue
<1>1. IInv => AuditIsTrue
  BY DEF IInv, AuditInv, AuditIsTrue
<1>. QED
  BY <1>1, Invariance, PTL

\* FR-013: callbacks report only audited milestones and paid completions.
THEOREM CallbackIsTrueHolds == Spec => []CallbackIsTrue
<1>1. IInv => CallbackIsTrue
  BY DEF IInv, AuditInv, JobInv, TypeOK, CallbackJob, CallbackIsTrue, HasEntry
<1>. QED
  BY <1>1, Invariance, PTL

\* A cancellation push is addressed to the courier who won the order.
THEOREM PushGoesToWinnerHolds == Spec => []PushGoesToWinner
<1>1. IInv => PushGoesToWinner
  BY DEF IInv, JobInv, PushGoesToWinner
<1>. QED
  BY <1>1, Invariance, PTL

\* Principle VI: no row, audit entry or job joins two tenants.
THEOREM TenantIsolationHolds == Spec => []TenantIsolation
<1>1. IInv => TenantIsolation
  <2>. SUFFICES ASSUME IInv PROVE TenantIsolation
    OBVIOUS
  <2>1. \A o \in Orders : winner[o] # NULL => OwnerOf[winner[o]] = OwnerOf[o]
    BY DEF IInv, OrderInv
  <2>2. \A o \in Orders : orders[o].courier_id # NULL =>
          OwnerOf[o] = OwnerOf[orders[o].courier_id]
    BY <2>1 DEF IInv, OrderInv
  <2>3. ASSUME NEW o \in Orders, NEW i \in DOMAIN earnings[o]
        PROVE  OwnerOf[o] = OwnerOf[earnings[o][i]]
    <3>1. earnings[o] \in Seq(Couriers)
      BY DEF IInv, TypeOK
    <3>2. CASE HasRow(earnings, o)
      <4>1. winner[o] # NULL /\ earnings[o] = <<winner[o]>>
        BY <3>2 DEF IInv, MoneyInv
      <4>. QED
        BY <2>1, <4>1
    <3>3. CASE ~HasRow(earnings, o)
      BY <3>3 DEF HasRow
    <3>. QED
      BY <3>2, <3>3
  <2>4. \A j \in cancelJobs : OwnerOf[j.order] = OwnerOf[j.courier]
    <3>1. \A j \in cancelJobs : /\ j.order \in Orders
                                /\ j.courier # NULL
                                /\ j.courier = winner[j.order]
      BY UsersAssumption DEF IInv, JobInv, TypeOK, CancelJob, Users
    <3>. QED
      BY <2>1, <3>1
  <2>5. \A e \in audit : OwnerOf[e.order] = OwnerOf[e.actor]
    BY DEF IInv, AuditInv
  <2>. QED
    BY <2>2, <2>3, <2>4, <2>5 DEF TenantIsolation
<1>. QED
  BY <1>1, Invariance, PTL

-----------------------------------------------------------------------------
(***************************************************************************)
(* The workflow implements the abstract ledger: the UPDATE of a claim is   *)
(* an award, the transaction of a completion is a payment, and every other *)
(* step is invisible.                                                      *)
(***************************************************************************)
LEMMA LedgerInit == Init => Ledger!Init
BY DEF Init, Ledger!Init

\* A claim that hits its row awards an order nobody had been awarded.
LEMMA ClaimTakeAwards ==
  ASSUME IInv, IInv', NEW r \in Requests, ClaimTake(r)
  PROVE  [Ledger!Next]_Ledger!vars
<1> DEFINE o == req[r].order
           c == req[r].user
<1>1. req[r] \in Request
  BY InFlightType DEF ClaimTake, InFlight, IInv
<1>2. o \in Orders /\ c \in Couriers
  BY <1>1 DEF ClaimTake, IInv, RequestInv, Request
<1>3. earnings' = earnings
  BY DEF ClaimTake
<1>5. CASE ~Claimable(o, c)
  BY <1>3, <1>5 DEF ClaimTake, Ledger!vars
<1>6. CASE Claimable(o, c)
  <2>1. winner[o] = NULL
    BY <1>2, <1>6 DEF Claimable, IInv, OrderInv
  <2>2. winner' = [winner EXCEPT ![o] = c]
    BY <1>6 DEF ClaimTake
  <2>3. Ledger!Award(o, c)
    BY <1>3, <2>1, <2>2 DEF Ledger!Award
  <2>. QED
    BY <1>2, <2>3 DEF Ledger!Next
<1>. QED
  BY <1>5, <1>6

\* A completion that commits pays an unpaid order to its winner.
LEMMA CompleteWritePays ==
  ASSUME IInv, IInv', NEW r \in Requests, CompleteWrite(r)
  PROVE  [Ledger!Next]_Ledger!vars
<1> DEFINE o == req[r].order
           c == req[r].user
<1>1. req[r] \in Request
  BY InFlightType DEF CompleteWrite, InFlight, IInv
<1>2. /\ o \in Orders
      /\ c = winner[o]
      /\ winner[o] # NULL
  BY <1>1, UsersAssumption
     DEF CompleteWrite, IInv, RequestInv, Request
<1>3. winner' = winner
  BY DEF CompleteWrite
<1>4. CASE HasRow(records, o) \/ HasRow(earnings, o)
  BY <1>3, <1>4 DEF CompleteWrite, UniqueViolation, Ledger!vars
<1>5. CASE ~(HasRow(records, o) \/ HasRow(earnings, o))
  <2>1. earnings[o] = <<>>
    BY <1>5 DEF HasRow
  <2>2. earnings' = [earnings EXCEPT ![o] = Append(<<>>, c)]
    BY <1>5, <2>1 DEF CompleteWrite, UniqueViolation, Insert
  <2>3. Append(<<>>, c) = <<winner[o]>>
    BY <1>2
  <2>4. Ledger!Pay(o)
    BY <1>2, <1>3, <2>1, <2>2, <2>3 DEF Ledger!Pay
  <2>. QED
    BY <1>2, <2>4 DEF Ledger!Next
<1>. QED
  BY <1>4, <1>5

LEMMA LedgerStep ==
  ASSUME IInv, IInv', [Next]_vars
  PROVE  [Ledger!Next]_Ledger!vars
<1>1. ASSUME NEW r \in Requests, ClaimTake(r)
      PROVE  [Ledger!Next]_Ledger!vars
  BY <1>1, ClaimTakeAwards
<1>2. ASSUME NEW r \in Requests, CompleteWrite(r)
      PROVE  [Ledger!Next]_Ledger!vars
  BY <1>2, CompleteWritePays
<1>3. CASE winner' = winner /\ earnings' = earnings
  BY <1>3 DEF Ledger!vars
<1>4. \/ \E r \in Requests : ClaimTake(r) \/ CompleteWrite(r)
      \/ winner' = winner /\ earnings' = earnings
  BY DEF Next, Continue, vars, tables, ClaimCheckShift, AdvanceLoad, CancelLoad, MayCancel,
         ClaimCount, AdvanceWrite, CancelVoid, Reload, AppendAuditEntry,
         TellCourier, EmitStatusChanged, EnqueueCallback, Fail, OpenShift,
         CloseShift
<1>. QED
  BY <1>1, <1>2, <1>3, <1>4

\* The workflow implements DeliveryLedger: one award and one payment per order,
\* the payment to whom it was awarded, however requests race or fail.
THEOREM ImplementsLedger == Spec => LedgerSpec
<1>1. Init => Ledger!Init
  BY LedgerInit
<1>2. IInv /\ IInv' /\ [Next]_vars => [Ledger!Next]_Ledger!vars
  BY LedgerStep
<1>. QED
  BY <1>1, <1>2, Invariance, PTL DEF Spec, LedgerSpec, Ledger!Spec

-----------------------------------------------------------------------------
(***************************************************************************)
(* Nothing is lost but by a failure: what has not been audited, or told to *)
(* the couriers, is owed by a request under way.                           *)
(***************************************************************************)
\* The requests that owe something are those whose UPDATE has been committed.
LEMMA OnlyMovedOwe ==
  ASSUME NEW r, NEW o, NEW s, OwesEntry(r, o, s) \/ OwesCouriers(r, o)
  PROVE  Moved(r)
BY DEF OwesEntry, OwesCouriers, Moved

\* The request that moved has paid what it no longer owes of o.
SlotPays(r, o) ==
  /\ \A s \in Statuses :
       OwesEntry(r, o, s) => OwesEntry(r, o, s)' \/ HasEntry(o, s)'
  /\ OwesCouriers(r, o) => OwesCouriers(r, o)' \/ courierRoom'[o] # "created"

\* A row that was not written is owed no more than before.
LEMMA OwedKeeps ==
  ASSUME TypeOK, NEW o \in Orders, OwedInv(o), NEW r \in Requests,
         OthersSame(r), orders'[o] = orders[o],
         HasRow(earnings', o) => HasRow(earnings, o), audit \subseteq audit',
         failures' = 0 => failures = 0 /\ SlotPays(r, o),
         courierRoom[o] # "created" => courierRoom'[o] # "created"
  PROVE  OwedInv(o)'
<1>1. orders[o].stamps \subseteq Statuses
  BY DEF TypeOK, Row
<1>2. \A s : HasEntry(o, s) => HasEntry(o, s)'
  BY DEF HasEntry
<1>3. ASSUME NEW q \in Requests, q # r
      PROVE  /\ \A s : OwesEntry(q, o, s) => OwesEntry(q, o, s)'
             /\ OwesCouriers(q, o) => OwesCouriers(q, o)'
  BY <1>3 DEF OthersSame, OwesEntry, OwesCouriers
<1>4. ASSUME failures' = 0, NEW s \in orders[o].stamps
      PROVE  HasEntry(o, s)' \/ \E q \in Requests : OwesEntry(q, o, s)'
  <2>1. CASE HasEntry(o, s)
    BY <2>1, <1>2
  <2>2. CASE \E q \in Requests : OwesEntry(q, o, s)
    BY <2>2, <1>1, <1>3, <1>4 DEF SlotPays
  <2>. QED
    BY <1>4, <2>1, <2>2 DEF OwedInv
<1>5. ASSUME failures' = 0, orders[o].status # "created",
             courierRoom'[o] = "created"
      PROVE  \E q \in Requests : OwesCouriers(q, o)'
  <2>1. PICK q \in Requests : OwesCouriers(q, o)
    BY <1>5 DEF OwedInv
  <2>. QED
    BY <2>1, <1>3, <1>5 DEF SlotPays
<1>. QED
  BY <1>4, <1>5 DEF OwedInv, HasRow

LEMMA SeenKeeps ==
  ASSUME \A q \in Requests : SeenInv(q), NEW r \in Requests, OthersSame(r),
         req'[r].seen # "created"
  PROVE  \A q \in Requests : SeenInv(q)'
BY DEF SeenInv, OthersSame

\* A step that writes no row, and whose request has paid.
LEMMA OwedSlot ==
  ASSUME IInvOwed, NEW r \in Requests, OthersSame(r),
         orders' = orders, earnings' = earnings, audit \subseteq audit',
         failures' = 0 => failures = 0 /\ \A o \in Orders : SlotPays(r, o),
         \A o \in Orders : courierRoom[o] # "created" => courierRoom'[o] # "created",
         req'[r].seen # "created"
  PROVE  /\ \A o \in Orders : OwedInv(o)'
         /\ \A q \in Requests : SeenInv(q)'
BY OwedKeeps, SeenKeeps DEF IInvOwed, IInv

\* A request that owes nothing has paid.
LEMMA NothingOwed ==
  ASSUME NEW r \in Requests, ~Moved(r)
  PROVE  \A o \in Orders : SlotPays(r, o)
BY DEF SlotPays, OwesEntry, OwesCouriers, Moved

-----------------------------------------------------------------------------
LEMMA BeginOwes ==
  ASSUME IInvOwed, NEW r \in Requests, NEW step \in Steps, NEW u \in Users,
         NEW o \in Orders, NEW from \in Statuses, NEW to \in Statuses,
         NEW courier \in Couriers \cup {NULL},
         Begin(r, step, u, o, from, to, courier),
         UNCHANGED <<tables, audit, outputs, failures>>
  PROVE  /\ \A x \in Orders : OwedInv(x)'
         /\ \A q \in Requests : SeenInv(q)'
<1>1. OthersSame(r) /\ req'[r].seen # "created"
  <2>1. /\ OthersSame(r)
        /\ req'[r] = [pc |-> step, user |-> u, order |-> o, from |-> from,
                      to |-> to, courier |-> courier, seen |-> NULL]
    BY BeginIs DEF IInvOwed, IInv
  <2>. QED
    BY <2>1, NullAssumption DEF Statuses
<1>2. ~Moved(r)
  BY DEF Begin, Idle, Moved
<1>. QED
  BY <1>1, <1>2, NothingOwed, OwedSlot DEF tables, outputs

LEMMA ReturnOwes ==
  ASSUME IInvOwed, NEW r \in Requests, Return(r),
         UNCHANGED <<tables, audit, staffRoom, courierRoom>>,
         failures' = 0 => failures = 0 /\ \A o \in Orders : SlotPays(r, o)
  PROVE  /\ \A x \in Orders : OwedInv(x)'
         /\ \A q \in Requests : SeenInv(q)'
<1>1. OthersSame(r) /\ req'[r] = Idle
  BY ReturnIs DEF IInvOwed, IInv
<1>2. req'[r].seen # "created"
  BY <1>1, NullAssumption DEF Idle, Statuses
<1>. QED
  BY <1>1, <1>2, OwedSlot DEF tables

\* An UPDATE that hit: its request owes the audit entry of the new status, and
\* the news if the order was available until now.
LEMMA UpdateOwes ==
  ASSUME IInvOwed, NEW r \in Requests, InFlight(r), ~Moved(r),
         NEW courier \in Couriers \cup {NULL},
         Update(r, TRUE, req[r].to, courier), req[r].to # "created",
         \/ req[r].to \in ToldToCouriers
         \/ orders[req[r].order].status # "created",
         \A o \in Orders : HasRow(earnings', o) =>
           HasRow(earnings, o) \/ (o = req[r].order /\ req[r].to = "completed"),
         UNCHANGED <<audit, courierRoom, failures>>
  PROVE  /\ \A x \in Orders : OwedInv(x)'
         /\ \A q \in Requests : SeenInv(q)'
<1> DEFINE o == req[r].order
<1>1. req[r] \in Request /\ o \in Orders /\ req[r].to \in Statuses
  BY InFlightType DEF IInvOwed, IInv, Request
<1>2. /\ orders' = [orders EXCEPT ![o] = Stamped(@, req[r].to, courier)]
      /\ req' = [req EXCEPT ![r].pc = "reload"]
  BY DEF Update, AfterUpdate, Goto
<1>3. OthersSame(r) /\ Resumed(r, "reload") /\ req'[r].seen = req[r].seen
  BY <1>1, <1>2, GotoIs DEF IInvOwed, IInv, TypeOK, Goto, Steps, Request
<1>4. \A q \in Requests : SeenInv(q)'
  BY <1>3, SeenKeeps DEF IInvOwed, SeenInv
<1>5. /\ orders'[o].status = req[r].to
      /\ orders'[o].stamps = orders[o].stamps \cup {req[r].to}
  BY <1>1, <1>2 DEF Stamped, IInvOwed, IInv, TypeOK
<1>6. ~OwesCouriers(r, o) /\ \A s : ~OwesEntry(r, o, s)
  BY OnlyMovedOwe
<1>7. ASSUME NEW x \in Orders, x # o PROVE OwedInv(x)'
  <2>1. OwedInv(x) /\ SlotPays(r, x)
    BY NothingOwed DEF IInvOwed
  <2>2. orders'[x] = orders[x]
    BY <1>2, <1>7 DEF IInvOwed, IInv, TypeOK
  <2>3. HasRow(earnings', x) => HasRow(earnings, x)
    BY <1>7
  <2>. QED
    BY <1>3, <2>1, <2>2, <2>3, OwedKeeps DEF IInvOwed, IInv
<1>8. ASSUME NEW x \in Orders, x = o PROVE OwedInv(x)'
  <2>1. OwedInv(x)
    BY DEF IInvOwed
  <2>2. \A s : s = req[r].to => OwesEntry(r, x, s)'
    BY <1>3, <1>8 DEF OwesEntry, Resumed
  <2>3. ASSUME NEW s \in orders[x].stamps, failures' = 0
        PROVE  HasEntry(x, s)' \/ \E q \in Requests : OwesEntry(q, x, s)'
    <3>1. HasEntry(x, s) \/ \E q \in Requests \ {r} : OwesEntry(q, x, s)
      BY <1>6, <1>8, <2>1, <2>3 DEF OwedInv
    <3>. QED
      BY <3>1, <1>3 DEF HasEntry, OwesEntry, OthersSame
  <2>4. ASSUME failures' = 0, courierRoom'[x] = "created"
        PROVE  \E q \in Requests : OwesCouriers(q, x)'
    <3>1. CASE req[r].to \in ToldToCouriers
      BY <1>3, <1>8, <3>1 DEF OwesCouriers, Resumed
    <3>2. CASE orders[x].status # "created"
      <4>1. PICK q \in Requests \ {r} : OwesCouriers(q, x)
        BY <1>6, <1>8, <2>1, <2>4, <3>2 DEF OwedInv
      <4>. QED
        BY <4>1, <1>3 DEF OwesCouriers, OthersSame
    <3>. QED
      BY <1>8, <3>1, <3>2
  <2>5. HasRow(earnings', x) => "completed" \in orders'[x].stamps
    BY <1>5, <1>8, <2>1 DEF OwedInv
  <2>6. /\ orders'[x].status \in orders'[x].stamps
        /\ orders'[x].status # "created"
    BY <1>5, <1>8
  <2>7. ASSUME NEW s \in orders'[x].stamps, failures' = 0
        PROVE  HasEntry(x, s)' \/ \E q \in Requests : OwesEntry(q, x, s)'
    BY <1>5, <1>8, <2>2, <2>3, <2>7
  <2>. QED
    BY <2>4, <2>5, <2>6, <2>7 DEF OwedInv, HasRow
<1>. QED
  BY <1>4, <1>7, <1>8

-----------------------------------------------------------------------------
LEMMA OwedInit == Init => IInvOwed
<1>. SUFFICES ASSUME Init PROVE IInvOwed
  OBVIOUS
<1>1. \A o \in Orders : OwedInv(o)
  BY DEF Init, OwedInv, HasRow
<1>2. \A r \in Requests : SeenInv(r)
  BY NullAssumption DEF Init, SeenInv, Idle, Statuses
<1>. QED
  BY <1>1, <1>2, InitEstablishes DEF IInvOwed

LEMMA ClaimTakeOwes ==
  ASSUME IInvOwed, NEW r \in Requests, ClaimTake(r)
  PROVE  /\ \A x \in Orders : OwedInv(x)'
         /\ \A q \in Requests : SeenInv(q)'
<1>1. /\ req[r] \in Request /\ InFlight(r) /\ ~Moved(r)
      /\ req[r].to = "assigned" /\ req[r].user \in Couriers
  BY InFlightType DEF ClaimTake, InFlight, Moved, IInvOwed, IInv, RequestInv
<1>2. CASE Claimable(req[r].order, req[r].user)
  BY <1>1, <1>2, UpdateOwes DEF ClaimTake, outputs, ToldToCouriers
<1>3. CASE ~Claimable(req[r].order, req[r].user)
  BY <1>1, <1>3, NothingOwed, ReturnOwes
     DEF ClaimTake, Update, AfterUpdate, outputs, tables
<1>. QED
  BY <1>2, <1>3

LEMMA AdvanceWriteOwes ==
  ASSUME IInvOwed, NEW r \in Requests, AdvanceWrite(r)
  PROVE  /\ \A x \in Orders : OwedInv(x)'
         /\ \A q \in Requests : SeenInv(q)'
<1>1. req[r] \in Request /\ InFlight(r) /\ ~Moved(r) /\ RequestInv(r)
  BY InFlightType DEF AdvanceWrite, InFlight, Moved, IInvOwed, IInv
<1>2. /\ req[r].order \in Orders
      /\ orders[req[r].order].courier_id \in Couriers \cup {NULL}
  BY <1>1 DEF Request, IInvOwed, IInv, TypeOK, Row
<1>3. req[r].to \in {"picked_up", "in_delivery", "completed"}
  BY <1>1 DEF AdvanceWrite, RequestInv
<1>4. orders[req[r].order].status # "created"
  BY <1>1, <1>2, UsersAssumption
     DEF AdvanceWrite, RequestInv, Request, IInvOwed, IInv, OrderInv
<1>. QED
  BY <1>1, <1>2, <1>3, <1>4, UpdateOwes DEF AdvanceWrite, outputs

LEMMA CompleteWriteOwes ==
  ASSUME IInvOwed, NEW r \in Requests, CompleteWrite(r)
  PROVE  /\ \A x \in Orders : OwedInv(x)'
         /\ \A q \in Requests : SeenInv(q)'
<1>1. req[r] \in Request /\ InFlight(r) /\ ~Moved(r) /\ RequestInv(r)
  BY InFlightType DEF CompleteWrite, InFlight, Moved, IInvOwed, IInv
<1>2. /\ req[r].order \in Orders
      /\ orders[req[r].order].courier_id \in Couriers \cup {NULL}
  BY <1>1 DEF Request, IInvOwed, IInv, TypeOK, Row
<1>3. req[r].to = "completed"
  BY DEF CompleteWrite, PayingStatus
<1>4. orders[req[r].order].status # "created"
  BY <1>1, <1>2, UsersAssumption
     DEF CompleteWrite, RequestInv, Request, IInvOwed, IInv, OrderInv
<1>5. CASE UniqueViolation(req[r].order)
  BY <1>1, <1>5, NothingOwed, ReturnOwes
     DEF CompleteWrite, Update, AfterUpdate, outputs, tables
<1>6. CASE ~UniqueViolation(req[r].order)
  <2>1. \A o \in Orders : HasRow(earnings', o) =>
          HasRow(earnings, o) \/ o = req[r].order
    BY <1>6 DEF CompleteWrite, Insert, HasRow, IInvOwed, IInv, TypeOK
  <2>. QED
    BY <1>1, <1>2, <1>3, <1>4, <1>6, <2>1, UpdateOwes DEF CompleteWrite, outputs
<1>. QED
  BY <1>5, <1>6

LEMMA CancelVoidOwes ==
  ASSUME IInvOwed, NEW r \in Requests, CancelVoid(r)
  PROVE  /\ \A x \in Orders : OwedInv(x)'
         /\ \A q \in Requests : SeenInv(q)'
<1>1. /\ req[r] \in Request /\ InFlight(r) /\ ~Moved(r)
      /\ req[r].to = "cancelled"
  BY InFlightType DEF CancelVoid, InFlight, Moved, IInvOwed, IInv, RequestInv
<1>2. CASE orders[req[r].order].status \notin Terminal
  BY <1>1, <1>2, UpdateOwes DEF CancelVoid, outputs, ToldToCouriers
<1>3. CASE orders[req[r].order].status \in Terminal
  BY <1>1, <1>3, NothingOwed, ReturnOwes
     DEF CancelVoid, Update, AfterUpdate, outputs, tables
<1>. QED
  BY <1>2, <1>3

\* What the final loadOrder sees has left created.
LEMMA ReloadOwes ==
  ASSUME IInvOwed, NEW r \in Requests, Reload(r)
  PROVE  /\ \A x \in Orders : OwedInv(x)'
         /\ \A q \in Requests : SeenInv(q)'
<1>1. req[r] \in Request /\ RequestInv(r) /\ Moved(r)
  BY InFlightType DEF Reload, InFlight, Moved, IInvOwed, IInv
<1>2. req'[r] = [req[r] EXCEPT !.pc = "audit",
                               !.seen = orders[req[r].order].status]
  BY DEF Reload, SeenNow, IInvOwed, IInv, TypeOK
<1>3. /\ OthersSame(r)
      /\ req'[r].pc = "audit"
      /\ req'[r].order = req[r].order
      /\ req'[r].to = req[r].to
      /\ req'[r].seen = orders[req[r].order].status
  BY <1>1, <1>2 DEF Reload, OthersSame, Request, IInvOwed, IInv, TypeOK
<1>4. req'[r].seen # "created"
  <2>1. req[r].order \in Orders /\ req[r].to \in orders[req[r].order].stamps
    BY <1>1 DEF Request, RequestInv
  <2>. QED
    BY <1>3, <2>1 DEF IInvOwed, OwedInv
<1>5. \A o \in Orders : SlotPays(r, o)
  BY <1>3 DEF SlotPays, OwesEntry, OwesCouriers
<1>. QED
  BY <1>3, <1>4, <1>5, OwedSlot DEF Reload, tables, outputs

LEMMA AppendAuditEntryOwes ==
  ASSUME IInvOwed, NEW r \in Requests, AppendAuditEntry(r)
  PROVE  /\ \A x \in Orders : OwedInv(x)'
         /\ \A q \in Requests : SeenInv(q)'
<1>1. req[r] \in Request /\ InFlight(r)
  BY InFlightType DEF AppendAuditEntry, InFlight, IInvOwed, IInv
<1>2. PICK step \in {"tell", "emit"} : Goto(r, step)
  BY DEF AppendAuditEntry, AfterAudit
<1>3. OthersSame(r) /\ Resumed(r, step) /\ req'[r].seen = req[r].seen
  BY <1>1, <1>2, GotoIs DEF IInvOwed, IInv, TypeOK, Goto, Steps, Request
<1>4. HasEntry(req[r].order, req[r].to)'
  <2>1. HasEntry(req[r].order, req[r].to)' <=>
          \E e \in audit' : e.order = req'[r].order /\ e.to = req'[r].to
    BY DEF HasEntry
  <2>2. Entry(r) \in audit' /\ Entry(r).order = req[r].order
                            /\ Entry(r).to = req[r].to
    BY DEF AppendAuditEntry, Entry
  <2>. QED
    BY <1>3, <2>1, <2>2 DEF Resumed
<1>5. ASSUME NEW o \in Orders PROVE SlotPays(r, o)
  <2>1. \A s \in Statuses : OwesEntry(r, o, s) => HasEntry(o, s)'
    BY <1>3, <1>4 DEF OwesEntry, HasEntry, Resumed
  <2>2. OwesCouriers(r, o) => OwesCouriers(r, o)'
    BY <1>3 DEF OwesCouriers, Resumed
  <2>. QED
    BY <2>1, <2>2 DEF SlotPays
<1>. QED
  BY <1>3, <1>5, OwedSlot
     DEF AppendAuditEntry, tables, outputs, IInvOwed, SeenInv

LEMMA TellCourierOwes ==
  ASSUME IInvOwed, NEW r \in Requests, TellCourier(r)
  PROVE  /\ \A x \in Orders : OwedInv(x)'
         /\ \A q \in Requests : SeenInv(q)'
<1>1. req[r] \in Request /\ InFlight(r)
  BY InFlightType DEF TellCourier, InFlight, IInvOwed, IInv
<1>2. OthersSame(r) /\ Resumed(r, "emit") /\ req'[r].seen = req[r].seen
  BY <1>1, GotoIs DEF TellCourier, IInvOwed, IInv, TypeOK, Goto, Steps, Request
<1>3. \A o \in Orders : SlotPays(r, o)
  BY <1>2 DEF SlotPays, OwesEntry, OwesCouriers, TellCourier, Resumed
<1>. QED
  BY <1>2, <1>3, OwedSlot DEF TellCourier, tables, IInvOwed, SeenInv

\* The news are told with a status that is not created, whoever tells them.
LEMMA EmitStatusChangedOwes ==
  ASSUME IInvOwed, NEW r \in Requests, EmitStatusChanged(r)
  PROVE  /\ \A x \in Orders : OwedInv(x)'
         /\ \A q \in Requests : SeenInv(q)'
<1>1. req[r] \in Request /\ InFlight(r) /\ req[r].seen # "created"
  BY InFlightType DEF EmitStatusChanged, InFlight, IInvOwed, IInv, SeenInv
<1>2. OthersSame(r) /\ req'[r].seen # "created"
  <2>1. CASE Goto(r, "callback")
    BY <1>1, <2>1, GotoIs DEF IInvOwed, IInv, TypeOK, Goto, Steps, Request
  <2>2. CASE Return(r)
    BY <2>2, ReturnIs, NullAssumption DEF IInvOwed, IInv, Idle, Statuses
  <2>. QED
    BY <2>1, <2>2 DEF EmitStatusChanged
<1>3. \A o \in Orders : courierRoom[o] # "created" => courierRoom'[o] # "created"
  BY <1>1 DEF EmitStatusChanged, IInvOwed, IInv, TypeOK
<1>4. ASSUME NEW o \in Orders PROVE SlotPays(r, o)
  <2>1. \A s : ~OwesEntry(r, o, s)
    BY DEF EmitStatusChanged, OwesEntry
  <2>2. OwesCouriers(r, o) => courierRoom'[o] # "created"
    BY <1>1 DEF EmitStatusChanged, OwesCouriers, IInvOwed, IInv, TypeOK
  <2>. QED
    BY <2>1, <2>2 DEF SlotPays
<1>. QED
  BY <1>2, <1>3, <1>4, OwedSlot DEF EmitStatusChanged, tables

LEMMA EnqueueCallbackOwes ==
  ASSUME IInvOwed, NEW r \in Requests, EnqueueCallback(r)
  PROVE  /\ \A x \in Orders : OwedInv(x)'
         /\ \A q \in Requests : SeenInv(q)'
<1>1. \A o \in Orders : SlotPays(r, o)
  BY DEF EnqueueCallback, SlotPays, OwesEntry, OwesCouriers
<1>. QED
  BY <1>1, ReturnOwes DEF EnqueueCallback

-----------------------------------------------------------------------------
LEMMA OwedNext == IInvOwed /\ [Next]_vars => IInvOwed'
<1>. SUFFICES ASSUME IInvOwed, [Next]_vars
              PROVE  /\ \A x \in Orders : OwedInv(x)'
                     /\ \A q \in Requests : SeenInv(q)'
  BY NextPreserves DEF IInvOwed
<1>1. ASSUME NEW r \in Requests, NEW c \in Couriers, NEW o \in Orders,
             ClaimCheckShift(r, c, o)
      PROVE  /\ \A x \in Orders : OwedInv(x)'
             /\ \A q \in Requests : SeenInv(q)'
  BY <1>1, BeginOwes DEF ClaimCheckShift, Steps, Statuses, Users
<1>2. ASSUME NEW r \in Requests, NEW c \in Couriers, NEW o \in Orders,
             NEW target \in {"picked_up", "in_delivery", "completed"},
             AdvanceLoad(r, c, o, target)
      PROVE  /\ \A x \in Orders : OwedInv(x)'
             /\ \A q \in Requests : SeenInv(q)'
  <2>1. orders[o].status \in Statuses /\ target \in Statuses
    BY DEF IInvOwed, IInv, TypeOK, Row, Statuses
  <2>. QED
    BY <1>2, <2>1, BeginOwes DEF AdvanceLoad, Steps, Users
<1>3. ASSUME NEW r \in Requests, NEW u \in Staff, NEW o \in Orders,
             CancelLoad(r, u, o)
      PROVE  /\ \A x \in Orders : OwedInv(x)'
             /\ \A q \in Requests : SeenInv(q)'
  <2>1. /\ orders[o].status \in Statuses
        /\ orders[o].courier_id \in Couriers \cup {NULL}
        /\ OperatorTransition[orders[o].status] \in Statuses
    BY <1>3 DEF CancelLoad, MayCancel, OperatorTransition, IInvOwed, IInv, TypeOK, Row, Statuses
  <2>. QED
    BY <1>3, <2>1, BeginOwes DEF CancelLoad, MayCancel, Steps, Users
<1>4. ASSUME NEW r \in Requests, ClaimCount(r)
      PROVE  /\ \A x \in Orders : OwedInv(x)'
             /\ \A q \in Requests : SeenInv(q)'
  <2>1. req[r] \in Request /\ InFlight(r) /\ ~Moved(r)
    BY <1>4, InFlightType DEF ClaimCount, InFlight, Moved, IInvOwed, IInv
  <2>2. CASE Return(r)
    BY <1>4, <2>1, <2>2, NothingOwed, ReturnOwes DEF ClaimCount, outputs
  <2>3. CASE Goto(r, "take")
    <3>1. OthersSame(r) /\ req'[r].seen = req[r].seen
      BY <2>1, <2>3, GotoIs DEF IInvOwed, IInv, TypeOK, Goto, Steps, Request
    <3>. QED
      BY <1>4, <2>1, <3>1, NothingOwed, OwedSlot
         DEF ClaimCount, tables, outputs, IInvOwed, SeenInv
  <2>. QED
    BY <1>4, <2>2, <2>3 DEF ClaimCount
<1>5. ASSUME NEW r \in Requests, Continue(r), ~ClaimCount(r)
      PROVE  /\ \A x \in Orders : OwedInv(x)'
             /\ \A q \in Requests : SeenInv(q)'
  BY <1>5, ClaimTakeOwes, AdvanceWriteOwes, CompleteWriteOwes, CancelVoidOwes,
     ReloadOwes, AppendAuditEntryOwes, TellCourierOwes, EmitStatusChangedOwes,
     EnqueueCallbackOwes DEF Continue
<1>6. ASSUME NEW r \in Requests, Fail(r)
      PROVE  /\ \A x \in Orders : OwedInv(x)'
             /\ \A q \in Requests : SeenInv(q)'
  <2>1. failures' # 0
    BY <1>6, FailuresAssumption DEF Fail, IInvOwed, IInv, TypeOK
  <2>. QED
    BY <1>6, <2>1, ReturnOwes DEF Fail, outputs
<1>7. CASE UNCHANGED <<orders, earnings, audit, courierRoom, req, failures>>
  BY <1>7 DEF IInvOwed, OwedInv, SeenInv, HasRow, HasEntry, OwesEntry,
              OwesCouriers
<1>8. ASSUME NEW c \in Couriers, OpenShift(c) \/ CloseShift(c)
      PROVE  UNCHANGED <<orders, earnings, audit, courierRoom, req, failures>>
  BY <1>8 DEF OpenShift, CloseShift, tables, outputs
<1>9. CASE UNCHANGED vars
  BY <1>7, <1>9 DEF vars
<1>. QED
  BY <1>1, <1>2, <1>3, <1>4, <1>5, <1>6, <1>7, <1>8, <1>9 DEF Next

\* Whatever a committed UPDATE has still to audit or to tell the couriers is
\* owed by a request under way, unless a request was lost.
THEOREM OwedInvariance == Spec => []IInvOwed
BY OwedInit, OwedNext, PTL DEF Spec

\* FR-011, once every request has been answered, none lost: the status of every
\* row and every paid completion were audited (appendAuditEntry).
THEOREM AuditIsCompleteHolds == Spec => []AuditIsComplete
<1>1. IInvOwed => AuditIsComplete
  <2>. SUFFICES ASSUME IInvOwed, Quiescent, NEW o \in Orders
                PROVE  /\ orders[o].status # "created" => HasEntry(o, orders[o].status)
                       /\ HasRow(earnings, o) => HasEntry(o, "completed")
    BY DEF AuditIsComplete
  <2>1. \A s \in orders[o].stamps : HasEntry(o, s)
    BY DEF IInvOwed, OwedInv, Quiescent, OwesEntry, InFlight
  <2>. QED
    BY <2>1 DEF IInvOwed, OwedInv
<1>. QED
  BY <1>1, OwedInvariance, PTL

\* Once every request has been answered, none lost, no order that was claimed or
\* cancelled is still shown as available to the couriers (emitStatusChanged).
THEOREM CouriersSeeItTakenHolds == Spec => []CouriersSeeItTaken
<1>1. IInvOwed => CouriersSeeItTaken
  BY DEF IInvOwed, OwedInv, CouriersSeeItTaken, Quiescent, OwesCouriers, InFlight
<1>. QED
  BY <1>1, OwedInvariance, PTL

-----------------------------------------------------------------------------
(***************************************************************************)
(* The histories of OrderOverlaps.  They record every step and forbid      *)
(* none, so whatever Spec implies, HSpec implies.                          *)
(***************************************************************************)
LEMMA HistoryGrows ==
  ASSUME HistoryOK, Remember
  PROVE  HistoryOK' /\ contested \subseteq contested' /\ hasty \subseteq hasty'
BY DEF HistoryOK, Remember, Contested, Hasty

LEMMA ProgressIs ==
  /\ Progress["created"] = 0
  /\ Progress["assigned"] = 1
  /\ Progress["picked_up"] = 2
  /\ Progress["in_delivery"] = 3
  /\ Progress["completed"] = 4
  /\ Progress["cancelled"] = 4
  /\ \A s \in Statuses : Progress[s] \in 0..4
BY DEF Progress, Statuses, Terminal

\* The UPDATE of the request in slot r hits the row of o.
HitsRow(r, o, status, courier) ==
  /\ OthersSame(r) /\ Resumed(r, "reload")
  /\ ~Claiming(r)' /\ req'[r].pc = "reload"
  /\ \A x \in Orders : orders[x].stamps \subseteq orders'[x].stamps
  /\ \A x \in Orders \ {o} : orders'[x] = orders[x]
  /\ orders'[o].status = status
  /\ orders'[o].courier_id = courier
  /\ orders'[o].stamps = orders[o].stamps \cup {status}

LEMMA UpdateHits ==
  ASSUME IInv, NEW r \in Requests, InFlight(r), NEW o \in Orders,
         o = req[r].order, NEW status \in Statuses,
         NEW courier \in Couriers \cup {NULL}, Update(r, TRUE, status, courier)
  PROVE  HitsRow(r, o, status, courier)
<1>1. /\ orders' = [orders EXCEPT ![o] = Stamped(@, status, courier)]
      /\ Goto(r, "reload")
  BY DEF Update, AfterUpdate
<1>2. OthersSame(r) /\ Resumed(r, "reload")
  BY <1>1, GotoIs DEF IInv, Steps
<1>3. req'[r].pc = "reload"
  BY <1>2 DEF Resumed
<1>4. /\ \A x \in Orders \ {o} : orders'[x] = orders[x]
      /\ orders'[o] = Stamped(orders[o], status, courier)
  BY <1>1 DEF IInv, TypeOK
<1>. QED
  BY <1>2, <1>3, <1>4 DEF HitsRow, Stamped, Claiming

LEMMA ReturnEnds ==
  ASSUME IInv, NEW r \in Requests, Return(r)
  PROVE  OthersSame(r) /\ req'[r] = Idle /\ req'[r].pc = "idle" /\ ~Claiming(r)'
BY ReturnIs DEF IInv, Idle, Claiming

\* The request that writes, its order and its courier.
LEMMA WriterIs ==
  ASSUME IInv, NEW r \in Requests, InFlight(r)
  PROVE  /\ req[r] \in Request
         /\ req[r].order \in Orders /\ req[r].user \in Users
         /\ req[r].from \in Statuses /\ req[r].to \in Statuses
         /\ orders[req[r].order].courier_id \in Couriers \cup {NULL}
BY InFlightType DEF IInv, TypeOK, Request, Row

-----------------------------------------------------------------------------
(***************************************************************************)
(* However stale, a step is one of the tables and its turn has come.       *)
(***************************************************************************)
LEMMA StepSlots ==
  ASSUME IInv, \A q \in Requests : StepInv(q), NEW r \in Requests, OthersSame(r),
         \A o \in Orders : orders[o].stamps \subseteq orders'[o].stamps,
         StepInv(r)'
  PROVE  \A q \in Requests : StepInv(q)'
<1>. SUFFICES ASSUME NEW q \in Requests, q # r PROVE StepInv(q)'
  OBVIOUS
<1>1. req'[q] = req[q] /\ StepInv(q)
  BY DEF OthersSame
<1>2. req[q].pc = "write" => req[q].order \in Orders
  BY WriterIs DEF InFlight
<1>. QED
  BY <1>1, <1>2 DEF StepInv, Claiming

\* A step that writes no row.
LEMMA SlotSteps ==
  ASSUME IInv, \A q \in Requests : StepInv(q), NEW r \in Requests, OthersSame(r),
         orders' = orders, StepInv(r)'
  PROVE  \A q \in Requests : StepInv(q)'
BY StepSlots

LEMMA UpdateSteps ==
  ASSUME IInv, \A q \in Requests : StepInv(q), NEW r \in Requests, InFlight(r),
         NEW status \in Statuses, NEW courier \in Couriers \cup {NULL},
         Update(r, TRUE, status, courier) \/ (Return(r) /\ orders' = orders)
  PROVE  \A q \in Requests : StepInv(q)'
<1>1. PICK o \in Orders : o = req[r].order
  BY WriterIs
<1>2. CASE Update(r, TRUE, status, courier)
  <2>1. HitsRow(r, o, status, courier)
    BY <1>1, <1>2, UpdateHits
  <2>2. StepInv(r)'
    BY <2>1 DEF StepInv, HitsRow
  <2>. QED
    BY <2>1, <2>2, StepSlots DEF HitsRow
<1>3. CASE Return(r) /\ orders' = orders
  <2>1. StepInv(r)'
    BY <1>3, ReturnEnds DEF StepInv
  <2>. QED
    BY <1>3, <2>1, ReturnEnds, SlotSteps
<1>. QED
  BY <1>2, <1>3

\* A step that only ends a request, or brings it past its writes.
LEMMA PastSteps ==
  ASSUME IInv, \A q \in Requests : StepInv(q), NEW r \in Requests, OthersSame(r),
         orders' = orders,
         req'[r].pc \in {"idle", "reload", "audit", "tell", "emit", "callback"}
  PROVE  \A q \in Requests : StepInv(q)'
<1>1. StepInv(r)'
  BY DEF StepInv, Claiming
<1>. QED
  BY <1>1, SlotSteps

\* After its UPDATE a handler writes no row and never goes back.
LEMMA PastIs ==
  ASSUME IInv, NEW r \in Requests,
         \/ Reload(r) \/ AppendAuditEntry(r) \/ TellCourier(r)
         \/ EmitStatusChanged(r) \/ EnqueueCallback(r) \/ Fail(r)
  PROVE  /\ OthersSame(r) /\ orders' = orders
         /\ req'[r].pc \in {"idle", "reload", "audit", "tell", "emit", "callback"}
<1>1. orders' = orders
  BY DEF Reload, AppendAuditEntry, TellCourier, EmitStatusChanged,
         EnqueueCallback, Fail, tables
<1>2. CASE Reload(r)
  <2>1. req' = [req EXCEPT ![r].pc = "audit", ![r].seen = SeenNow(r)]
    BY <1>2 DEF Reload
  <2>. QED
    BY <1>1, <2>1 DEF OthersSame, IInv, TypeOK, Request, Idle
<1>3. ASSUME NEW step \in {"tell", "emit", "callback"}, InFlight(r), Goto(r, step)
      PROVE  OthersSame(r) /\ req'[r].pc = step
  BY <1>3, GotoIs DEF Resumed, Steps, IInv
<1>4. ASSUME Return(r) PROVE OthersSame(r) /\ req'[r].pc = "idle"
  BY <1>4, ReturnIs DEF Idle, IInv
<1>5. CASE AppendAuditEntry(r)
  BY <1>1, <1>3, <1>5 DEF AppendAuditEntry, AfterAudit, InFlight
<1>6. CASE TellCourier(r)
  BY <1>1, <1>3, <1>6 DEF TellCourier, InFlight
<1>7. CASE EmitStatusChanged(r)
  BY <1>1, <1>3, <1>4, <1>7 DEF EmitStatusChanged, InFlight
<1>8. CASE EnqueueCallback(r) \/ Fail(r)
  BY <1>1, <1>4, <1>8 DEF EnqueueCallback, Fail
<1>. QED
  BY <1>2, <1>5, <1>6, <1>7, <1>8

LEMMA StepNext ==
  ASSUME IInvOwed, \A q \in Requests : StepInv(q), Next
  PROVE  \A q \in Requests : StepInv(q)'
<1>. USE DEF IInvOwed
<1>1. ASSUME NEW r \in Requests, NEW c \in Couriers, NEW o \in Orders,
             ClaimCheckShift(r, c, o)
      PROVE  \A q \in Requests : StepInv(q)'
  <2>1. /\ Begin(r, "count", c, o, "created", "assigned", NULL) /\ TypeOK
        /\ orders' = orders /\ "count" \in Steps /\ "created" \in Statuses
        /\ "assigned" \in Statuses /\ c \in Users
    BY <1>1 DEF ClaimCheckShift, Steps, Statuses, Users, tables, IInv
  <2>2. /\ OthersSame(r)
        /\ req'[r] = [pc |-> "count", user |-> c, order |-> o,
                      from |-> "created", to |-> "assigned", courier |-> NULL,
                      seen |-> NULL]
    BY <2>1, BeginIs
  <2>3. StepInv(r)'
    BY <2>2 DEF StepInv, Claiming
  <2>. QED
    BY <2>1, <2>2, <2>3, SlotSteps
<1>2. ASSUME NEW r \in Requests, NEW c \in Couriers, NEW o \in Orders,
             NEW target \in {"picked_up", "in_delivery", "completed"},
             AdvanceLoad(r, c, o, target)
      PROVE  \A q \in Requests : StepInv(q)'
  <2>1. /\ Begin(r, "write", c, o, orders[o].status, target, NULL) /\ TypeOK
        /\ orders' = orders /\ "write" \in Steps /\ orders[o].status \in Statuses
        /\ target \in Statuses /\ c \in Users
    BY <1>2 DEF AdvanceLoad, Steps, Statuses, Users, tables, IInv, TypeOK, Row
  <2>2. /\ OthersSame(r)
        /\ req'[r] = [pc |-> "write", user |-> c, order |-> o,
                      from |-> orders[o].status, to |-> target,
                      courier |-> NULL, seen |-> NULL]
    BY <2>1, BeginIs
  <2>3. /\ orders[o].status \in DOMAIN CourierTransition
        /\ CourierTransition[orders[o].status] = target
    BY <1>2 DEF AdvanceLoad, MayAdvance
  <2>4. orders[o].status \in orders[o].stamps
    BY <2>3 DEF OwedInv, CourierTransition
  <2>5. StepInv(r)'
    BY <2>1, <2>2, <2>3, <2>4 DEF StepInv, Claiming
  <2>. QED
    BY <2>1, <2>2, <2>5, SlotSteps
<1>3. ASSUME NEW r \in Requests, NEW u \in Staff, NEW o \in Orders,
             CancelLoad(r, u, o)
      PROVE  \A q \in Requests : StepInv(q)'
  <2>1. /\ OthersSame(r) /\ orders' = orders /\ req'[r].pc = "void"
    BY <1>3 DEF CancelLoad, MayCancel, Begin, OthersSame, tables, IInv, TypeOK
  <2>2. StepInv(r)'
    BY <2>1 DEF StepInv, Claiming
  <2>. QED
    BY <2>1, <2>2, SlotSteps
<1>4. ASSUME NEW r \in Requests, ClaimCount(r)
      PROVE  \A q \in Requests : StepInv(q)'
  <2>1. InFlight(r) /\ Claiming(r) /\ orders' = orders
    BY <1>4 DEF ClaimCount, InFlight, Claiming, tables
  <2>2. CASE Return(r)
    BY <2>1, <2>2, ReturnIs, PastSteps DEF IInv, Idle
  <2>3. CASE Goto(r, "take")
    <3>1. OthersSame(r) /\ Resumed(r, "take")
      BY <2>1, <2>3, GotoIs DEF IInv, Steps
    <3>2. StepInv(r)'
      BY <2>1, <3>1 DEF StepInv, Claiming, Resumed
    <3>. QED
      BY <2>1, <3>1, <3>2, SlotSteps
  <2>. QED
    BY <1>4, <2>2, <2>3 DEF ClaimCount
<1>5. ASSUME NEW r \in Requests, ClaimTake(r)
      PROVE  \A q \in Requests : StepInv(q)'
  <2>1. InFlight(r) /\ req[r].user \in Couriers /\ "assigned" \in Statuses
    BY <1>5 DEF ClaimTake, InFlight, IInv, RequestInv, Statuses
  <2>2. PICK c \in Couriers : c = req[r].user
    BY <2>1
  <2>3. PICK hit \in BOOLEAN : Update(r, hit, "assigned", c)
    BY <1>5, <2>2 DEF ClaimTake, Claimable
  <2>4. Update(r, TRUE, "assigned", c) \/ (Return(r) /\ orders' = orders)
    <3>1. CASE hit = TRUE
      BY <2>3, <3>1
    <3>2. CASE hit = FALSE
      <4>1. Update(r, FALSE, "assigned", c)
        BY <2>3, <3>2
      <4>. QED
        BY <4>1 DEF Update, AfterUpdate
    <3>. QED
      BY <3>1, <3>2
  <2>. QED
    BY <2>1, <2>4, UpdateSteps
<1>6. ASSUME NEW r \in Requests, AdvanceWrite(r) \/ CompleteWrite(r)
      PROVE  \A q \in Requests : StepInv(q)'
  <2>1. InFlight(r)
    BY <1>6 DEF AdvanceWrite, CompleteWrite, InFlight
  <2>2. PICK to \in Statuses, c \in Couriers \cup {NULL} :
          to = req[r].to /\ c = orders[req[r].order].courier_id
    BY <2>1, WriterIs
  <2>3. PICK hit \in BOOLEAN : Update(r, hit, to, c)
    BY <1>6, <2>2 DEF AdvanceWrite, CompleteWrite
  <2>4. Update(r, TRUE, to, c) \/ (Return(r) /\ orders' = orders)
    <3>1. CASE hit = TRUE
      BY <2>3, <3>1
    <3>2. CASE hit = FALSE
      <4>1. Update(r, FALSE, to, c)
        BY <2>3, <3>2
      <4>. QED
        BY <4>1 DEF Update, AfterUpdate
    <3>. QED
      BY <3>1, <3>2
  <2>. QED
    BY <2>1, <2>2, <2>4, UpdateSteps
<1>7. ASSUME NEW r \in Requests, CancelVoid(r)
      PROVE  \A q \in Requests : StepInv(q)'
  <2>1. PICK hit \in BOOLEAN : Update(r, hit, "cancelled", NULL)
    BY <1>7 DEF CancelVoid
  <2>2. Update(r, TRUE, "cancelled", NULL) \/ (Return(r) /\ orders' = orders)
    <3>1. CASE hit = TRUE
      BY <2>1, <3>1
    <3>2. CASE hit = FALSE
      <4>1. Update(r, FALSE, "cancelled", NULL)
        BY <2>1, <3>2
      <4>. QED
        BY <4>1 DEF Update, AfterUpdate
    <3>. QED
      BY <3>1, <3>2
  <2>. QED
    BY <1>7, <2>2, UpdateSteps DEF CancelVoid, InFlight, Statuses
<1>8. ASSUME NEW r \in Requests,
             \/ Reload(r) \/ AppendAuditEntry(r) \/ TellCourier(r)
             \/ EmitStatusChanged(r) \/ EnqueueCallback(r) \/ Fail(r)
      PROVE  \A q \in Requests : StepInv(q)'
  BY <1>8, PastIs, PastSteps
<1>9. ASSUME NEW c \in Couriers, OpenShift(c) \/ CloseShift(c)
      PROVE  \A q \in Requests : StepInv(q)'
  BY <1>9 DEF OpenShift, CloseShift, StepInv, Claiming, tables
<1>10. ASSUME NEW r \in Requests, Continue(r)
       PROVE  \A q \in Requests : StepInv(q)'
  BY <1>4, <1>5, <1>6, <1>7, <1>8, <1>10 DEF Continue
<1>. QED
  BY <1>1, <1>2, <1>3, <1>8, <1>9, <1>10 DEF Next

-----------------------------------------------------------------------------
(***************************************************************************)
(* The courier whose requests do not overlap.                              *)
(***************************************************************************)
PatientRequest(r, c) ==
  req[r].user = c =>
    /\ req[r].pc = "take" => Active(c) = {}
    /\ req[r].pc = "write" =>
         \/ req[r].order \in Active(c)
         \/ orders[req[r].order].courier_id = NULL

\* Nobody else decides for a courier who is not hasty.
LEMMA DecidesAlone ==
  ASSUME HistoryOK, NEW c \in Couriers \ hasty, NEW r \in Requests, Deciding(r),
         req[r].user = c, NEW q \in Requests, q # r, req[q].user = c
  PROVE  ~Deciding(q)
BY DEF HistoryOK, Hasty

LEMMA PatientSlots ==
  ASSUME NEW c \in Couriers, NEW r \in Requests, OthersSame(r),
         OneActive(c)', PatientRequest(r, c)',
         \A q \in Requests \ {r} : req[q].user = c =>
           /\ req[q].pc = "take" => Active(c)' = {}
           /\ req[q].pc = "write" =>
                \/ req[q].order \in Active(c)'
                \/ orders'[req[q].order].courier_id = NULL
  PROVE  PatientInv(c)'
<1>. SUFFICES ASSUME NEW q \in Requests PROVE PatientRequest(q, c)'
  BY DEF PatientInv, PatientRequest
<1>1. CASE q = r
  BY <1>1
<1>2. CASE q # r
  BY <1>2 DEF OthersSame, PatientRequest
<1>. QED
  BY <1>1, <1>2

\* A step that writes no row.
LEMMA PatientStays ==
  ASSUME NEW c \in Couriers, PatientInv(c), NEW r \in Requests, OthersSame(r),
         orders' = orders, PatientRequest(r, c)'
  PROVE  PatientInv(c)'
<1>1. Active(c)' = Active(c)
  BY DEF Active
<1>. QED
  BY <1>1, PatientSlots DEF PatientInv, OneActive

\* A step that only ends a request, or brings it past its checks and writes.
LEMMA PatientPast ==
  ASSUME NEW c \in Couriers, PatientInv(c), NEW r \in Requests, OthersSame(r),
         orders' = orders, req'[r].pc \notin {"take", "write"}
  PROVE  PatientInv(c)'
BY PatientStays DEF PatientRequest

\* The claim of a courier who is not hasty finds the courier free.
LEMMA ClaimTakePatient ==
  ASSUME IInv, HistoryOK, NEW c \in Couriers \ hasty, PatientInv(c),
         NEW r \in Requests, ClaimTake(r)
  PROVE  PatientInv(c)'
<1>1. /\ InFlight(r) /\ req[r].pc = "take" /\ Deciding(r)
      /\ req[r].user \in Couriers /\ req[r].user # NULL
  BY UsersAssumption
     DEF ClaimTake, InFlight, Deciding, Claiming, IInv, RequestInv, Users
<1>2. PICK o \in Orders : o = req[r].order
  BY <1>1, WriterIs
<1>3. PICK u \in Couriers : u = req[r].user /\ u # NULL
  BY <1>1
<1>4. /\ OthersSame(r) /\ req'[r].pc # "write" /\ ~Claiming(r)'
      /\ \A x \in Orders \ {o} : orders'[x] = orders[x]
      /\ Claimable(o, u) => /\ orders'[o].status = "assigned"
                            /\ orders'[o].courier_id = u
      /\ ~Claimable(o, u) => orders' = orders
  <2>1. CASE Claimable(o, u)
    <3>1. Update(r, TRUE, "assigned", u)
      BY <1>2, <1>3, <2>1 DEF ClaimTake
    <3>2. PICK to \in Statuses : to = "assigned"
      BY DEF Statuses
    <3>3. Update(r, TRUE, to, u)
      BY <3>1, <3>2
    <3>4. InFlight(r) /\ u \in Couriers \cup {NULL}
      BY <1>1
    <3>5. HitsRow(r, o, to, u)
      BY <1>2, <3>3, <3>4, UpdateHits
    <3>. QED
      BY <2>1, <3>2, <3>5 DEF HitsRow
  <2>2. CASE ~Claimable(o, u)
    <3>1. orders' = orders /\ Return(r)
      BY <1>2, <1>3, <2>2 DEF ClaimTake, Update, AfterUpdate
    <3>. QED
      BY <2>2, <3>1, ReturnEnds
  <2>. QED
    BY <2>1, <2>2
<1>5. PatientRequest(r, c)'
  BY <1>4 DEF PatientRequest, Claiming
<1>6. CASE ~Claimable(o, u)
  BY <1>4, <1>5, <1>6, PatientStays
<1>7. CASE Claimable(o, u)
  <2>1. \A x \in Orders \ {o} : x \in Active(c)' <=> x \in Active(c)
    BY <1>4 DEF Active
  <2>2. Active(c) \subseteq Orders /\ Active(c)' \subseteq Orders
    BY DEF Active
  <2>3. orders[o].courier_id = NULL /\ orders[o].status = "created"
    BY <1>7 DEF Claimable
  <2>4. o \notin Active(c) /\ c # NULL
    BY <2>3, UsersAssumption DEF Active, Users
  <2>5. CASE c = u
    <3>1. Active(c) = {}
      BY <1>1, <1>3, <2>5 DEF PatientInv
    <3>2. OneActive(c)'
      BY <2>1, <2>2, <3>1 DEF OneActive
    <3>3. \A q \in Requests \ {r} : req[q].user = c =>
            req[q].pc \notin {"take", "write"}
      BY <1>1, <1>3, <2>5, DecidesAlone DEF Deciding, Claiming
    <3>. QED
      BY <1>4, <1>5, <3>2, <3>3, PatientSlots
  <2>6. CASE c # u
    <3>1. Active(c)' = Active(c)
      <4>1. o \notin Active(c)'
        BY <1>4, <1>7, <2>6 DEF Active
      <4>. QED
        BY <2>1, <2>2, <2>4, <4>1
    <3>2. ASSUME NEW q \in Requests, q # r, req[q].user = c, req[q].pc = "write"
          PROVE  \/ req[q].order \in Active(c)'
                 \/ orders'[req[q].order].courier_id = NULL
      <4>1. req[q].order \in Orders /\ winner[req[q].order] = c
        BY <3>2, WriterIs DEF InFlight, IInv, RequestInv
      <4>2. winner[o] = NULL
        BY <2>3 DEF IInv, OrderInv
      <4>3. req[q].order # o
        BY <2>4, <4>1, <4>2
      <4>. QED
        BY <1>4, <3>1, <3>2, <4>1, <4>3 DEF PatientInv
    <3>. QED
      BY <1>4, <1>5, <3>1, <3>2, PatientSlots DEF PatientInv, OneActive
  <2>. QED
    BY <2>5, <2>6
<1>. QED
  BY <1>6, <1>7

\* A late step of a courier who is not hasty brings no order of theirs back: it
\* finds the order active still, or taken away by a cancel.
LEMMA AdvanceWritePatient ==
  ASSUME IInv, NEW c \in Couriers, PatientInv(c), NEW r \in Requests,
         AdvanceWrite(r)
  PROVE  PatientInv(c)'
<1>1. InFlight(r) /\ req[r].pc = "write"
  BY DEF AdvanceWrite, InFlight
<1>2. PICK o \in Orders : o = req[r].order
  BY <1>1, WriterIs
<1>3. /\ req[r].user = winner[o] /\ req[r].to \notin Terminal
      /\ req[r].to \in Statuses /\ orders[o].courier_id \in Couriers \cup {NULL}
  BY <1>1, <1>2, WriterIs DEF AdvanceWrite, PayingStatus, IInv, RequestInv, Terminal
<1>4. /\ OthersSame(r) /\ req'[r].pc # "write" /\ ~Claiming(r)'
      /\ \A x \in Orders \ {o} : orders'[x] = orders[x]
      /\ orders'[o].status = req[r].to
      /\ orders'[o].courier_id = orders[o].courier_id
  <2>1. PICK to \in Statuses, d \in Couriers \cup {NULL} :
          to = req[r].to /\ d = orders[o].courier_id
    BY <1>3
  <2>2. Update(r, TRUE, to, d)
    BY <1>2, <2>1 DEF AdvanceWrite
  <2>3. HitsRow(r, o, to, d)
    BY <1>1, <1>2, <2>2, UpdateHits
  <2>. QED
    BY <2>1, <2>3 DEF HitsRow
<1>5. PatientRequest(r, c)'
  BY <1>4 DEF PatientRequest, Claiming
<1>6. c # NULL
  BY UsersAssumption DEF Users
<1>7. Active(c)' = Active(c)
  <2>1. \A x \in Orders \ {o} : x \in Active(c)' <=> x \in Active(c)
    BY <1>4 DEF Active
  <2>2. Active(c) \subseteq Orders /\ Active(c)' \subseteq Orders
    BY DEF Active
  <2>3. ASSUME o \in Active(c)' PROVE o \in Active(c)
    <3>1. orders[o].courier_id = c
      BY <1>4, <2>3 DEF Active
    <3>2. req[r].user = c
      BY <1>3, <1>6, <3>1 DEF IInv, OrderInv
    <3>. QED
      BY <1>1, <1>2, <1>6, <3>1, <3>2 DEF PatientInv
  <2>4. ASSUME o \in Active(c) PROVE o \in Active(c)'
    BY <1>3, <1>4, <2>4 DEF Active
  <2>. QED
    BY <2>1, <2>2, <2>3, <2>4
<1>8. ASSUME NEW q \in Requests, req[q].user = c, req[q].pc = "write"
      PROVE  \/ req[q].order \in Active(c)'
             \/ orders'[req[q].order].courier_id = NULL
  <2>1. req[q].order \in Orders
    BY <1>8, WriterIs DEF InFlight
  <2>. QED
    BY <1>4, <1>7, <1>8, <2>1 DEF PatientInv
<1>. QED
  BY <1>4, <1>5, <1>7, <1>8, PatientSlots DEF PatientInv, OneActive

\* Completing and cancelling take an order off the courier's hands; a second
\* step on a completed one would have made the courier hasty.
LEMMA CompleteWritePatient ==
  ASSUME IInv, HistoryOK, NEW c \in Couriers \ hasty, PatientInv(c),
         NEW r \in Requests, CompleteWrite(r)
  PROVE  PatientInv(c)'
<1>1. InFlight(r) /\ req[r].pc = "write" /\ Deciding(r)
  BY DEF CompleteWrite, InFlight, Deciding
<1>2. PICK o \in Orders : o = req[r].order
  BY <1>1, WriterIs
<1>3. /\ req[r].user = winner[o] /\ req[r].to = "completed"
      /\ req[r].to \in Statuses /\ orders[o].courier_id \in Couriers \cup {NULL}
  BY <1>1, <1>2, WriterIs DEF CompleteWrite, PayingStatus, IInv, RequestInv
<1>4. /\ OthersSame(r) /\ req'[r].pc # "write" /\ ~Claiming(r)'
      /\ \A x \in Orders \ {o} : orders'[x] = orders[x]
      /\ orders'[o].courier_id = orders[o].courier_id
      /\ orders'[o].status = "completed" \/ orders' = orders
  <2>1. CASE UniqueViolation(o)
    <3>1. orders' = orders /\ Return(r)
      BY <1>2, <2>1 DEF CompleteWrite, Update, AfterUpdate
    <3>. QED
      BY <3>1, ReturnEnds
  <2>2. CASE ~UniqueViolation(o)
    <3>1. PICK to \in Statuses, d \in Couriers \cup {NULL} :
            to = req[r].to /\ d = orders[o].courier_id
      BY <1>3
    <3>2. Update(r, TRUE, to, d)
      BY <1>2, <2>2, <3>1 DEF CompleteWrite
    <3>3. HitsRow(r, o, to, d)
      BY <1>1, <1>2, <3>2, UpdateHits
    <3>. QED
      BY <1>3, <3>1, <3>3 DEF HitsRow
  <2>. QED
    BY <2>1, <2>2
<1>5. PatientRequest(r, c)'
  BY <1>4 DEF PatientRequest, Claiming
<1>6. c # NULL
  BY UsersAssumption DEF Users
<1>7. Active(c)' \subseteq Active(c) /\ Active(c) \ {o} \subseteq Active(c)'
  BY <1>4 DEF Active, Terminal
<1>8. ASSUME NEW q \in Requests, q # r, req[q].user = c, req[q].pc = "write"
      PROVE  \/ req[q].order \in Active(c)'
             \/ orders'[req[q].order].courier_id = NULL
  <2>1. req[q].order \in Orders
    BY <1>8, WriterIs DEF InFlight
  <2>2. CASE orders[req[q].order].courier_id = NULL
    BY <1>4, <2>1, <2>2
  <2>3. CASE req[q].order \in Active(c)
    <3>1. req[q].order # o
      <4>. SUFFICES ASSUME req[q].order = o PROVE FALSE
        OBVIOUS
      <4>1. orders[o].courier_id = c
        BY <2>3 DEF Active
      <4>2. req[r].user = c
        BY <1>3, <1>6, <4>1 DEF IInv, OrderInv
      <4>. QED
        BY <1>1, <1>8, <4>2, DecidesAlone DEF Deciding
    <3>. QED
      BY <1>7, <2>3, <3>1
  <2>. QED
    BY <1>8, <2>2, <2>3 DEF PatientInv
<1>. QED
  BY <1>4, <1>5, <1>7, <1>8, PatientSlots DEF PatientInv, OneActive

LEMMA CancelVoidPatient ==
  ASSUME IInv, NEW c \in Couriers, PatientInv(c), NEW r \in Requests,
         CancelVoid(r)
  PROVE  PatientInv(c)'
<1>1. InFlight(r)
  BY DEF CancelVoid, InFlight
<1>2. PICK o \in Orders : o = req[r].order
  BY <1>1, WriterIs
<1>3. /\ OthersSame(r) /\ req'[r].pc # "write" /\ ~Claiming(r)'
      /\ \A x \in Orders \ {o} : orders'[x] = orders[x]
      /\ orders'[o].courier_id = NULL \/ orders' = orders
  <2>1. CASE orders[o].status \notin Terminal
    <3>1. Update(r, TRUE, "cancelled", NULL)
      BY <1>2, <2>1 DEF CancelVoid
    <3>2. HitsRow(r, o, "cancelled", NULL)
      BY <1>1, <1>2, <3>1, UpdateHits DEF Statuses
    <3>. QED
      BY <3>2 DEF HitsRow
  <2>2. CASE orders[o].status \in Terminal
    <3>1. orders' = orders /\ Return(r)
      BY <1>2, <2>2 DEF CancelVoid, Update, AfterUpdate
    <3>. QED
      BY <3>1, ReturnEnds
  <2>. QED
    BY <2>1, <2>2
<1>4. PatientRequest(r, c)'
  BY <1>3 DEF PatientRequest, Claiming
<1>5. c # NULL
  BY UsersAssumption DEF Users
<1>6. CASE orders' = orders
  BY <1>3, <1>4, <1>6, PatientStays
<1>7. CASE orders'[o].courier_id = NULL
  <2>1. Active(c)' \subseteq Active(c) /\ Active(c) \ {o} \subseteq Active(c)'
    BY <1>3, <1>5, <1>7 DEF Active
  <2>2. ASSUME NEW q \in Requests, req[q].user = c, req[q].pc = "write"
        PROVE  \/ req[q].order \in Active(c)'
               \/ orders'[req[q].order].courier_id = NULL
    <3>1. req[q].order \in Orders
      BY <2>2, WriterIs DEF InFlight
    <3>. QED
      BY <1>3, <1>7, <2>1, <2>2, <3>1 DEF PatientInv
  <2>. QED
    BY <1>3, <1>4, <2>1, <2>2, PatientSlots DEF PatientInv, OneActive
<1>. QED
  BY <1>3, <1>6, <1>7

LEMMA PatientNext ==
  ASSUME IInv, HistoryOK, NEW c \in Couriers \ hasty, PatientInv(c), Next
  PROVE  PatientInv(c)'
<1>1. ASSUME NEW r \in Requests, NEW d \in Couriers, NEW o \in Orders,
             ClaimCheckShift(r, d, o)
      PROVE  PatientInv(c)'
  <2>1. OthersSame(r) /\ orders' = orders /\ req'[r].pc = "count"
    BY <1>1 DEF ClaimCheckShift, Begin, OthersSame, tables, IInv, TypeOK
  <2>. QED
    BY <2>1, PatientPast
<1>2. ASSUME NEW r \in Requests, NEW d \in Couriers, NEW o \in Orders,
             NEW target \in {"picked_up", "in_delivery", "completed"},
             AdvanceLoad(r, d, o, target)
      PROVE  PatientInv(c)'
  <2>1. /\ OthersSame(r) /\ orders' = orders /\ req'[r].pc = "write"
        /\ req'[r].user = d /\ req'[r].order = o
    BY <1>2 DEF AdvanceLoad, Begin, OthersSame, tables, IInv, TypeOK, Idle
  <2>2. o \in Active(d)
    BY <1>2 DEF AdvanceLoad, MayAdvance, Active, CourierTransition, Terminal
  <2>3. o \in Active(d)'
    BY <2>1, <2>2 DEF Active
  <2>4. PatientRequest(r, c)'
    BY <2>1, <2>3 DEF PatientRequest
  <2>. QED
    BY <2>1, <2>4, PatientStays
<1>3. ASSUME NEW r \in Requests, NEW u \in Staff, NEW o \in Orders,
             CancelLoad(r, u, o)
      PROVE  PatientInv(c)'
  <2>1. OthersSame(r) /\ orders' = orders /\ req'[r].pc = "void"
    BY <1>3 DEF CancelLoad, MayCancel, Begin, OthersSame, tables, IInv, TypeOK
  <2>. QED
    BY <2>1, PatientPast
<1>4. ASSUME NEW r \in Requests, ClaimCount(r) PROVE PatientInv(c)'
  <2>1. InFlight(r) /\ orders' = orders /\ Active(c)' = Active(c)
    BY <1>4 DEF ClaimCount, InFlight, tables, Active
  <2>2. CASE Return(r)
    BY <2>1, <2>2, ReturnIs, PatientPast DEF IInv, Idle
  <2>3. CASE ~Busy(req[r].user) /\ Goto(r, "take")
    <3>1. /\ OthersSame(r)
          /\ req'[r].pc = "take" /\ req'[r].user = req[r].user
      BY <2>1, <2>3, GotoIs DEF IInv, Steps, Resumed
    <3>2. PatientRequest(r, c)'
      BY <2>1, <2>3, <3>1 DEF PatientRequest, Busy
    <3>. QED
      BY <2>1, <3>1, <3>2, PatientStays
  <2>. QED
    BY <1>4, <2>2, <2>3 DEF ClaimCount
<1>5. ASSUME NEW r \in Requests,
             \/ Reload(r) \/ AppendAuditEntry(r) \/ TellCourier(r)
             \/ EmitStatusChanged(r) \/ EnqueueCallback(r) \/ Fail(r)
      PROVE  PatientInv(c)'
  BY <1>5, PastIs, PatientPast
<1>6. ASSUME NEW d \in Couriers, OpenShift(d) \/ CloseShift(d)
      PROVE  PatientInv(c)'
  BY <1>6 DEF OpenShift, CloseShift, tables, PatientInv, OneActive, Active
<1>7. ASSUME NEW r \in Requests, Continue(r) PROVE PatientInv(c)'
  BY <1>4, <1>5, <1>7, ClaimTakePatient, AdvanceWritePatient,
     CompleteWritePatient, CancelVoidPatient DEF Continue
<1>. QED
  BY <1>1, <1>2, <1>3, <1>5, <1>6, <1>7 DEF Next


-----------------------------------------------------------------------------
(***************************************************************************)
(* The order whose requests do not overlap.  A step elsewhere leaves all   *)
(* of it alone; a step of the request that is alone with it finds what the *)
(* request has read.                                                       *)
(***************************************************************************)
\* Whoever is at work on an order that is not contested is alone with it.
LEMMA Alone ==
  ASSUME HistoryOK, NEW o \in Orders \ contested, NEW r \in Requests, Engaged(r),
         req[r].order = o, NEW q \in Requests, q # r, Engaged(q)
  PROVE  req[q].order # o
BY DEF HistoryOK, Contested

\* The request in slot r has touched no order but o.
Local(r, o) ==
  /\ OthersSame(r)
  /\ InFlight(r) => req[r].order = o
  /\ InFlight(r)' => req'[r].order = o
  /\ \A x \in Orders \ {o} : /\ orders'[x] = orders[x]
                             /\ winner'[x] = winner[x]
                             /\ staffRoom'[x] = staffRoom[x]
                             /\ HasRow(earnings', x) <=> HasRow(earnings, x)
  /\ cancelJobs \subseteq cancelJobs'
  /\ audit \subseteq audit'
  /\ \A e \in audit' : e.order # o => e \in audit
  /\ failures' = failures

LEMMA Elsewhere ==
  ASSUME NEW r \in Requests, NEW o \in Orders, Local(r, o),
         NEW x \in Orders, x # o, AloneInv(x)
  PROVE  AloneInv(x)'
<1>1. /\ orders'[x] = orders[x]
      /\ winner'[x] = winner[x]
      /\ staffRoom'[x] = staffRoom[x]
      /\ HasRow(earnings', x) <=> HasRow(earnings, x)
      /\ cancelJobs \subseteq cancelJobs'
      /\ failures' = failures
      /\ \A e \in audit' : e.order = x => e \in audit
  BY DEF Local
<1>2. ASSUME NEW q \in Requests
      PROVE  /\ OwesStaff(q, x) => OwesStaff(q, x)'
             /\ OwesPush(q, x) => OwesPush(q, x)'
  <2>1. CASE q = r
    BY <2>1 DEF Local, OwesStaff, OwesPush, InFlight
  <2>2. CASE q # r
    BY <1>1, <2>2 DEF Local, OthersSame, OwesStaff, OwesPush
  <2>. QED
    BY <2>1, <2>2
<1>3. AloneRow(x)'
  <2>1. AloneRow(x)
    BY DEF AloneInv
  <2>. QED
    BY <1>1, <1>2, <2>1 DEF AloneRow, HasRow
<1>4. AloneAudit(x)'
  BY <1>1 DEF AloneInv, AloneAudit
<1>5. ASSUME NEW q \in Requests, Engaged(q)', req'[q].order = x
      PROVE  AloneRequest(q)'
  <2>1. q # r
    BY <1>5 DEF Local, Engaged
  <2>2. req'[q] = req[q]
    BY <2>1 DEF Local, OthersSame
  <2>3. Engaged(q) /\ req[q].order = x
    BY <1>5, <2>2 DEF Engaged, InFlight, Claiming
  <2>4. AloneRequest(q)
    BY <2>3 DEF AloneInv
  <2>. QED
    BY <1>1, <2>2, <2>3, <2>4 DEF AloneRequest, Moved
<1>. QED
  BY <1>3, <1>4, <1>5 DEF AloneInv

\* A step that leaves the rows, the room and the audit alone.
LEMMA Still ==
  ASSUME NEW r \in Requests, NEW x \in Orders, AloneInv(x), OthersSame(r),
         UNCHANGED <<tables, staffRoom, audit>>, cancelJobs \subseteq cancelJobs',
         failures' = 0 =>
           /\ failures = 0
           /\ OwesStaff(r, x) => OwesStaff(r, x)'
           /\ OwesPush(r, x) /\ winner[x] # NULL =>
                OwesPush(r, x)'
                \/ [order |-> x, courier |-> winner[x]] \in cancelJobs',
         Engaged(r)' /\ req'[r].order = x => AloneRequest(r)'
  PROVE  AloneInv(x)'
<1>1. /\ orders' = orders /\ winner' = winner /\ staffRoom' = staffRoom
      /\ audit' = audit /\ earnings' = earnings
  BY DEF tables
<1>2. ASSUME NEW q \in Requests, q # r
      PROVE  /\ OwesStaff(q, x) => OwesStaff(q, x)'
             /\ OwesPush(q, x) => OwesPush(q, x)'
  BY <1>1, <1>2 DEF OthersSame, OwesStaff, OwesPush
<1>3. AloneRow(x)'
  <2>1. AloneRow(x)
    BY DEF AloneInv
  <2>2. ASSUME failures' = 0
        PROVE  staffRoom[x] = orders[x].status \/ \E q \in Requests : OwesStaff(q, x)'
    BY <1>2, <2>1, <2>2 DEF AloneRow
  <2>3. ASSUME failures' = 0, orders[x].status = "cancelled", winner[x] # NULL
        PROVE  \/ [order |-> x, courier |-> winner[x]] \in cancelJobs'
               \/ \E q \in Requests : OwesPush(q, x)'
    BY <1>2, <2>1, <2>3 DEF AloneRow
  <2>. QED
    BY <1>1, <2>1, <2>2, <2>3 DEF AloneRow, HasRow
<1>4. AloneAudit(x)'
  BY <1>1 DEF AloneInv, AloneAudit
<1>5. ASSUME NEW q \in Requests, q # r, Engaged(q)', req'[q].order = x
      PROVE  AloneRequest(q)'
  <2>1. req'[q] = req[q]
    BY <1>5 DEF OthersSame
  <2>2. Engaged(q) /\ req[q].order = x
    BY <1>5, <2>1 DEF Engaged, InFlight, Claiming
  <2>3. AloneRequest(q)
    BY <2>2 DEF AloneInv
  <2>. QED
    BY <1>1, <2>1, <2>3 DEF AloneRequest, Moved
<1>. QED
  BY <1>3, <1>4, <1>5 DEF AloneInv

\* A request that ends without owing anything more, or lost.
LEMMA ReturnAlone ==
  ASSUME IInv, NEW r \in Requests, NEW x \in Orders, AloneInv(x), Return(r),
         UNCHANGED <<tables, staffRoom, audit>>, cancelJobs \subseteq cancelJobs',
         failures' = 0 =>
           failures = 0 /\ req[r].pc \notin {"reload", "audit", "tell", "emit"}
  PROVE  AloneInv(x)'
<1>1. OthersSame(r) /\ req'[r].pc = "idle"
  BY ReturnEnds
<1>2. ~Engaged(r)'
  BY <1>1 DEF Engaged, InFlight
<1>. QED
  BY <1>1, <1>2, Still DEF OwesStaff, OwesPush

-----------------------------------------------------------------------------
(***************************************************************************)
(* The loads: what a request begins with is what the row says.             *)
(***************************************************************************)
LEMMA BeginAlone ==
  ASSUME IInv, NEW r \in Requests, NEW x \in Orders, AloneInv(x), OthersSame(r),
         ~InFlight(r), UNCHANGED <<tables, audit, outputs, failures>>,
         Engaged(r)' => AloneRequest(r)'
  PROVE  AloneInv(x)'
<1>1. ~OwesStaff(r, x) /\ ~OwesPush(r, x)
  BY DEF OwesStaff, OwesPush, InFlight
<1>. QED
  BY <1>1, Still DEF outputs

LEMMA ClaimCheckShiftAlone ==
  ASSUME IInv, NEW x \in Orders, AloneInv(x), NEW r \in Requests,
         NEW c \in Couriers, NEW o \in Orders, ClaimCheckShift(r, c, o)
  PROVE  AloneInv(x)'
<1>1. /\ OthersSame(r) /\ ~InFlight(r) /\ req'[r].pc = "count"
      /\ UNCHANGED <<tables, audit, outputs, failures>>
  BY DEF ClaimCheckShift, Begin, OthersSame, Idle, InFlight, IInv, TypeOK
<1>2. ~Engaged(r)'
  BY <1>1 DEF Engaged, Claiming
<1>. QED
  BY <1>1, <1>2, BeginAlone

LEMMA AdvanceLoadAlone ==
  ASSUME IInv, NEW x \in Orders, AloneInv(x), NEW r \in Requests,
         NEW c \in Couriers, NEW o \in Orders,
         NEW target \in {"picked_up", "in_delivery", "completed"},
         AdvanceLoad(r, c, o, target)
  PROVE  AloneInv(x)'
<1>1. /\ OthersSame(r) /\ ~InFlight(r)
      /\ req'[r].pc = "write" /\ req'[r].user = c /\ req'[r].order = o
      /\ req'[r].from = orders[o].status
      /\ UNCHANGED <<tables, audit, outputs, failures>>
  BY DEF AdvanceLoad, Begin, OthersSame, Idle, InFlight, IInv, TypeOK
<1>2. orders[o].courier_id = c
  BY DEF AdvanceLoad, MayAdvance
<1>3. AloneRequest(r)'
  BY <1>1, <1>2 DEF AloneRequest, Moved, tables
<1>. QED
  BY <1>1, <1>3, BeginAlone

LEMMA CancelLoadAlone ==
  ASSUME IInv, NEW x \in Orders, AloneInv(x), NEW r \in Requests,
         NEW u \in Staff, NEW o \in Orders, CancelLoad(r, u, o)
  PROVE  AloneInv(x)'
<1>1. /\ OthersSame(r) /\ ~InFlight(r)
      /\ req'[r].pc = "void" /\ req'[r].order = o
      /\ req'[r].from = orders[o].status
      /\ req'[r].courier = orders[o].courier_id
      /\ UNCHANGED <<tables, audit, outputs, failures>>
  BY DEF CancelLoad, MayCancel, Begin, OthersSame, Idle, InFlight, IInv, TypeOK
<1>2. orders[o].status \in DOMAIN OperatorTransition
  BY DEF CancelLoad, MayCancel
<1>3. AloneRequest(r)'
  BY <1>1, <1>2 DEF AloneRequest, Moved, tables
<1>. QED
  BY <1>1, <1>3, BeginAlone

LEMMA ClaimCountAlone ==
  ASSUME IInv, NEW x \in Orders, AloneInv(x), NEW r \in Requests, ClaimCount(r)
  PROVE  AloneInv(x)'
<1>1. /\ InFlight(r) /\ req[r].pc = "count"
      /\ UNCHANGED <<tables, audit, outputs, failures>>
  BY DEF ClaimCount, InFlight
<1>2. CASE Return(r)
  BY <1>1, <1>2, ReturnAlone DEF outputs
<1>3. CASE Goto(r, "take")
  <2>1. OthersSame(r) /\ req'[r].pc = "take"
    BY <1>1, <1>3, GotoIs DEF IInv, Steps, Resumed
  <2>2. ~Engaged(r)'
    BY <2>1 DEF Engaged, Claiming
  <2>. QED
    BY <1>1, <2>1, <2>2, Still DEF OwesStaff, OwesPush, outputs
<1>. QED
  BY <1>2, <1>3 DEF ClaimCount

-----------------------------------------------------------------------------
(***************************************************************************)
(* The writes: the row still is what was read, and its transition is one   *)
(* of the tables.                                                          *)
(***************************************************************************)
\* What an UPDATE leaves of the orders it is not about.
LEMMA UpdateElsewhere ==
  ASSUME IInv, NEW r \in Requests, InFlight(r), NEW o \in Orders,
         o = req[r].order, NEW to \in Statuses,
         NEW courier \in Couriers \cup {NULL}, HitsRow(r, o, to, courier),
         \A y \in Orders \ {o} : /\ HasRow(earnings', y) <=> HasRow(earnings, y)
                                 /\ winner'[y] = winner[y],
         UNCHANGED <<audit, outputs, failures>>
  PROVE  Local(r, o)
<1>1. req'[r].order = o
  BY DEF HitsRow, Resumed
<1>2. \A y \in Orders \ {o} : /\ orders'[y] = orders[y]
                              /\ winner'[y] = winner[y]
                              /\ staffRoom'[y] = staffRoom[y]
                              /\ HasRow(earnings', y) <=> HasRow(earnings, y)
  BY DEF HitsRow, outputs
<1>. QED
  BY <1>1, <1>2 DEF Local, HitsRow, outputs

LEMMA UpdateAlone ==
  ASSUME IInv, HistoryOK', NEW r \in Requests, InFlight(r),
         NEW o \in Orders, o \notin contested', AloneInv(o),
         o = req[r].order, NEW to \in Statuses, to = req[r].to,
         NEW courier \in Couriers \cup {NULL}, HitsRow(r, o, to, courier),
         req[r].from = orders[o].status,
         Progress[req[r].from] < Progress[to],
         courier = NULL <=> to = "cancelled",
         HasRow(earnings', o) <=> to = "completed",
         to = "cancelled" /\ winner'[o] # NULL => req[r].courier = winner'[o],
         UNCHANGED <<audit, outputs, failures>>
  PROVE  AloneInv(o)'
<1>1. req[r].from \in Statuses
  BY WriterIs
<1>2. /\ orders'[o].status = to
      /\ orders'[o].courier_id = courier
      /\ Resumed(r, "reload") /\ ~Claiming(r)'
      /\ req'[r].pc = "reload" /\ req'[r].order = o
      /\ req'[r].from = req[r].from /\ req'[r].to = to
      /\ req'[r].courier = req[r].courier
  BY DEF HitsRow, Resumed
<1>3. to # "created"
  BY <1>1, ProgressIs
<1>4. Engaged(r)'
  BY <1>2 DEF Engaged, InFlight
<1>5. ASSUME NEW q \in Requests, q # r, Engaged(q)', req'[q].order = o
      PROVE  FALSE
  BY <1>2, <1>4, <1>5 DEF HistoryOK, Contested
<1>6. AloneRow(o)'
  <2>1. OwesStaff(r, o)'
    BY <1>2 DEF OwesStaff
  <2>2. to = "cancelled" /\ winner'[o] # NULL => OwesPush(r, o)'
    BY <1>2 DEF OwesPush
  <2>. QED
    BY <1>2, <1>3, <2>1, <2>2 DEF AloneRow, HasRow
<1>7. \A e \in audit : e.order = o => Progress[e.from] < Progress[orders[o].status]
  BY DEF AloneInv, AloneAudit
<1>8. AloneRequest(r)'
  <2>1. ASSUME NEW e \in audit, e.order = o PROVE e.from # req[r].from
    <3>1. Progress[e.from] < Progress[req[r].from] /\ Progress[req[r].from] \in 0..4
      BY <1>1, <1>7, <2>1, ProgressIs
    <3>. QED
      BY <3>1
  <2>. QED
    BY <1>2, <2>1 DEF AloneRequest, Moved
<1>9. AloneAudit(o)'
  <2>1. ASSUME NEW e \in audit, e.order = o PROVE Progress[e.from] < Progress[to]
    <3>1. e.from \in Statuses
      BY DEF IInv, TypeOK, AuditRow
    <3>2. /\ Progress[e.from] \in 0..4
          /\ Progress[req[r].from] \in 0..4
          /\ Progress[to] \in 0..4
      BY <1>1, <3>1, ProgressIs
    <3>3. Progress[e.from] < Progress[req[r].from]
      BY <1>7, <2>1
    <3>. QED
      BY <3>2, <3>3
  <2>2. \A e, f \in audit : e.order = o /\ f.order = o /\ f.from = e.from => e = f
    BY DEF AloneInv, AloneAudit
  <2>. QED
    BY <1>2, <2>1, <2>2 DEF AloneAudit
<1>. QED
  BY <1>5, <1>6, <1>8, <1>9 DEF AloneInv

LEMMA ClaimTakeAlone ==
  ASSUME IInv, HistoryOK', NEW x \in Orders, x \notin contested', AloneInv(x),
         NEW r \in Requests, StepInv(r), ClaimTake(r)
  PROVE  AloneInv(x)'
<1>1. /\ InFlight(r) /\ req[r].pc = "take" /\ req[r].to = "assigned"
      /\ req[r].from = "created" /\ req[r].user \in Couriers
  BY DEF ClaimTake, InFlight, IInv, RequestInv, StepInv, Claiming
<1>2. PICK o \in Orders : o = req[r].order
  BY <1>1, WriterIs
<1>3. PICK c \in Couriers : c = req[r].user
  BY <1>1
<1>4. c # NULL /\ "assigned" \in Statuses
  BY UsersAssumption DEF Users, Statuses
<1>5. CASE Claimable(o, c)
  <2>1. /\ Update(r, TRUE, "assigned", c)
        /\ winner' = [winner EXCEPT ![o] = c]
        /\ UNCHANGED <<earnings, audit, outputs, failures>>
    BY <1>2, <1>3, <1>5 DEF ClaimTake
  <2>2. PICK to \in Statuses : to = "assigned"
    BY <1>4
  <2>3. Update(r, TRUE, to, c) /\ c \in Couriers \cup {NULL}
    BY <2>1, <2>2
  <2>4. HitsRow(r, o, to, c)
    BY <1>1, <1>2, <2>3, UpdateHits
  <2>5. \A y \in Orders \ {o} : /\ HasRow(earnings', y) <=> HasRow(earnings, y)
                                /\ winner'[y] = winner[y]
    BY <2>1 DEF HasRow, IInv, TypeOK
  <2>6. CASE x # o
    <3>1. Local(r, o)
      BY <1>1, <1>2, <2>1, <2>3, <2>4, <2>5, UpdateElsewhere
    <3>. QED
      BY <2>6, <3>1, Elsewhere
  <2>7. CASE x = o
    <3>1. AloneInv(o) /\ o \notin contested'
      BY <2>7
    <3>2. orders[o].status = "created"
      BY <1>5 DEF Claimable
    <3>3. HasRow(earnings', o) <=> to = "completed"
      BY <2>1, <2>2, <3>1, <3>2 DEF AloneInv, AloneRow, HasRow
    <3>4. /\ req[r].from = orders[o].status
          /\ Progress[req[r].from] < Progress[to]
          /\ c = NULL <=> to = "cancelled"
          /\ to = req[r].to
      BY <1>1, <1>4, <2>2, <3>2, ProgressIs
    <3>5. AloneInv(o)'
      BY <1>1, <1>2, <2>1, <2>2, <2>3, <2>4, <3>1, <3>3, <3>4, UpdateAlone
    <3>. QED
      BY <2>7, <3>5
  <2>. QED
    BY <2>6, <2>7
<1>6. CASE ~Claimable(o, c)
  <2>1. /\ Return(r) /\ UNCHANGED <<tables, staffRoom, audit>>
        /\ cancelJobs' = cancelJobs /\ failures' = failures
    BY <1>2, <1>3, <1>6 DEF ClaimTake, Update, AfterUpdate, outputs, tables
  <2>. QED
    BY <1>1, <2>1, ReturnAlone
<1>. QED
  BY <1>5, <1>6

\* What a courier's step knows when it comes to write.
LEMMA WriteIsFresh ==
  ASSUME IInv, NEW r \in Requests, req[r].pc = "write", StepInv(r),
         NEW o \in Orders, o = req[r].order, AloneInv(o)
  PROVE  /\ req[r].from = orders[o].status
         /\ req[r].user = orders[o].courier_id
         /\ orders[o].courier_id # NULL
         /\ ~HasRow(earnings, o) /\ ~HasRow(records, o)
         /\ \/ req[r].from = "assigned" /\ req[r].to = "picked_up"
            \/ req[r].from = "picked_up" /\ req[r].to = "in_delivery"
            \/ req[r].from = "in_delivery" /\ req[r].to = "completed"
<1>1. Engaged(r)
  BY DEF Engaged, InFlight, Claiming
<1>2. /\ req[r].from = orders[o].status
      /\ req[r].user = orders[o].courier_id
  BY <1>1 DEF AloneInv, AloneRequest
<1>3. \/ req[r].from = "assigned" /\ req[r].to = "picked_up"
      \/ req[r].from = "picked_up" /\ req[r].to = "in_delivery"
      \/ req[r].from = "in_delivery" /\ req[r].to = "completed"
  BY DEF StepInv, CourierTransition
<1>4. orders[o].courier_id # NULL
  BY <1>2, <1>3 DEF AloneInv, AloneRow
<1>5. ~HasRow(earnings, o) /\ ~HasRow(records, o)
  BY <1>2, <1>3 DEF AloneInv, AloneRow, IInv, MoneyInv, HasRow
<1>. QED
  BY <1>2, <1>3, <1>4, <1>5

LEMMA AdvanceWriteAlone ==
  ASSUME IInv, HistoryOK', NEW x \in Orders, x \notin contested', AloneInv(x),
         NEW r \in Requests, StepInv(r), AdvanceWrite(r)
  PROVE  AloneInv(x)'
<1>1. InFlight(r) /\ req[r].pc = "write" /\ req[r].to # "completed"
  BY DEF AdvanceWrite, PayingStatus, InFlight
<1>2. PICK o \in Orders : o = req[r].order
  BY <1>1, WriterIs
<1>3. PICK to \in Statuses, c \in Couriers \cup {NULL} :
        to = req[r].to /\ c = orders[o].courier_id
  BY <1>1, <1>2, WriterIs
<1>4. /\ Update(r, TRUE, to, c)
      /\ UNCHANGED <<earnings, winner, audit, outputs, failures>>
  BY <1>2, <1>3 DEF AdvanceWrite
<1>5. HitsRow(r, o, to, c)
  BY <1>1, <1>2, <1>4, UpdateHits
<1>6. CASE x # o
  <2>1. Local(r, o)
    BY <1>1, <1>2, <1>4, <1>5, UpdateElsewhere DEF HasRow
  <2>. QED
    BY <1>6, <2>1, Elsewhere
<1>7. CASE x = o
  <2>1. AloneInv(o) /\ o \notin contested'
    BY <1>7
  <2>2. /\ req[r].from = orders[o].status
        /\ Progress[req[r].from] < Progress[to]
        /\ c # NULL /\ to \in {"picked_up", "in_delivery"}
        /\ ~HasRow(earnings, o)
    BY <1>1, <1>2, <1>3, <2>1, WriteIsFresh, ProgressIs
  <2>3. /\ HasRow(earnings', o) <=> to = "completed"
        /\ c = NULL <=> to = "cancelled"
    BY <1>4, <2>2 DEF HasRow
  <2>4. AloneInv(o)'
    BY <1>1, <1>2, <1>3, <1>4, <1>5, <2>1, <2>2, <2>3, UpdateAlone
  <2>. QED
    BY <1>7, <2>4
<1>. QED
  BY <1>6, <1>7

LEMMA CompleteWriteAlone ==
  ASSUME IInv, IInv', HistoryOK', NEW x \in Orders, x \notin contested',
         AloneInv(x), NEW r \in Requests, StepInv(r), CompleteWrite(r)
  PROVE  AloneInv(x)'
<1>1. InFlight(r) /\ req[r].pc = "write" /\ req[r].to = "completed"
  BY DEF CompleteWrite, PayingStatus, InFlight
<1>2. PICK o \in Orders : o = req[r].order
  BY <1>1, WriterIs
<1>3. CASE UniqueViolation(o)
  <2>1. /\ Return(r) /\ UNCHANGED <<tables, staffRoom, audit>>
        /\ cancelJobs' = cancelJobs /\ failures' = failures
    BY <1>2, <1>3 DEF CompleteWrite, Update, AfterUpdate, outputs, tables
  <2>. QED
    BY <1>1, <2>1, ReturnAlone
<1>4. CASE ~UniqueViolation(o)
  <2>1. PICK to \in Statuses, c \in Couriers \cup {NULL} :
          to = req[r].to /\ c = orders[o].courier_id
    BY <1>1, <1>2, WriterIs
  <2>2. /\ Update(r, TRUE, to, c)
        /\ earnings' = Insert(earnings, o, req[r].user)
        /\ UNCHANGED <<winner, audit, outputs, failures>>
    BY <1>2, <1>4, <2>1 DEF CompleteWrite
  <2>3. HitsRow(r, o, to, c)
    BY <1>1, <1>2, <2>2, UpdateHits
  <2>4. \A y \in Orders \ {o} : /\ HasRow(earnings', y) <=> HasRow(earnings, y)
                                /\ winner'[y] = winner[y]
    BY <2>2 DEF Insert, HasRow, IInv, TypeOK
  <2>5. CASE x # o
    <3>1. Local(r, o)
      BY <1>1, <1>2, <2>2, <2>3, <2>4, UpdateElsewhere
    <3>. QED
      BY <2>5, <3>1, Elsewhere
  <2>6. CASE x = o
    <3>1. AloneInv(o) /\ o \notin contested'
      BY <2>6
    <3>2. /\ req[r].from = orders[o].status
          /\ Progress[req[r].from] < Progress[to]
          /\ c # NULL
      BY <1>1, <1>2, <2>1, <3>1, WriteIsFresh, ProgressIs
    <3>3. HasRow(earnings', o)
      <4>1. orders'[o].status = "completed"
        BY <1>1, <2>1, <2>3 DEF HitsRow
      <4>. QED
        BY <4>1 DEF IInv, OrderInv, HasRow
    <3>4. /\ HasRow(earnings', o) <=> to = "completed"
          /\ c = NULL <=> to = "cancelled"
          /\ to # "cancelled"
      BY <1>1, <2>1, <3>2, <3>3
    <3>5. AloneInv(o)'
      BY <1>1, <1>2, <2>1, <2>2, <2>3, <3>1, <3>2, <3>4, UpdateAlone
    <3>. QED
      BY <2>6, <3>5
  <2>. QED
    BY <2>5, <2>6
<1>. QED
  BY <1>3, <1>4

LEMMA CancelVoidAlone ==
  ASSUME IInv, HistoryOK', NEW x \in Orders, x \notin contested', AloneInv(x),
         NEW r \in Requests, CancelVoid(r)
  PROVE  AloneInv(x)'
<1>1. /\ InFlight(r) /\ Engaged(r)
      /\ req[r].pc = "void" /\ req[r].to = "cancelled"
  BY DEF CancelVoid, InFlight, Engaged, Claiming, IInv, RequestInv
<1>2. PICK o \in Orders : o = req[r].order
  BY <1>1, WriterIs
<1>3. CASE orders[o].status \in Terminal
  <2>1. /\ Return(r) /\ UNCHANGED <<tables, staffRoom, audit>>
        /\ cancelJobs' = cancelJobs /\ failures' = failures
    BY <1>2, <1>3 DEF CancelVoid, Update, AfterUpdate, outputs, tables
  <2>. QED
    BY <1>1, <2>1, ReturnAlone
<1>4. CASE orders[o].status \notin Terminal
  <2>1. PICK to \in Statuses : to = "cancelled"
    BY DEF Statuses
  <2>2. PICK c \in Couriers \cup {NULL} : c = NULL
    OBVIOUS
  <2>3. /\ Update(r, TRUE, to, c)
        /\ UNCHANGED <<earnings, winner, audit, outputs, failures>>
    BY <1>2, <1>4, <2>1, <2>2 DEF CancelVoid
  <2>4. HitsRow(r, o, to, c)
    BY <1>1, <1>2, <2>3, UpdateHits
  <2>5. CASE x # o
    <3>1. Local(r, o)
      BY <1>1, <1>2, <2>3, <2>4, UpdateElsewhere DEF HasRow
    <3>. QED
      BY <2>5, <3>1, Elsewhere
  <2>6. CASE x = o
    <3>1. AloneInv(o) /\ o \notin contested'
      BY <2>6
    <3>2. /\ req[r].from = orders[o].status
          /\ req[r].from \in DOMAIN OperatorTransition
          /\ req[r].courier = orders[o].courier_id
      BY <1>1, <1>2, <3>1 DEF AloneInv, AloneRequest
    <3>3. orders[o].status \in {"created", "assigned", "picked_up", "in_delivery"}
      BY <3>2 DEF OperatorTransition
    <3>4. winner[o] # NULL => req[r].courier = winner[o]
      BY <3>1, <3>2, <3>3 DEF AloneInv, AloneRow, IInv, OrderInv
    <3>5. ~HasRow(earnings, o)
      BY <3>1, <3>3 DEF AloneInv, AloneRow
    <3>6. /\ HasRow(earnings', o) <=> to = "completed"
          /\ c = NULL <=> to = "cancelled"
          /\ Progress[req[r].from] < Progress[to]
          /\ to = req[r].to
      BY <1>1, <2>1, <2>2, <2>3, <3>2, <3>3, <3>5, ProgressIs DEF HasRow
    <3>7. AloneInv(o)'
      BY <1>1, <1>2, <2>3, <2>4, <3>1, <3>2, <3>4, <3>6, UpdateAlone
    <3>. QED
      BY <2>6, <3>7
  <2>. QED
    BY <2>5, <2>6
<1>. QED
  BY <1>3, <1>4

-----------------------------------------------------------------------------
(***************************************************************************)
(* What follows the write.                                                 *)
(***************************************************************************)
LEMMA ReloadAlone ==
  ASSUME IInv, NEW x \in Orders, AloneInv(x), NEW r \in Requests, Reload(r)
  PROVE  AloneInv(x)'
<1>1. /\ InFlight(r) /\ Engaged(r) /\ Moved(r) /\ req[r].pc = "reload"
      /\ UNCHANGED <<tables, audit, outputs, failures>>
  BY DEF Reload, InFlight, Engaged, Claiming, Moved
<1>2. PICK o \in Orders : o = req[r].order
  BY <1>1, WriterIs
<1>3. req'[r] = [req[r] EXCEPT !.pc = "audit", !.seen = orders[o].status]
  BY <1>2 DEF Reload, SeenNow, IInv, TypeOK
<1>4. /\ OthersSame(r)
      /\ req'[r].pc = "audit" /\ req'[r].seen = orders[o].status
      /\ req'[r].order = o /\ req'[r].from = req[r].from
      /\ req'[r].to = req[r].to /\ req'[r].courier = req[r].courier
  BY <1>1, <1>2, <1>3, WriterIs DEF Reload, OthersSame, Request, IInv, TypeOK
<1>5. /\ OwesStaff(r, x) => OwesStaff(r, x)'
      /\ OwesPush(r, x) => OwesPush(r, x)'
  BY <1>1, <1>2, <1>4 DEF OwesStaff, OwesPush, tables
<1>6. ASSUME req'[r].order = x PROVE AloneRequest(r)'
  <2>1. AloneRequest(r) /\ x = o
    BY <1>1, <1>2, <1>4, <1>6 DEF AloneInv
  <2>. QED
    BY <1>1, <1>2, <1>4, <2>1 DEF AloneRequest, Moved, tables
<1>. QED
  BY <1>1, <1>4, <1>5, <1>6, Still DEF outputs

\* No earlier entry claims to have left the status this one has left.
LEMMA AppendAuditEntryAlone ==
  ASSUME IInv, HistoryOK, NEW x \in Orders \ contested, AloneInv(x),
         NEW r \in Requests, AppendAuditEntry(r)
  PROVE  AloneInv(x)'
<1>1. /\ InFlight(r) /\ Engaged(r) /\ Moved(r) /\ req[r].pc = "audit"
      /\ UNCHANGED <<tables, outputs, failures>>
  BY DEF AppendAuditEntry, InFlight, Engaged, Claiming, Moved
<1>2. PICK o \in Orders : o = req[r].order
  BY <1>1, WriterIs
<1>3. PICK e : e = Entry(r)
  OBVIOUS
<1>4. /\ e.order = o /\ e.from = req[r].from
      /\ audit' = audit \cup {e}
  BY <1>2, <1>3 DEF Entry, AppendAuditEntry
<1>5. PICK step \in {"tell", "emit"} :
        Goto(r, step) /\ (req[r].courier # NULL => step = "tell")
  BY DEF AppendAuditEntry, AfterAudit
<1>6. OthersSame(r) /\ Resumed(r, step) /\ req'[r].seen = req[r].seen
  BY <1>1, <1>5, GotoIs, WriterIs DEF IInv, TypeOK, Goto, Steps, Request
<1>7. CASE x # o
  <2>1. InFlight(r)' => req'[r].order = o
    BY <1>2, <1>6 DEF Resumed
  <2>2. Local(r, o)
    BY <1>1, <1>2, <1>4, <1>6, <2>1 DEF Local, tables, outputs
  <2>. QED
    BY <1>7, <2>2, Elsewhere
<1>8. CASE x = o
  <2>1. /\ AloneInv(o) /\ o \notin contested /\ AloneRequest(r)
        /\ orders[o].status = req[r].to
        /\ req[r].seen = orders[o].status
        /\ Progress[req[r].from] < Progress[req[r].to]
        /\ \A f \in audit : f.order = o => f.from # req[r].from
    BY <1>1, <1>2, <1>8 DEF AloneInv, AloneRequest
  <2>2. AloneRow(o)'
    <3>1. OwesStaff(r, o)'
      BY <1>2, <1>6 DEF OwesStaff, Resumed
    <3>2. ASSUME NEW q \in Requests, OwesPush(q, o), winner[o] # NULL
          PROVE  OwesPush(q, o)'
      BY <1>1, <1>2, <1>5, <1>6, <3>2 DEF OwesPush, OthersSame, Resumed, tables
    <3>. QED
      BY <1>1, <2>1, <3>1, <3>2 DEF AloneInv, AloneRow, HasRow, tables, outputs
  <2>3. AloneAudit(o)'
    BY <1>1, <1>4, <2>1 DEF AloneInv, AloneAudit, tables
  <2>4. AloneRequest(r)'
    BY <1>1, <1>2, <1>6, <2>1 DEF AloneRequest, Moved, Resumed, tables
  <2>5. ASSUME NEW q \in Requests, q # r, Engaged(q)', req'[q].order = o
        PROVE  FALSE
    <3>1. Engaged(q) /\ req[q].order = o
      BY <1>6, <2>5 DEF OthersSame, Engaged, InFlight, Claiming
    <3>. QED
      BY <1>1, <1>2, <2>1, <2>5, <3>1, Alone
  <2>. QED
    BY <1>8, <2>2, <2>3, <2>4, <2>5 DEF AloneInv
<1>. QED
  BY <1>7, <1>8

LEMMA TellCourierAlone ==
  ASSUME IInv, NEW x \in Orders, AloneInv(x), NEW r \in Requests, TellCourier(r)
  PROVE  AloneInv(x)'
<1>1. /\ InFlight(r) /\ Engaged(r) /\ Moved(r) /\ req[r].pc = "tell"
      /\ UNCHANGED <<tables, audit, staffRoom, failures>>
      /\ cancelJobs' = cancelJobs \cup {[order |-> req[r].order,
                                         courier |-> req[r].courier]}
  BY DEF TellCourier, InFlight, Engaged, Claiming, Moved
<1>2. OthersSame(r) /\ Resumed(r, "emit") /\ req'[r].seen = req[r].seen
  BY <1>1, GotoIs, WriterIs DEF TellCourier, IInv, TypeOK, Goto, Steps, Request
<1>3. /\ OwesStaff(r, x) => OwesStaff(r, x)'
      /\ OwesPush(r, x) => [order |-> x, courier |-> winner[x]] \in cancelJobs'
  BY <1>1, <1>2 DEF OwesStaff, OwesPush, Resumed
<1>4. ASSUME req'[r].order = x PROVE AloneRequest(r)'
  <2>1. AloneRequest(r) /\ req[r].order = x
    BY <1>1, <1>2, <1>4 DEF AloneInv, Resumed
  <2>. QED
    BY <1>1, <1>2, <2>1 DEF AloneRequest, Moved, Resumed, tables
<1>. QED
  BY <1>1, <1>2, <1>3, <1>4, Still

\* The event carries the status the order still has.
LEMMA EmitStatusChangedAlone ==
  ASSUME IInv, NEW x \in Orders, AloneInv(x), NEW r \in Requests,
         EmitStatusChanged(r)
  PROVE  AloneInv(x)'
<1>1. /\ InFlight(r) /\ Engaged(r) /\ Moved(r) /\ req[r].pc = "emit"
      /\ UNCHANGED <<tables, audit, cancelJobs, failures>>
      /\ staffRoom' = [staffRoom EXCEPT ![req[r].order] = req[r].seen]
  BY DEF EmitStatusChanged, InFlight, Engaged, Claiming, Moved
<1>2. PICK o \in Orders : o = req[r].order
  BY <1>1, WriterIs
<1>3. /\ OthersSame(r)
      /\ req'[r].pc \in {"callback", "idle"}
      /\ InFlight(r)' =>
           /\ req'[r].order = o /\ req'[r].from = req[r].from
           /\ req'[r].to = req[r].to
  <2>1. CASE Goto(r, "callback")
    BY <1>1, <1>2, <2>1, GotoIs DEF IInv, Steps, Resumed
  <2>2. CASE Return(r)
    BY <2>2, ReturnEnds DEF InFlight
  <2>. QED
    BY <2>1, <2>2 DEF EmitStatusChanged
<1>4. \A y \in Orders \ {o} : staffRoom'[y] = staffRoom[y]
  BY <1>1, <1>2 DEF IInv, TypeOK
<1>5. CASE x # o
  <2>1. Local(r, o)
    BY <1>1, <1>2, <1>3, <1>4 DEF Local, tables
  <2>. QED
    BY <1>5, <2>1, Elsewhere
<1>6. CASE x = o
  <2>1. AloneRequest(r) /\ req[r].seen = orders[o].status
    BY <1>1, <1>2, <1>6 DEF AloneInv, AloneRequest
  <2>2. staffRoom'[o] = orders[o].status
    BY <1>1, <1>2, <2>1 DEF IInv, TypeOK
  <2>3. AloneRow(o)'
    <3>1. AloneRow(o) /\ ~OwesPush(r, o)
      BY <1>1, <1>6 DEF AloneInv, OwesPush
    <3>2. ASSUME NEW q \in Requests, OwesPush(q, o) PROVE OwesPush(q, o)'
      BY <1>1, <1>3, <3>1, <3>2 DEF OthersSame, OwesPush, tables
    <3>. QED
      BY <1>1, <2>2, <3>1, <3>2 DEF AloneRow, tables, HasRow
  <2>4. AloneAudit(o)'
    BY <1>1, <1>6 DEF AloneInv, AloneAudit, tables
  <2>5. ASSUME NEW q \in Requests, Engaged(q)', req'[q].order = o
        PROVE  AloneRequest(q)'
    <3>1. CASE q = r
      BY <1>1, <1>2, <1>3, <2>1, <2>5, <3>1
         DEF AloneRequest, Moved, tables, Engaged
    <3>2. CASE q # r
      <4>1. req'[q] = req[q]
        BY <1>3, <3>2 DEF OthersSame
      <4>2. AloneRequest(q)
        BY <1>6, <2>5, <4>1 DEF AloneInv, Engaged, InFlight, Claiming
      <4>. QED
        BY <1>1, <4>1, <4>2 DEF AloneRequest, Moved, tables
    <3>. QED
      BY <3>1, <3>2
  <2>. QED
    BY <1>6, <2>3, <2>4, <2>5 DEF AloneInv
<1>. QED
  BY <1>5, <1>6

LEMMA EnqueueCallbackAlone ==
  ASSUME IInv, NEW x \in Orders, AloneInv(x), NEW r \in Requests,
         EnqueueCallback(r)
  PROVE  AloneInv(x)'
BY ReturnAlone DEF EnqueueCallback

LEMMA FailAlone ==
  ASSUME IInv, NEW x \in Orders, AloneInv(x), NEW r \in Requests, Fail(r)
  PROVE  AloneInv(x)'
<1>1. failures' # 0
  BY FailuresAssumption DEF Fail, IInv, TypeOK
<1>. QED
  BY <1>1, ReturnAlone DEF Fail, outputs

LEMMA AloneNext ==
  ASSUME IInv, IInv', HistoryOK, HistoryOK', NEW x \in Orders \ contested,
         x \notin contested', \A q \in Requests : StepInv(q), AloneInv(x), Next
  PROVE  AloneInv(x)'
<1>1. ASSUME NEW r \in Requests, NEW c \in Couriers, NEW o \in Orders,
             ClaimCheckShift(r, c, o)
      PROVE  AloneInv(x)'
  BY <1>1, ClaimCheckShiftAlone
<1>2. ASSUME NEW r \in Requests, NEW c \in Couriers, NEW o \in Orders,
             NEW target \in {"picked_up", "in_delivery", "completed"},
             AdvanceLoad(r, c, o, target)
      PROVE  AloneInv(x)'
  BY <1>2, AdvanceLoadAlone
<1>3. ASSUME NEW r \in Requests, NEW u \in Staff, NEW o \in Orders,
             CancelLoad(r, u, o)
      PROVE  AloneInv(x)'
  BY <1>3, CancelLoadAlone
<1>4. ASSUME NEW r \in Requests, Continue(r) PROVE AloneInv(x)'
  BY <1>4, ClaimCountAlone, ClaimTakeAlone, AdvanceWriteAlone,
     CompleteWriteAlone, CancelVoidAlone, ReloadAlone, AppendAuditEntryAlone,
     TellCourierAlone, EmitStatusChangedAlone, EnqueueCallbackAlone DEF Continue
<1>5. ASSUME NEW r \in Requests, Fail(r) PROVE AloneInv(x)'
  BY <1>5, FailAlone
<1>6. ASSUME NEW c \in Couriers, OpenShift(c) \/ CloseShift(c)
      PROVE  AloneInv(x)'
  BY <1>6 DEF OpenShift, CloseShift, tables, outputs, AloneInv, AloneRow,
     AloneAudit, AloneRequest, OwesStaff, OwesPush, HasRow, Engaged, InFlight,
     Claiming, Moved
<1>. QED
  BY <1>1, <1>2, <1>3, <1>4, <1>5, <1>6 DEF Next

-----------------------------------------------------------------------------
(***************************************************************************)
(* The invariant of OrderOverlaps, and what follows from it.               *)
(***************************************************************************)
LEMMA OverlapsInit == HInit => IInvOverlaps
<1>. SUFFICES ASSUME HInit PROVE IInvOverlaps
  OBVIOUS
<1>. USE DEF HInit, Init
<1>1. HistoryOK
  BY DEF HistoryOK, Contested, Hasty, Engaged, Deciding, Claiming, InFlight, Idle
<1>2. \A r \in Requests : StepInv(r)
  BY DEF StepInv, Claiming, Idle
<1>3. \A o \in Orders : AloneInv(o)
  BY DEF AloneInv, AloneRow, AloneAudit, HasRow, Engaged, InFlight, Idle
<1>4. ASSUME NEW c \in Couriers PROVE PatientInv(c)
  <2>1. Active(c) = {}
    BY UsersAssumption DEF Active, Users
  <2>. QED
    BY <2>1 DEF PatientInv, OneActive, Idle
<1>. QED
  BY <1>1, <1>2, <1>3, <1>4 DEF IInvOverlaps

LEMMA OverlapsNext ==
  ASSUME IInvOwed, IInvOverlaps, [HNext]_hvars
  PROVE  IInvOverlaps'
<1>1. CASE HNext
  <2>1. /\ IInv /\ IInv' /\ Next /\ HistoryOK
        /\ HistoryOK' /\ contested \subseteq contested' /\ hasty \subseteq hasty'
    BY <1>1, NextPreserves, HistoryGrows DEF HNext, IInvOwed, IInvOverlaps
  <2>2. \A r \in Requests : StepInv(r)'
    BY <2>1, StepNext DEF IInvOverlaps
  <2>3. \A o \in Orders \ contested' : AloneInv(o)'
    BY <2>1, AloneNext DEF IInvOverlaps
  <2>4. \A c \in Couriers \ hasty' : PatientInv(c)'
    BY <2>1, PatientNext DEF IInvOverlaps
  <2>. QED
    BY <2>1, <2>2, <2>3, <2>4 DEF IInvOverlaps
<1>2. CASE UNCHANGED hvars
  <2>1. UNCHANGED <<orders, earnings, audit, cancelJobs, staffRoom, req, winner,
                    failures, contested, hasty>>
    BY <1>2 DEF hvars, vars
  <2>2. HistoryOK'
    BY <2>1 DEF IInvOverlaps, HistoryOK, Contested, Hasty, Engaged, Deciding,
                Claiming, InFlight
  <2>3. \A r \in Requests : StepInv(r)'
    BY <2>1 DEF IInvOverlaps, StepInv, Claiming
  <2>4. \A o \in Orders \ contested' : AloneInv(o)'
    BY <2>1 DEF IInvOverlaps, AloneInv, AloneRow, AloneAudit, AloneRequest,
                OwesStaff, OwesPush, HasRow, Engaged, InFlight, Claiming, Moved
  <2>5. \A c \in Couriers \ hasty' : PatientInv(c)'
    BY <2>1 DEF IInvOverlaps, PatientInv, OneActive, Active
  <2>. QED
    BY <2>2, <2>3, <2>4, <2>5 DEF IInvOverlaps
<1>. QED
  BY <1>1, <1>2

\* The histories forbid nothing: every behaviour of HSpec is one of Spec.
LEMMA HistoriesForbidNothing == HSpec => Spec
<1>1. HInit => Init
  BY DEF HInit
<1>2. [HNext]_hvars => [Next]_vars
  BY DEF HNext, hvars
<1>. QED
  BY <1>1, <1>2, PTL DEF HSpec, Spec

\* However requests overlap and wherever they are lost: what a request has read
\* of an order never contested is still so when it writes, and a courier who is
\* never hasty is found free when the claim says so.
THEOREM OverlapsInvariance == HSpec => []IInvOverlaps
<1>1. HSpec => []IInvOwed
  BY HistoriesForbidNothing, OwedInvariance, PTL
<1>2. IInvOwed /\ IInvOverlaps /\ [HNext]_hvars => IInvOverlaps'
  BY OverlapsNext
<1>. QED
  BY <1>1, <1>2, OverlapsInit, PTL DEF HSpec

\* FR-016: a courier who waits for the answer to one request before sending the
\* next has at most one active order (claim, advanceStatus).
THEOREM OneActiveUnlessHastyHolds == HSpec => []OneActiveUnlessHasty
<1>1. IInvOverlaps => OneActiveUnlessHasty
  BY DEF IInvOverlaps, PatientInv, OneActiveUnlessHasty
<1>. QED
  BY <1>1, OverlapsInvariance, PTL

\* FR-010: an order is both cancelled and paid only after two requests were at
\* work on it at once (cancel, advanceStatus).
THEOREM NoEarningUnlessContestedHolds == HSpec => []NoEarningUnlessContested
<1>1. IInvOverlaps => NoEarningUnlessContested
  BY DEF IInvOverlaps, AloneInv, AloneRow, NoEarningUnlessContested, CancelledUnpaid
<1>. QED
  BY <1>1, OverlapsInvariance, PTL

\* User Story 3 scenario 2: the courier of a cancelled order goes unnotified
\* only if the order was contested or a request was lost (cancel).
THEOREM NotifiedUnlessContestedHolds == HSpec => []NotifiedUnlessContested
<1>1. IInvOverlaps => NotifiedUnlessContested
  BY DEF IInvOverlaps, AloneInv, AloneRow, NotifiedUnlessContested, WinnerTold,
         Quiescent, OwesPush, InFlight
<1>. QED
  BY <1>1, OverlapsInvariance, PTL

\* FR-012: once the requests are answered, the staff have been told a status
\* that is not the order's only if it was contested (emitStatusChanged).
THEOREM StaffSeeUnlessContestedHolds == HSpec => []StaffSeeUnlessContested
<1>1. IInvOverlaps => StaffSeeUnlessContested
  BY DEF IInvOverlaps, AloneInv, AloneRow, StaffSeeUnlessContested, Quiescent,
         OwesStaff, InFlight
<1>. QED
  BY <1>1, OverlapsInvariance, PTL

\* FR-011: two audit entries of an order say they left the same status only if
\* it was contested (appendAuditEntry).
THEOREM ChainedUnlessContestedHolds == HSpec => []ChainedUnlessContested
<1>1. IInvOverlaps => ChainedUnlessContested
  BY DEF IInvOverlaps, AloneInv, AloneAudit, ChainedUnlessContested, Chained
<1>. QED
  BY <1>1, OverlapsInvariance, PTL

-----------------------------------------------------------------------------
(***************************************************************************)
(* The refinement of LifecycleContract: every UPDATE is a transition of    *)
(* the contract, and every other step is invisible to it.                  *)
(***************************************************************************)
\* The contract's variables, read off the table.
Shown == [o \in Orders |-> orders[o].status]
Held == [o \in Orders |-> orders[o].courier_id]
Reached == [o \in Orders |-> orders[o].stamps]

LEMMA ContractInit == HInit => Contract!Init
BY DEF HInit, Init, Contract!Init

\* What an UPDATE shows of itself.
LEMMA UpdateShows ==
  ASSUME IInv, NEW o \in Orders, NEW to, NEW courier,
         orders' = [orders EXCEPT ![o] = Stamped(@, to, courier)]
  PROVE  /\ Shown' = [Shown EXCEPT ![o] = to]
         /\ Held' = [Held EXCEPT ![o] = courier]
         /\ Reached' = [Reached EXCEPT ![o] = @ \cup {to}]
<1>1. orders \in [Orders -> Row]
  BY DEF IInv, TypeOK
<1>2. Shown' = [Shown EXCEPT ![o] = to]
  BY <1>1 DEF Stamped, Shown
<1>3. Held' = [Held EXCEPT ![o] = courier]
  BY <1>1 DEF Stamped, Held
<1>4. Reached' = [Reached EXCEPT ![o] = @ \cup {to}]
  BY <1>1 DEF Stamped, Reached
<1>. QED
  BY <1>2, <1>3, <1>4

\* A courier without an active order is not busy: what a courier holds is of
\* the courier's tenant.
LEMMA NotBusy ==
  ASSUME IInv, NEW c \in Couriers, Active(c) = {}
  PROVE  ~Contract!Busy(c)
<1>. SUFFICES ASSUME NEW o \in Orders, orders[o].courier_id = c,
                     orders[o].status \in {"assigned", "picked_up", "in_delivery"}
              PROVE  FALSE
  BY DEF Contract!Busy, Contract!Open
<1>1. winner[o] = c /\ c # NULL
  BY UsersAssumption DEF IInv, OrderInv, Users
<1>2. o \in Active(c)
  BY <1>1 DEF Active, Terminal, IInv, OrderInv
<1>. QED
  BY <1>2

\* The contract's own variables do not move.
Invisible ==
  Shown' = Shown /\ Held' = Held /\ Reached' = Reached /\ earnings' = earnings

LEMMA ClaimTakeAssigns ==
  ASSUME IInv, IInvOverlaps, NEW r \in Requests, ClaimTake(r)
  PROVE  Contract!Change \/ Invisible
<1>1. /\ InFlight(r) /\ req[r].user \in Couriers /\ req[r].pc = "take"
  BY DEF ClaimTake, InFlight, IInv, RequestInv
<1>2. PICK o \in Orders : o = req[r].order
  BY <1>1, WriterIs
<1>3. PICK c \in Couriers : c = req[r].user
  BY <1>1
<1>4. earnings' = earnings
  BY DEF ClaimTake
<1>5. CASE Claimable(o, c)
  <2>1. orders' = [orders EXCEPT ![o] = Stamped(@, "assigned", c)]
    BY <1>2, <1>3, <1>5 DEF ClaimTake, Update
  <2>2. Contract!Busy(c) => c \in hasty
    BY <1>1, <1>3, NotBusy DEF IInvOverlaps, PatientInv
  <2>3. orders[o].status = "created"
    BY <1>5 DEF Claimable
  <2>4. /\ Shown' = [Shown EXCEPT ![o] = "assigned"]
        /\ Held' = [Held EXCEPT ![o] = c]
        /\ Reached' = [Reached EXCEPT ![o] = @ \cup {"assigned"}]
    BY <2>1, UpdateShows
  <2>5. Contract!Assign(o, c)
    BY <1>4, <2>2, <2>3, <2>4
       DEF Contract!Assign, Contract!Move, Shown, Held, Reached
  <2>. QED
    BY <2>5 DEF Contract!Change
<1>6. CASE ~Claimable(o, c)
  <2>1. orders' = orders
    BY <1>2, <1>3, <1>6 DEF ClaimTake, Update
  <2>. QED
    BY <1>4, <2>1 DEF Invisible, Shown, Held, Reached
<1>. QED
  BY <1>5, <1>6

\* However stale, the turn of a courier's step has come.
LEMMA WriteIsDue ==
  ASSUME IInv, IInvOverlaps, NEW r \in Requests, req[r].pc = "write",
         NEW o \in Orders, o = req[r].order
  PROVE  /\ Contract!Due(o, req[r].from)
         /\ \/ req[r].from = "assigned" /\ req[r].to = "picked_up"
            \/ req[r].from = "picked_up" /\ req[r].to = "in_delivery"
            \/ req[r].from = "in_delivery" /\ req[r].to = "completed"
<1>1. StepInv(r)
  BY DEF IInvOverlaps
<1>2. \/ req[r].from = "assigned" /\ req[r].to = "picked_up"
      \/ req[r].from = "picked_up" /\ req[r].to = "in_delivery"
      \/ req[r].from = "in_delivery" /\ req[r].to = "completed"
  BY <1>1 DEF StepInv, CourierTransition
<1>3. CASE o \in contested
  <2>1. req[r].from \in orders[o].stamps
    BY <1>1 DEF StepInv
  <2>. QED
    BY <1>2, <1>3, <2>1 DEF Contract!Due
<1>4. CASE o \notin contested
  <2>1. req[r].from = orders[o].status
    BY <1>1, <1>4, WriteIsFresh DEF IInvOverlaps
  <2>. QED
    BY <1>2, <1>4, <2>1 DEF Contract!Due
<1>. QED
  BY <1>3, <1>4

LEMMA AdvanceWriteAdvances ==
  ASSUME IInv, IInvOverlaps, NEW r \in Requests, AdvanceWrite(r)
  PROVE  Contract!Change
<1>1. /\ InFlight(r) /\ req[r].pc = "write" /\ req[r].to # "completed"
      /\ earnings' = earnings
  BY DEF AdvanceWrite, PayingStatus, InFlight
<1>2. PICK o \in Orders : o = req[r].order
  BY <1>1, WriterIs
<1>3. PICK to, c : to = req[r].to /\ c = orders[o].courier_id
  OBVIOUS
<1>4. orders' = [orders EXCEPT ![o] = Stamped(@, to, c)]
  BY <1>2, <1>3 DEF AdvanceWrite, Update
<1>5. /\ Shown' = [Shown EXCEPT ![o] = to]
      /\ Held' = [Held EXCEPT ![o] = c]
      /\ Reached' = [Reached EXCEPT ![o] = @ \cup {to}]
  BY <1>4, UpdateShows
<1>6. Held' = Held
  BY <1>3, <1>5 DEF Held
<1>7. Contract!Due(o, req[r].from)
  BY <1>1, <1>2, WriteIsDue
<1>8. CASE req[r].from = "assigned" /\ to = "picked_up"
  <2>1. Contract!PickUp(o)
    BY <1>1, <1>5, <1>6, <1>7, <1>8
       DEF Contract!PickUp, Contract!Move, Shown, Held, Reached
  <2>. QED
    BY <2>1 DEF Contract!Change
<1>9. CASE req[r].from = "picked_up" /\ to = "in_delivery"
  <2>1. Contract!StartDelivery(o)
    BY <1>1, <1>5, <1>6, <1>7, <1>9
       DEF Contract!StartDelivery, Contract!Move, Shown, Held, Reached
  <2>. QED
    BY <2>1 DEF Contract!Change
<1>. QED
  BY <1>1, <1>2, <1>3, <1>8, <1>9, WriteIsDue

LEMMA CompleteWriteCompletes ==
  ASSUME IInv, IInvOverlaps, NEW r \in Requests, CompleteWrite(r)
  PROVE  Contract!Change \/ Invisible
<1>1. /\ InFlight(r) /\ req[r].pc = "write" /\ req[r].to = "completed"
  BY DEF CompleteWrite, PayingStatus, InFlight
<1>2. PICK o \in Orders : o = req[r].order
  BY <1>1, WriterIs
<1>3. CASE UniqueViolation(o)
  <2>1. orders' = orders /\ earnings' = earnings
    BY <1>2, <1>3 DEF CompleteWrite, Update
  <2>. QED
    BY <2>1 DEF Invisible, Shown, Held, Reached
<1>4. CASE ~UniqueViolation(o)
  <2>1. req[r].user = winner[o] /\ req[r].user \in Couriers
    BY <1>1, <1>2, WriterIs, UsersAssumption DEF IInv, RequestInv, TypeOK
  <2>2. PICK c \in Couriers : c = req[r].user
    BY <2>1
  <2>3. PICK d : d = orders[o].courier_id
    OBVIOUS
  <2>4. /\ orders' = [orders EXCEPT ![o] = Stamped(@, "completed", d)]
        /\ earnings' = [earnings EXCEPT ![o] = Append(@, c)]
    BY <1>1, <1>2, <1>4, <2>2, <2>3 DEF CompleteWrite, Update, Insert
  <2>5. /\ Shown' = [Shown EXCEPT ![o] = "completed"]
        /\ Held' = [Held EXCEPT ![o] = d]
        /\ Reached' = [Reached EXCEPT ![o] = @ \cup {"completed"}]
    BY <2>4, UpdateShows
  <2>6. Held' = Held
    BY <2>3, <2>5 DEF Held
  <2>7. Contract!Due(o, "in_delivery")
    BY <1>1, <1>2, WriteIsDue
  <2>8. o \notin contested => Held[o] = c
    <3>1. StepInv(r) /\ (o \notin contested => AloneInv(o))
      BY DEF IInvOverlaps
    <3>2. o \notin contested => req[r].user = orders[o].courier_id
      BY <1>1, <1>2, <3>1, WriteIsFresh
    <3>. QED
      BY <2>2, <3>2 DEF Held
  <2>9. earnings[o] = <<>>
    BY <1>4 DEF UniqueViolation, HasRow
  <2>10. Contract!Complete(o, c)
    BY <2>4, <2>5, <2>6, <2>7, <2>8, <2>9
       DEF Contract!Complete, Contract!Move, Shown, Held, Reached
  <2>. QED
    BY <2>10 DEF Contract!Change
<1>. QED
  BY <1>3, <1>4

LEMMA CancelVoidCancels ==
  ASSUME IInv, IInvOverlaps, NEW r \in Requests, CancelVoid(r)
  PROVE  Contract!Change \/ Invisible
<1>1. InFlight(r) /\ Engaged(r) /\ req[r].pc = "void" /\ earnings' = earnings
  BY DEF CancelVoid, InFlight, Engaged, Claiming
<1>2. PICK o \in Orders : o = req[r].order
  BY <1>1, WriterIs
<1>3. CASE orders[o].status \in Terminal
  <2>1. orders' = orders
    BY <1>2, <1>3 DEF CancelVoid, Update
  <2>. QED
    BY <1>1, <2>1 DEF Invisible, Shown, Held, Reached
<1>4. CASE orders[o].status \notin Terminal
  <2>1. orders' = [orders EXCEPT ![o] = Stamped(@, "cancelled", NULL)]
    BY <1>2, <1>4 DEF CancelVoid, Update
  <2>2. /\ Shown' = [Shown EXCEPT ![o] = "cancelled"]
        /\ Held' = [Held EXCEPT ![o] = NULL]
        /\ Reached' = [Reached EXCEPT ![o] = @ \cup {"cancelled"}]
    BY <2>1, UpdateShows
  <2>3. orders[o].status \in {"created", "assigned", "picked_up", "in_delivery"}
    BY <1>4 DEF Terminal, Statuses, IInv, TypeOK, Row
  <2>4. o \notin contested => earnings[o] = <<>>
    BY <2>3 DEF IInvOverlaps, AloneInv, AloneRow, HasRow
  <2>5. Contract!Cancel(o)
    BY <1>1, <2>2, <2>3, <2>4
       DEF Contract!Cancel, Contract!Move, Contract!Open, Shown, Held, Reached
  <2>. QED
    BY <2>5 DEF Contract!Change
<1>. QED
  BY <1>3, <1>4

LEMMA ContractStep ==
  ASSUME IInv, IInvOverlaps, [HNext]_hvars
  PROVE  [Contract!Next]_Contract!vars
<1>1. CASE HNext
  <2>1. contested \subseteq contested' /\ hasty \subseteq hasty'
    BY <1>1, HistoryGrows DEF HNext, IInvOverlaps
  <2>2. ASSUME NEW r \in Requests,
               ClaimTake(r) \/ AdvanceWrite(r) \/ CompleteWrite(r) \/ CancelVoid(r)
        PROVE  Contract!Change \/ Invisible
    BY <2>2, ClaimTakeAssigns, AdvanceWriteAdvances, CompleteWriteCompletes,
       CancelVoidCancels
  <2>3. ASSUME orders' = orders, earnings' = earnings PROVE Invisible
    BY <2>3 DEF Invisible, Shown, Held, Reached
  <2>4. \/ \E r \in Requests : \/ ClaimTake(r) \/ AdvanceWrite(r)
                               \/ CompleteWrite(r) \/ CancelVoid(r)
        \/ orders' = orders /\ earnings' = earnings
    BY <1>1 DEF HNext, Next, Continue, tables, ClaimCheckShift, AdvanceLoad,
       CancelLoad, MayCancel, ClaimCount, Reload, AppendAuditEntry, TellCourier,
       EmitStatusChanged, EnqueueCallback, Fail, OpenShift, CloseShift
  <2>5. Contract!Change \/ Invisible
    BY <2>2, <2>3, <2>4
  <2>. QED
    BY <2>1, <2>5 DEF Contract!Next, Invisible, Shown, Held, Reached
<1>2. CASE UNCHANGED hvars
  BY <1>2 DEF hvars, vars, Contract!vars
<1>. QED
  BY <1>1, <1>2

\* However requests overlap, every UPDATE is a transition of LifecycleContract:
\* for an order never contested the documented one from the status the row
\* really has, paying its courier in the same step; for a contested one a step
\* whose turn once came.  A claim goes to a free courier unless they are hasty.
THEOREM ImplementsContract == HSpec => ContractSpec
<1>1. HInit => Contract!Init
  BY ContractInit
<1>2. IInvOwed /\ IInvOverlaps /\ [HNext]_hvars => [Contract!Next]_Contract!vars
  BY ContractStep DEF IInvOwed
<1>3. HSpec => []IInvOwed
  BY HistoriesForbidNothing, OwedInvariance, PTL
<1>. QED
  BY <1>1, <1>2, <1>3, OverlapsInvariance, PTL
     DEF HSpec, ContractSpec, Contract!Spec

\* Assumptions of specs/003: what is completed or cancelled is undone only after
\* two requests were at work on the order at once (advanceStatus).
THEOREM FinalUnlessContestedHolds == HSpec => FinalUnlessContested
<1>. DEFINE Final == \A o \in Orders \ contested :
                       orders[o].status \in Terminal =>
                         orders'[o].status = orders[o].status
<1>1. [Contract!Next]_Contract!vars => Final
  <2>. SUFFICES ASSUME [Contract!Next]_Contract!vars,
                       NEW o \in Orders \ contested,
                       orders[o].status \in Terminal
                PROVE  Shown'[o] = Shown[o]
    BY DEF Shown
  <2>1. CASE Shown' = Shown
    BY <2>1
  <2>2. CASE Contract!Change
    BY <2>2 DEF Contract!Change, Contract!Assign, Contract!PickUp,
       Contract!StartDelivery, Contract!Complete, Contract!Cancel, Contract!Due,
       Contract!Move, Contract!Open, Terminal, Shown
  <2>. QED
    BY <2>1, <2>2 DEF Contract!Next, Contract!vars, Shown
<1>2. IInvOwed /\ IInvOverlaps /\ [HNext]_hvars => [Final]_hvars
  BY <1>1, ContractStep DEF IInvOwed
<1>3. HSpec => []IInvOwed
  BY HistoriesForbidNothing, OwedInvariance, PTL
<1>. QED
  BY <1>2, <1>3, OverlapsInvariance, PTL DEF HSpec, FinalUnlessContested

=============================================================================
