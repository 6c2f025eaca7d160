--------------------------- MODULE OrderLifecycle ---------------------------
(***************************************************************************)
(* The order workflow of orders/order-lifecycle.service.ts: claim,         *)
(* advanceStatus (pickup, start-delivery, complete) and cancel.            *)
(*                                                                         *)
(* A handler is a chain of awaits.  Each await is one database statement   *)
(* (or one transaction, or one Redis call) and runs on its own; between    *)
(* two of them any other request, on this or another instance of the       *)
(* server, may run.  A request is therefore a record with a program        *)
(* counter and the values it read earlier, and every await is an action.   *)
(* A transaction is one action: Postgres locks the row it updates until    *)
(* the commit, so other writers see all of it or nothing.                  *)
(***************************************************************************)
EXTENDS Naturals, FiniteSets, Sequences

CONSTANTS
  Orders,        \* rows of the orders table, already created
  Couriers,      \* users with the role courier
  Staff,         \* users with the role owner, manager or order operator
  Owners,        \* tenants
  OwnerOf,       \* the tenant of every order and of every user
  WithCallback,  \* the orders created with a callback_url
  Requests,      \* slots for requests being handled at the same time
  MaxFailures,   \* bound: requests lost to a crash or a database error
  NULL

Users == Couriers \cup Staff

ASSUME UsersAssumption ==
  /\ NULL \notin Users
  /\ Couriers \cap Staff = {}
ASSUME TenantAssumption == OwnerOf \in [Orders \cup Users -> Owners]
ASSUME CallbackAssumption == WithCallback \subseteq Orders
ASSUME FailuresAssumption == MaxFailures \in Nat

-----------------------------------------------------------------------------
(***************************************************************************)
(* The two transition tables.                                              *)
(***************************************************************************)
Statuses ==
  {"created", "assigned", "picked_up", "in_delivery", "completed", "cancelled"}

ASSUME NullAssumption == NULL \notin Statuses

Terminal == {"completed", "cancelled"}

\* Mutation: a step of the courier is skipped.
CourierTransitionSkipping ==
  [s \in {"assigned", "picked_up"} |->
     IF s = "assigned" THEN "picked_up" ELSE "completed"]

CourierTransition ==
  [s \in {"assigned", "picked_up", "in_delivery"} |->
     CASE s = "assigned"    -> "picked_up"
       [] s = "picked_up"   -> "in_delivery"
       [] s = "in_delivery" -> "completed"]

OperatorTransition ==
  [s \in {"created", "assigned", "picked_up", "in_delivery"} |-> "cancelled"]

\* Mutation: completed is forgotten.
CallbackTriggerStatusesNoCompleted == {"picked_up", "cancelled"}

CallbackTriggerStatuses == {"picked_up", "completed", "cancelled"}

-----------------------------------------------------------------------------
VARIABLES
  orders,        \* orders[o]: status and courier_id of the row, and which of
                 \* its assigned_at ... cancelled_at columns are stamped
  onShift,       \* couriers with an open row in courier_shifts
  records,       \* records[o]: couriers of the delivery_records rows of o
  earnings,      \* earnings[o]: couriers of the courier_earnings rows of o
  audit,         \* rows of order_audit_entries: from, to and actor
  cancelJobs,    \* jobs ever added to the cancel-notify queue
  callbackJobs,  \* jobs ever added to the order-callback queue
  staffRoom,     \* staffRoom[o]: the status last told to the staff room
  courierRoom,   \* courierRoom[o]: the status last told to the couriers room
  req,           \* req[r]: the request being handled in slot r
  winner,        \* history: winner[o] is the courier whose claim UPDATE hit o
  failures       \* how many requests were lost half way

tables == <<orders, records, earnings, winner>>
outputs == <<cancelJobs, callbackJobs, staffRoom, courierRoom>>
vars == <<orders, onShift, records, earnings, audit, cancelJobs, callbackJobs,
          staffRoom, courierRoom, req, winner, failures>>

(***************************************************************************)
(* A request: the await it is at, who sent it, for which order, the        *)
(* transition it makes (from is the status it has READ, possibly stale),   *)
(* the courier it has read (cancel's previousCourierId), and the status    *)
(* its final loadOrder has seen.                                           *)
(***************************************************************************)
Idle == [pc |-> "idle", user |-> NULL, order |-> NULL, from |-> NULL,
         to |-> NULL, courier |-> NULL, seen |-> NULL]

Steps == {"count", "take", "write", "void", "reload", "audit", "tell", "emit",
          "callback"}

InFlight(r) == req[r].pc # "idle"

Begin(r, step, u, o, from, to, courier) ==
  /\ req[r] = Idle
  /\ req' = [req EXCEPT ![r] =
               [Idle EXCEPT !.pc = step, !.user = u, !.order = o,
                            !.from = from, !.to = to, !.courier = courier]]

Goto(r, step) == req' = [req EXCEPT ![r].pc = step]

\* The handler returns its answer or throws: the slot is free again.
Return(r) == req' = [req EXCEPT ![r] = Idle]

\* An UPDATE has come back.  The handler goes on if it affected its row and
\* throws if it did not.  Mutation: it does not look at result.affected.
AfterUpdateRegardless(r, hit) == Goto(r, "reload")
AfterUpdate(r, hit) == IF hit THEN Goto(r, "reload") ELSE Return(r)

\* A row takes a status: TIMESTAMP_COLUMN names the column set to NOW().
Stamped(row, status, courier) ==
  [status |-> status, courier_id |-> courier,
   stamps |-> row.stamps \cup {status}]

\* UPDATE orders SET ... WHERE id of the request's order AND hit.
Update(r, hit, status, courier) ==
  /\ orders' = IF hit
               THEN [orders EXCEPT ![req[r].order] = Stamped(@, status, courier)]
               ELSE orders
  /\ AfterUpdate(r, hit)

-----------------------------------------------------------------------------
Init ==
  /\ orders = [o \in Orders |-> [status |-> "created", courier_id |-> NULL,
                                 stamps |-> {}]]
  /\ onShift = {}
  /\ records = [o \in Orders |-> <<>>]
  /\ earnings = [o \in Orders |-> <<>>]
  /\ audit = {}
  /\ cancelJobs = {}
  /\ callbackJobs = {}
  /\ staffRoom = [o \in Orders |-> "created"]
  /\ courierRoom = [o \in Orders |-> "created"]
  /\ req = [r \in Requests |-> Idle]
  /\ winner = [o \in Orders |-> NULL]
  /\ failures = 0

-----------------------------------------------------------------------------
(***************************************************************************)
(* claim                                                                   *)
(***************************************************************************)
Active(c) == {o \in Orders : /\ orders[o].courier_id = c
                             /\ orders[o].status \notin Terminal
                             /\ OwnerOf[o] = OwnerOf[c]}

\* The shift lookup.  Without an open shift the request ends here with 422.
ClaimCheckShift(r, c, o) ==
  /\ c \in onShift
  /\ Begin(r, "count", c, o, "created", "assigned", NULL)
  /\ UNCHANGED <<tables, onShift, audit, outputs, failures>>

\* Mutation: an order that is only assigned does not count.
BusyOnTheRoad(c) == \E o \in Active(c) : orders[o].status # "assigned"
Busy(c) == Active(c) # {}

\* The count of the courier's active orders: 409 when there is one.
ClaimCount(r) ==
  /\ req[r].pc = "count"
  /\ IF Busy(req[r].user) THEN Return(r) ELSE Goto(r, "take")
  /\ UNCHANGED <<tables, onShift, audit, outputs, failures>>

\* What the WHERE clause of the claim's UPDATE admits.  Mutations: without the
\* status, and without the tenant.
ClaimableWithoutStatus(o, c) ==
  OwnerOf[o] = OwnerOf[c] /\ orders[o].courier_id = NULL
ClaimableWithoutOwner(o, c) ==
  orders[o].status = "created" /\ orders[o].courier_id = NULL
Claimable(o, c) ==
  /\ OwnerOf[o] = OwnerOf[c]
  /\ orders[o].status = "created"
  /\ orders[o].courier_id = NULL

\* The atomic UPDATE.  No row affected: 404 or 409, after a read.
ClaimTake(r) ==
  /\ req[r].pc = "take"
  /\ LET o == req[r].order
         c == req[r].user
         hit == Claimable(o, c)
     IN /\ Update(r, hit, "assigned", c)
        /\ winner' = IF hit THEN [winner EXCEPT ![o] = c] ELSE winner
  /\ UNCHANGED <<onShift, records, earnings, audit, outputs, failures>>

-----------------------------------------------------------------------------
(***************************************************************************)
(* advanceStatus                                                           *)
(***************************************************************************)
\* loadOrder and the checks on what it returned: 404, 422 or 403 otherwise.
\* Mutation: no check of the transition table.
MayAdvanceFromAnywhere(o, c, target) ==
  OwnerOf[o] = OwnerOf[c] /\ orders[o].courier_id = c
MayAdvance(o, c, target) ==
  /\ OwnerOf[o] = OwnerOf[c]
  /\ orders[o].status \in DOMAIN CourierTransition
  /\ CourierTransition[orders[o].status] = target
  /\ orders[o].courier_id = c

AdvanceLoad(r, c, o, target) ==
  /\ MayAdvance(o, c, target)
  /\ Begin(r, "write", c, o, orders[o].status, target, NULL)
  /\ UNCHANGED <<tables, onShift, audit, outputs, failures>>

\* The target that takes the branch with the transaction.  Mutation: a status of
\* that name no longer exists, so the plain UPDATE completes.
PayingStatusRenamed == "delivered"
PayingStatus == "completed"

\* The UPDATE of pickup and start-delivery: WHERE id AND owner_id, nothing
\* about the status or the courier that was read before.
AdvanceWrite(r) ==
  /\ req[r].pc = "write"
  /\ req[r].to # PayingStatus
  /\ Update(r, TRUE, req[r].to, orders[req[r].order].courier_id)
  /\ UNCHANGED <<onShift, records, earnings, winner, audit, outputs, failures>>

\* order_id is UNIQUE in delivery_records and in courier_earnings.
HasRow(table, o) == table[o] # <<>>

Insert(table, o, c) == [table EXCEPT ![o] = Append(@, c)]

\* Mutation: the constraints are missing.
NoUniqueViolation(o) == FALSE
UniqueViolation(o) == HasRow(records, o) \/ HasRow(earnings, o)

\* The transaction of complete: the same unguarded UPDATE and two INSERTs.  A
\* unique violation on order_id rolls the three back and is a 500.
CompleteWrite(r) ==
  /\ req[r].pc = "write"
  /\ req[r].to = PayingStatus
  /\ LET o == req[r].order
         c == req[r].user
         commits == ~UniqueViolation(o)
     IN /\ Update(r, commits, req[r].to, orders[o].courier_id)
        /\ records' = IF commits THEN Insert(records, o, c) ELSE records
        /\ earnings' = IF commits THEN Insert(earnings, o, c) ELSE earnings
  /\ UNCHANGED <<onShift, winner, audit, outputs, failures>>

-----------------------------------------------------------------------------
(***************************************************************************)
(* cancel                                                                  *)
(***************************************************************************)
\* loadOrder and the check of OPERATOR_TRANSITIONS: 404 or 422 otherwise.
\* Mutation: the order may be anybody's.
MayCancelOfAnyone(o, u) == orders[o].status \in DOMAIN OperatorTransition
MayCancel(o, u) ==
  /\ OwnerOf[o] = OwnerOf[u]
  /\ orders[o].status \in DOMAIN OperatorTransition

\* The load, and the two values kept.
CancelLoad(r, u, o) ==
  /\ MayCancel(o, u)
  /\ Begin(r, "void", u, o, orders[o].status,
           OperatorTransition[orders[o].status], orders[o].courier_id)
  /\ UNCHANGED <<tables, onShift, audit, outputs, failures>>

\* The UPDATE, guarded by status NOT IN ('completed', 'cancelled'): 422 when
\* it affects no row.
CancelVoid(r) ==
  /\ req[r].pc = "void"
  /\ Update(r, orders[req[r].order].status \notin Terminal, "cancelled", NULL)
  /\ UNCHANGED <<onShift, records, earnings, winner, audit, outputs, failures>>

-----------------------------------------------------------------------------
(***************************************************************************)
(* What the three handlers do after their UPDATE.                          *)
(***************************************************************************)
\* loadOrder again: the row as it is now is what the events will carry.
\* Mutation: they carry the row as it was first loaded.
SeenAtFirst(r) == req[r].from
SeenNow(r) == orders[req[r].order].status

Reload(r) ==
  /\ req[r].pc = "reload"
  /\ req' = [req EXCEPT ![r].pc = "audit", ![r].seen = SeenNow(r)]
  /\ UNCHANGED <<tables, onShift, audit, outputs, failures>>

\* The audit row, with the previous status as the request read it.  Mutation:
\* from and to are swapped.
EntrySwapped(r) == [order |-> req[r].order, from |-> req[r].to,
                    to |-> req[r].from, actor |-> req[r].user]
Entry(r) == [order |-> req[r].order, from |-> req[r].from,
             to |-> req[r].to, actor |-> req[r].user]

\* Only a cancel that has read a courier tells somebody.  Mutation: none does.
AfterAuditEmit(r) == "emit"
AfterAudit(r) == IF req[r].courier # NULL THEN "tell" ELSE "emit"

AppendAuditEntry(r) ==
  /\ req[r].pc = "audit"
  /\ audit' = audit \cup {Entry(r)}
  /\ Goto(r, AfterAudit(r))
  /\ UNCHANGED <<tables, onShift, outputs, failures>>

\* cancelQueue.add, for the courier that cancel read before its UPDATE.
TellCourier(r) ==
  /\ req[r].pc = "tell"
  /\ cancelJobs' = cancelJobs \cup {[order |-> req[r].order,
                                     courier |-> req[r].courier]}
  /\ Goto(r, "emit")
  /\ UNCHANGED <<tables, onShift, audit, callbackJobs, staffRoom, courierRoom,
                 failures>>

NeedsCallback(r) ==
  /\ req[r].order \in WithCallback
  /\ req[r].to \in CallbackTriggerStatuses

\* The transitions told to the couriers room.  Mutation: claims are not.
ToldToCouriersCancelled == {"cancelled"}
ToldToCouriers == {"assigned", "cancelled"}

\* The socket events: every transition to the staff room, a claim and a
\* cancellation to the couriers room too.
EmitStatusChanged(r) ==
  /\ req[r].pc = "emit"
  /\ staffRoom' = [staffRoom EXCEPT ![req[r].order] = req[r].seen]
  /\ courierRoom' = IF req[r].to \in ToldToCouriers
                    THEN [courierRoom EXCEPT ![req[r].order] = req[r].seen]
                    ELSE courierRoom
  /\ IF NeedsCallback(r) THEN Goto(r, "callback") ELSE Return(r)
  /\ UNCHANGED <<tables, onShift, audit, cancelJobs, callbackJobs, failures>>

\* callbackQueue.add, then the answer.
EnqueueCallback(r) ==
  /\ req[r].pc = "callback"
  /\ callbackJobs' = callbackJobs \cup {[order |-> req[r].order,
                                         status |-> req[r].to]}
  /\ Return(r)
  /\ UNCHANGED <<tables, onShift, audit, cancelJobs, staffRoom, courierRoom,
                 failures>>

-----------------------------------------------------------------------------
(***************************************************************************)
(* The world around the handlers.                                          *)
(***************************************************************************)
\* A process dies, or an await throws: what was committed stays, the rest of
\* the handler never runs.
Fail(r) ==
  /\ InFlight(r)
  /\ failures < MaxFailures
  /\ failures' = failures + 1
  /\ Return(r)
  /\ UNCHANGED <<tables, onShift, audit, outputs>>

\* shift-management.service.ts, as far as claim can see it: one commit that
\* opens or closes the courier's row.
OpenShift(c) ==
  /\ c \notin onShift
  /\ onShift' = onShift \cup {c}
  /\ UNCHANGED <<tables, audit, outputs, req, failures>>

CloseShift(c) ==
  /\ c \in onShift
  /\ onShift' = onShift \ {c}
  /\ UNCHANGED <<tables, audit, outputs, req, failures>>

\* The next await of a request already being handled.
Continue(r) ==
  \/ ClaimCount(r)
  \/ ClaimTake(r)
  \/ AdvanceWrite(r)
  \/ CompleteWrite(r)
  \/ CancelVoid(r)
  \/ Reload(r)
  \/ AppendAuditEntry(r)
  \/ TellCourier(r)
  \/ EmitStatusChanged(r)
  \/ EnqueueCallback(r)

Next ==
  \/ \E r \in Requests, c \in Couriers, o \in Orders : ClaimCheckShift(r, c, o)
  \/ \E r \in Requests, c \in Couriers, o \in Orders,
        target \in {"picked_up", "in_delivery", "completed"} :
       AdvanceLoad(r, c, o, target)
  \/ \E r \in Requests, u \in Staff, o \in Orders : CancelLoad(r, u, o)
  \/ \E r \in Requests : Continue(r)
  \/ \E r \in Requests : Fail(r)
  \/ \E c \in Couriers : OpenShift(c)
  \/ \E c \in Couriers : CloseShift(c)

\* The event loop resumes every await whose call has come back.
Fairness == \A r \in Requests : WF_vars(Continue(r))

Spec == Init /\ [][Next]_vars
FairSpec == Spec /\ Fairness

-----------------------------------------------------------------------------
(***************************************************************************)
(* Types.                                                                  *)
(***************************************************************************)
Row == [status : Statuses, courier_id : Couriers \cup {NULL},
        stamps : SUBSET Statuses]
AuditRow == [order : Orders, from : Statuses, to : Statuses, actor : Users]
CancelJob == [order : Orders, courier : Couriers]
CallbackJob == [order : Orders, status : CallbackTriggerStatuses]

Request ==
  [pc : Steps, user : Users, order : Orders, from : Statuses, to : Statuses,
   courier : Couriers \cup {NULL}, seen : Statuses \cup {NULL}]

\* The tables, queues, rooms and requests hold values of their types.
TypeOK ==
  /\ orders \in [Orders -> Row]
  /\ onShift \subseteq Couriers
  /\ records \in [Orders -> Seq(Couriers)]
  /\ earnings \in [Orders -> Seq(Couriers)]
  /\ audit \subseteq AuditRow
  /\ cancelJobs \subseteq CancelJob
  /\ callbackJobs \subseteq CallbackJob
  /\ staffRoom \in [Orders -> Statuses \cup {NULL}]
  /\ courierRoom \in [Orders -> Statuses \cup {NULL}]
  /\ req \in [Requests -> Request \cup {Idle}]
  /\ winner \in [Orders -> Couriers \cup {NULL}]
  /\ failures \in 0..MaxFailures

-----------------------------------------------------------------------------
(***************************************************************************)
(* What holds however requests interleave and wherever they are lost.      *)
(***************************************************************************)
\* The UPDATE of the request in slot r has been committed.
Moved(r) == req[r].pc \in {"reload", "audit", "tell", "emit", "callback"}

\* The couriers who have been let through as the winner of o: they stand in the
\* row, in the audit of a claim, or in a claim whose UPDATE has been committed.
Claimants(o) ==
  ({orders[o].courier_id} \ {NULL})
    \cup {e.actor : e \in {f \in audit : f.order = o /\ f.to = "assigned"}}
    \cup {req[r].user : r \in {q \in Requests : /\ Moved(q)
                                                /\ req[q].order = o
                                                /\ req[q].to = "assigned"}}

\* FR-002, FR-003, SC-002: however claims, cancellations and late writes race,
\* at most one courier is ever let through as the winner of an order.
ExclusiveAssignment ==
  \A o \in Orders : \A c, d \in Claimants(o) : c = d

\* SC-006, first half: a row says completed only together with its delivery
\* record and its earning, whatever late writes and rollbacks happened before.
CompletedIsPaid ==
  \A o \in Orders : orders[o].status = "completed" =>
     HasRow(records, o) /\ HasRow(earnings, o)

\* Principle VI: no row, audit entry or job ever joins two tenants, though an
\* order id in a request path may name any tenant's order.
TenantIsolation ==
  /\ \A o \in Orders : orders[o].courier_id # NULL =>
       OwnerOf[o] = OwnerOf[orders[o].courier_id]
  /\ \A e \in audit : OwnerOf[e.order] = OwnerOf[e.actor]
  /\ \A o \in Orders : \A i \in DOMAIN earnings[o] :
       OwnerOf[o] = OwnerOf[earnings[o][i]]
  /\ \A j \in cancelJobs : OwnerOf[j.order] = OwnerOf[j.courier]

HasEntry(o, status) == \E e \in audit : e.order = o /\ e.to = status

\* FR-011: every audited transition did reach the row, the audit of a claim
\* names the courier who won it, and an audited completion was paid: no entry
\* stands for an UPDATE that lost its race or a transaction that rolled back.
AuditIsTrue ==
  \A e \in audit :
    /\ e.to \in orders[e.order].stamps
    /\ e.to = "assigned" => e.actor = winner[e.order]
    /\ e.to = "completed" => HasRow(earnings, e.order)

\* FR-013: a partner is told only of milestones that were committed and
\* audited first, never of one that lost its race, failed or rolled back.
CallbackIsTrue ==
  \A j \in callbackJobs :
    /\ j.order \in WithCallback
    /\ HasEntry(j.order, j.status)
    /\ j.status \in orders[j.order].stamps
    /\ j.status = "completed" => HasRow(earnings, j.order)

\* A cancellation push goes to nobody but the courier who had the order.
PushGoesToWinner ==
  \A j \in cancelJobs : j.courier = winner[j.order]

Quiescent == failures = 0 /\ \A r \in Requests : ~InFlight(r)

\* Once every request has been answered, none lost, an order that was claimed
\* or cancelled is no longer shown as available to the couriers, in whatever
\* order the events were emitted.
CouriersSeeItTaken ==
  Quiescent => \A o \in Orders :
    courierRoom[o] = "created" => orders[o].status = "created"

\* FR-011, once every request has been answered: the status of every row was
\* audited, and so was every completion that was paid.
AuditIsComplete ==
  Quiescent => \A o \in Orders :
    /\ orders[o].status # "created" =>
         HasEntry(o, orders[o].status)
    /\ HasRow(earnings, o) =>
         HasEntry(o, "completed")

\* The ledger the workflow implements: winner is who was awarded an order, and
\* the rows of courier_earnings are the payments.
Ledger == INSTANCE DeliveryLedger WITH awarded <- winner, paid <- earnings

LedgerSpec == Ledger!Spec

\* FR-013, liveness: a paid completion of an order with a callback URL reaches
\* the callback queue, unless a request is lost on the way.
CompletionIsReported ==
  \A o \in WithCallback :
    HasRow(earnings, o) ~>
      \/ [order |-> o, status |-> "completed"] \in callbackJobs
      \/ failures > 0

-----------------------------------------------------------------------------
(***************************************************************************)
(* The inductive invariant behind those properties: what the values a      *)
(* request carries still mean when it comes to use them.                   *)
(***************************************************************************)
\* The audit row of the request in slot r has been written.
Audited(r) == req[r].pc \in {"tell", "emit", "callback"}

OrderInv(o) ==
  /\ orders[o].courier_id \in {NULL, winner[o]}
  /\ orders[o].status = "created" => winner[o] = NULL
  /\ orders[o].status = "completed" => HasRow(earnings, o)
  /\ winner[o] # NULL => OwnerOf[winner[o]] = OwnerOf[o]

MoneyInv ==
  /\ records = earnings
  /\ \A o \in Orders : HasRow(earnings, o) =>
       /\ winner[o] # NULL
       /\ earnings[o] = <<winner[o]>>

\* Whatever has gone stale in a request, these facts have not: the winner of an
\* order never changes, and earnings and audit rows are never taken back.
RequestInv(r) ==
  /\ req[r].pc \in {"count", "take"} =>
       req[r].user \in Couriers /\ req[r].to = "assigned"
  /\ req[r].pc = "write" =>
       /\ req[r].user = winner[req[r].order]
       /\ req[r].to \in {"picked_up", "in_delivery", "completed"}
  /\ req[r].pc = "void" =>
       /\ req[r].to = "cancelled"
       /\ OwnerOf[req[r].user] = OwnerOf[req[r].order]
  /\ Moved(r) =>
       /\ OwnerOf[req[r].user] = OwnerOf[req[r].order]
       /\ req[r].to \in orders[req[r].order].stamps
       /\ req[r].to = "assigned" => req[r].user = winner[req[r].order]
       /\ req[r].to = "completed" => HasRow(earnings, req[r].order)
  /\ req[r].courier # NULL => req[r].courier = winner[req[r].order]
  /\ Audited(r) => HasEntry(req[r].order, req[r].to)
  /\ req[r].pc = "tell" => req[r].courier # NULL
  /\ req[r].pc = "callback" => NeedsCallback(r)

AuditInv ==
  \A e \in audit :
    /\ OwnerOf[e.order] = OwnerOf[e.actor]
    /\ e.to \in orders[e.order].stamps
    /\ e.to = "assigned" => e.actor = winner[e.order]
    /\ e.to = "completed" => HasRow(earnings, e.order)

JobInv ==
  /\ \A j \in cancelJobs : j.courier = winner[j.order]
  /\ \A j \in callbackJobs : j.order \in WithCallback /\ HasEntry(j.order, j.status)

\* Every stale value a request still holds is harmless to the ledger, the audit
\* of claims and completions, and the queues.
IInv ==
  /\ TypeOK
  /\ \A o \in Orders : OrderInv(o)
  /\ MoneyInv
  /\ \A r \in Requests : RequestInv(r)
  /\ AuditInv
  /\ JobInv

(***************************************************************************)
(* The inductive invariant behind the two that speak of answered requests: *)
(* what has not been audited or told yet is owed by a request under way.   *)
(***************************************************************************)
OwesEntry(r, o, status) ==
  req[r].pc \in {"reload", "audit"} /\ req[r].order = o /\ req[r].to = status

OwesCouriers(r, o) ==
  /\ req[r].pc \in {"reload", "audit", "tell", "emit"}
  /\ req[r].order = o
  /\ req[r].to \in ToldToCouriers

OwedInv(o) ==
  /\ orders[o].status \in orders[o].stamps \cup {"created"}
  /\ orders[o].status = "created" => orders[o].stamps = {}
  /\ HasRow(earnings, o) => "completed" \in orders[o].stamps
  /\ failures = 0 =>
       /\ \A s \in orders[o].stamps :
            HasEntry(o, s) \/ \E r \in Requests : OwesEntry(r, o, s)
       /\ orders[o].status # "created" /\ courierRoom[o] = "created" =>
            \E r \in Requests : OwesCouriers(r, o)

\* An order that has left created never comes back, so no event says created.
SeenInv(r) == req[r].seen # "created"

IInvOwed ==
  /\ IInv
  /\ \A o \in Orders : OwedInv(o)
  /\ \A r \in Requests : SeenInv(r)

-----------------------------------------------------------------------------
(***************************************************************************)
(* What the documents promise of every order and every courier.  None of   *)
(* it holds of the handlers as they are: two requests whose checks and     *)
(* writes overlap break each of these.  OrderOverlaps states what is left  *)
(* of them: for which orders and couriers they do hold.                    *)
(***************************************************************************)
\* Edge cases of specs/007: the shift gate is atomic with the assignment.
AssignedOnShift ==
  [][\A o \in Orders : winner'[o] # winner[o] => winner'[o] \in onShift]_vars

OneActive(c) == \A o, p \in Active(c) : o = p

\* FR-016: a courier has at most one active order.
OneActiveOrder == \A c \in Couriers : OneActive(c)

\* Assumptions of specs/003: completed and cancelled are terminal states.
TerminalIsFinal ==
  [][\A o \in Orders : orders[o].status \in Terminal =>
       orders'[o].status = orders[o].status]_vars

CancelledUnpaid(o) == orders[o].status = "cancelled" => ~HasRow(earnings, o)

\* FR-010: no earnings for a cancelled order.
NoEarningForCancelled == \A o \in Orders : CancelledUnpaid(o)

WinnerTold(o) ==
  orders[o].status = "cancelled" /\ winner[o] # NULL =>
    [order |-> o, courier |-> winner[o]] \in cancelJobs

\* specs/003, User Story 3 scenario 2: the courier of an order that is
\* cancelled is notified (once the requests are answered, none lost).
CancelledCourierNotified == Quiescent => \A o \in Orders : WinnerTold(o)

\* FR-012: once every request is answered, none lost, the last event told to
\* the staff room carries the status the order has.
StaffSeeTheStatus ==
  Quiescent => \A o \in Orders : staffRoom[o] = orders[o].status

\* No two audit entries of the order claim to have left the same status.
Chained(o) ==
  \A e, f \in audit : e.order = o /\ f.order = o /\ e.from = f.from => e = f

\* FR-011: every status change is logged with its prior status.
AuditChain == \A o \in Orders : Chained(o)

=============================================================================
