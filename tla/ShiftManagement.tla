-------------------------- MODULE ShiftManagement ---------------------------
(***************************************************************************)
(* couriers/shift-management.service.ts: openShift and closeShift, and the *)
(* PATCH of couriers-admin.service.ts that writes the same courier row.    *)
(*                                                                         *)
(* A handler of the shift service is one Postgres transaction of several   *)
(* statements.  Until its COMMIT what it wrote is seen by nobody else, and *)
(* the rows and index entries it touched are locked.  NOW() is the time of *)
(* START TRANSACTION, however long the statements then wait.               *)
(***************************************************************************)
EXTENDS Naturals, FiniteSets

CONSTANTS
  Couriers,     \* users with the role courier, all of one tenant
  Requests,     \* slots for requests being handled at the same time
  Edits,        \* what a PATCH carries as status; NULL when it carries none
  MaxClock,     \* bound: transactions ever started by the shift service
  MaxFailures,  \* bound: requests lost before their COMMIT
  NULL

Availability == {"available", "unavailable"}
Kinds == {"open", "close", "edit"}

ASSUME EditsAssumption == Edits \subseteq Availability \cup {NULL}
ASSUME NullAssumption ==
  /\ NULL \notin Nat
  /\ NULL \notin Couriers
  /\ NULL \notin Availability \cup Kinds
  /\ NULL \notin [courier : Couriers, started : Nat, ended : Nat \cup {NULL}]
ASSUME BoundsAssumption == MaxClock \in Nat /\ MaxFailures \in Nat

VARIABLES
  shifts,    \* committed rows of courier_shifts; a row is open while ended is NULL
  status,    \* committed couriers.status
  tx,        \* tx[t]: the request in slot t and what its transaction has written
  clock,     \* the server's clock, read by every START TRANSACTION
  opened,    \* courier:shift_opened events told to the staff room
  closed,    \* courier:shift_closed events told to the staff room
  failures   \* how many requests were lost

vars == <<shifts, status, tx, clock, opened, closed, failures>>

(***************************************************************************)
(* at is what NOW() is worth; row is the uncommitted row of                *)
(* courier_shifts; status is the uncommitted couriers.status, or the       *)
(* status of the entity a PATCH holds; found is the row closeShift tells.  *)
(***************************************************************************)
Idle == [pc |-> "idle", kind |-> NULL, courier |-> NULL, at |-> 0,
         row |-> NULL, status |-> NULL, found |-> NULL]

InFlight(t) == tx[t].pc # "idle"
Return(t) == tx' = [tx EXCEPT ![t] = Idle]

(***************************************************************************)
(* The order of the statements of the two transactions.  Mutations: open   *)
(* updates the courier first; it tells the staff before it inserts.        *)
(***************************************************************************)
OpenCourierFirst ==
  [begin |-> "courier", courier |-> "insert", insert |-> "emit",
   emit |-> "commit"]
OpenEmitFirst ==
  [begin |-> "emit", emit |-> "insert", insert |-> "courier",
   courier |-> "commit"]
OpenOrder ==
  [begin |-> "insert", insert |-> "courier", courier |-> "emit",
   emit |-> "commit"]

CloseOrder ==
  [begin |-> "close", close |-> "find", find |-> "courier",
   courier |-> "emit", emit |-> "commit"]

Order(kind) == IF kind = "open" THEN OpenOrder ELSE CloseOrder

After(t) == Order(tx[t].kind)[tx[t].pc]

-----------------------------------------------------------------------------
Init ==
  /\ shifts = {}
  /\ status = [c \in Couriers |-> "unavailable"]
  /\ tx = [t \in Requests |-> Idle]
  /\ clock = 0
  /\ opened = {}
  /\ closed = {}
  /\ failures = 0

OpenRows(c) == {s \in shifts : s.courier = c /\ s.ended = NULL}

\* Another transaction has written a row of this courier: an INSERT waits for
\* it at the partial unique index, an UPDATE at the row.
ShiftLocked(t) ==
  \E u \in Requests \ {t} : /\ tx[u].courier = tx[t].courier
                            /\ tx[u].row # NULL

\* Another transaction has updated the courier's row.
CourierLocked(t) ==
  \E u \in Requests \ {t} : /\ tx[u].courier = tx[t].courier
                            /\ tx[u].kind # "edit"
                            /\ tx[u].status # NULL

-----------------------------------------------------------------------------
(***************************************************************************)
(* openShift and closeShift                                                *)
(***************************************************************************)
\* START TRANSACTION.
BeginShift(t, c, kind) ==
  /\ tx[t] = Idle
  /\ clock < MaxClock
  /\ clock' = clock + 1
  /\ tx' = [tx EXCEPT ![t] = [Idle EXCEPT !.pc = Order(kind).begin,
                                          !.kind = kind, !.courier = c,
                                          !.at = clock + 1]]
  /\ UNCHANGED <<shifts, status, opened, closed, failures>>

\* What the index on (courier_id) WHERE status = 'open' refuses.  Mutation:
\* there is no such index.
UniqueViolationNever(c) == FALSE
UniqueViolation(c) == OpenRows(c) # {}

\* The INSERT of an open row; on 23505 the transaction ends with 409.
InsertShift(t) ==
  /\ tx[t].pc = "insert"
  /\ ~ShiftLocked(t)
  /\ IF UniqueViolation(tx[t].courier)
     THEN Return(t)
     ELSE tx' = [tx EXCEPT ![t].pc = After(t),
                           ![t].row = [courier |-> tx[t].courier,
                                       started |-> tx[t].at, ended |-> NULL]]
  /\ UNCHANGED <<shifts, status, clock, opened, closed, failures>>

\* The UPDATE of the open row.  When it sees none the answer is 409, at once,
\* even while another transaction has inserted one: that row is not yet there.
CloseOpenRow(t) ==
  /\ tx[t].pc = "close"
  /\ \/ /\ OpenRows(tx[t].courier) = {}
        /\ Return(t)
     \/ /\ ~ShiftLocked(t)
        /\ \E s \in OpenRows(tx[t].courier) :
             tx' = [tx EXCEPT ![t].pc = After(t),
                              ![t].row = [courier |-> s.courier,
                                          started |-> s.started,
                                          ended |-> tx[t].at]]
  /\ UNCHANGED <<shifts, status, clock, opened, closed, failures>>

\* The courier's closed rows, as the transaction that has closed one sees them.
ClosedRows(t) ==
  {s \in shifts : s.courier = tx[t].courier /\ s.ended # NULL} \cup {tx[t].row}

\* The SELECT that looks the row up again: the latest ended_at.  Mutation: the
\* oldest, as when ORDER BY has lost its DESC.
IsFirstEnded(s, rows) == \A r \in rows : s.ended <= r.ended
IsLastEnded(s, rows) == \A r \in rows : s.ended >= r.ended

FindClosed(t) ==
  /\ tx[t].pc = "find"
  /\ \E s \in ClosedRows(t) :
       /\ IsLastEnded(s, ClosedRows(t))
       /\ tx' = [tx EXCEPT ![t].pc = After(t), ![t].found = s]
  /\ UNCHANGED <<shifts, status, clock, opened, closed, failures>>

\* What the transaction sets couriers.status to.  Mutation: closing does not
\* change it.
NewStatusOpenOnly(kind) == "available"
NewStatus(kind) == IF kind = "open" THEN "available" ELSE "unavailable"

UpdateCourier(t) ==
  /\ tx[t].pc = "courier"
  /\ ~CourierLocked(t)
  /\ tx' = [tx EXCEPT ![t].pc = After(t), ![t].status = NewStatus(tx[t].kind)]
  /\ UNCHANGED <<shifts, status, clock, opened, closed, failures>>

\* emitShiftOpened, emitShiftClosed: inside the transaction.
Emit(t) ==
  /\ tx[t].pc = "emit"
  /\ IF tx[t].kind = "open"
     THEN /\ opened' = opened \cup {[courier |-> tx[t].courier,
                                     started |-> tx[t].at]}
          /\ UNCHANGED closed
     ELSE /\ closed' = closed \cup {tx[t].found}
          /\ UNCHANGED opened
  /\ tx' = [tx EXCEPT ![t].pc = After(t)]
  /\ UNCHANGED <<shifts, status, clock, failures>>

\* The rows after a row was inserted, or updated in place.
Written(row) ==
  {s \in shifts : s.courier # row.courier \/ s.started # row.started} \cup {row}

Commit(t) ==
  /\ tx[t].pc = "commit"
  /\ shifts' = Written(tx[t].row)
  /\ status' = [status EXCEPT ![tx[t].courier] = tx[t].status]
  /\ Return(t)
  /\ UNCHANGED <<clock, opened, closed, failures>>

-----------------------------------------------------------------------------
(***************************************************************************)
(* The PATCH of a courier, as far as couriers.status goes.                 *)
(***************************************************************************)
\* findOne and Object.assign: the entity has the status of the request, or the
\* one that was read.
EditLoad(t, c, edit) ==
  /\ tx[t] = Idle
  /\ tx' = [tx EXCEPT ![t] =
              [Idle EXCEPT !.pc = "select", !.kind = "edit", !.courier = c,
                           !.status = IF edit = NULL THEN status[c] ELSE edit]]
  /\ UNCHANGED <<shifts, status, clock, opened, closed, failures>>

\* save reads the row again and writes only the columns that now differ.
EditSelect(t) ==
  /\ tx[t].pc = "select"
  /\ IF tx[t].status = status[tx[t].courier]
     THEN Return(t)
     ELSE tx' = [tx EXCEPT ![t].pc = "update"]
  /\ UNCHANGED <<shifts, status, clock, opened, closed, failures>>

EditUpdate(t) ==
  /\ tx[t].pc = "update"
  /\ ~CourierLocked(t)
  /\ status' = [status EXCEPT ![tx[t].courier] = tx[t].status]
  /\ Return(t)
  /\ UNCHANGED <<shifts, clock, opened, closed, failures>>

-----------------------------------------------------------------------------
\* The process dies or the database goes away: the transaction rolls back, but
\* what was told to the staff room stays told.
Fail(t) ==
  /\ InFlight(t)
  /\ failures < MaxFailures
  /\ failures' = failures + 1
  /\ Return(t)
  /\ UNCHANGED <<shifts, status, clock, opened, closed>>

Continue(t) ==
  \/ InsertShift(t)
  \/ CloseOpenRow(t)
  \/ FindClosed(t)
  \/ UpdateCourier(t)
  \/ Emit(t)
  \/ Commit(t)
  \/ EditSelect(t)
  \/ EditUpdate(t)

Next ==
  \/ \E t \in Requests, c \in Couriers, kind \in {"open", "close"} :
       BeginShift(t, c, kind)
  \/ \E t \in Requests, c \in Couriers, edit \in Edits : EditLoad(t, c, edit)
  \/ \E t \in Requests : Continue(t)
  \/ \E t \in Requests : Fail(t)

\* Every statement comes back: at once, or when the lock it waits for is free.
Fairness == \A t \in Requests : WF_vars(Continue(t))

Spec == Init /\ [][Next]_vars
FairSpec == Spec /\ Fairness

-----------------------------------------------------------------------------
Times == 0..MaxClock
Row == [courier : Couriers, started : Times, ended : Times \cup {NULL}]
Tx == [pc : {"insert", "close", "find", "courier", "emit", "commit", "select",
             "update"},
       kind : Kinds, courier : Couriers, at : Times,
       row : Row \cup {NULL}, status : Availability \cup {NULL},
       found : Row \cup {NULL}]

\* Tables, transactions and events hold values of their types.
TypeOK ==
  /\ shifts \subseteq Row
  /\ status \in [Couriers -> Availability]
  /\ tx \in [Requests -> Tx \cup {Idle}]
  /\ clock \in Times
  /\ opened \subseteq [courier : Couriers, started : Times]
  /\ closed \subseteq Row
  /\ failures \in 0..MaxFailures

On == {c \in Couriers : OpenRows(c) # {}}
Available == {c \in Couriers : status[c] = "available"}
Sessions(c) == {s \in shifts : s.courier = c}

Quiescent == failures = 0 /\ \A t \in Requests : ~InFlight(t)

(***************************************************************************)
(* The inductive invariant: a transaction that has written holds the only  *)
(* lock of its courier's shifts, so what it has read is still so when it   *)
(* commits.                                                                *)
(***************************************************************************)
RowsInv ==
  /\ IsFiniteSet(shifts)
  /\ \A s \in shifts : s.started <= clock
  /\ \A s, r \in shifts :
       s.courier = r.courier /\ s.started = r.started => s = r
  /\ \A s, r \in shifts :
       s.courier = r.courier /\ s.ended = NULL /\ r.ended = NULL => s = r

\* The row a transaction has written: new and the only open one, or the open
\* one with its end.
PendingInv(t) ==
  /\ tx[t].row.courier = tx[t].courier
  /\ tx[t].kind = "open" =>
       /\ tx[t].row.started = tx[t].at
       /\ tx[t].row.ended = NULL
       /\ OpenRows(tx[t].courier) = {}
  /\ tx[t].kind = "close" =>
       /\ tx[t].row.ended = tx[t].at
       /\ \E s \in OpenRows(tx[t].courier) : s.started = tx[t].row.started

TxInv(t) ==
  /\ tx[t].at <= clock
  /\ tx[t].pc = "insert" => tx[t].kind = "open"
  /\ tx[t].pc \in {"close", "find"} => tx[t].kind = "close"
  /\ tx[t].pc \in {"courier", "emit", "commit"} => tx[t].kind \in {"open", "close"}
  /\ tx[t].pc \in {"select", "update"} => tx[t].kind = "edit" /\ tx[t].status # NULL
  /\ tx[t].row = NULL <=> tx[t].pc \notin {"find", "courier", "emit", "commit"}
  /\ tx[t].row # NULL => PendingInv(t)
  /\ tx[t].pc \in {"emit", "commit"} => tx[t].status = NewStatus(tx[t].kind)
  /\ tx[t].pc \in {"courier", "emit"} /\ tx[t].kind = "close" =>
       tx[t].found # NULL
  /\ tx[t].kind = "open" => \A s \in shifts : s.started # tx[t].at

DistinctInv ==
  \A t, u \in Requests : t # u =>
    /\ tx[t].kind = "open" /\ tx[u].kind = "open" => tx[t].at # tx[u].at
    /\ tx[t].row # NULL /\ tx[u].row # NULL => tx[t].courier # tx[u].courier

IInv ==
  /\ TypeOK
  /\ RowsInv
  /\ \A t \in Requests : TxInv(t)
  /\ DistinctInv

(***************************************************************************)
(* What holds however the transactions overlap.                            *)
(***************************************************************************)
\* FR-003: two openings at once leave one open shift, though neither reads
\* before it inserts.
OneOpenShift == \A c \in Couriers : Cardinality(OpenRows(c)) <= 1

\* FR-011: once every request is answered, none lost, the staff were told of
\* exactly the shifts that were opened: of none that got 409, and of no other.
OpeningsAreAnnounced ==
  Quiescent => opened = {[courier |-> s.courier, started |-> s.started] :
                           s \in shifts}

\* The inductive invariant behind it: an opening is told just before its COMMIT.
Opening(s) == [courier |-> s.courier, started |-> s.started]

Pending == {t \in Requests : tx[t].kind = "open" /\ tx[t].pc = "commit"}

OpenedInv ==
  failures = 0 => opened = {Opening(s) : s \in shifts}
                             \cup {Opening(tx[t].row) : t \in Pending}

IInvOpened == IInv /\ OpenedInv

\* The two tables move together, one opening or closing at a time, no shift is
\* ever erased, and a PATCH moves nothing but the status: the board is what the
\* overlapping requests implement.
Board == INSTANCE ShiftBoard
           WITH on <- On, available <- Available,
                sessions <- [c \in Couriers |-> Cardinality(Sessions(c))]

BoardSpec == Board!Spec

\* The locks of overlapping transactions are taken in one order, so that every
\* request is answered: none waits for ever for the others.
EveryRequestAnswered == \A t \in Requests : InFlight(t) ~> ~InFlight(t)

(***************************************************************************)
(* What the documents say without a condition, and the code does not keep. *)
(***************************************************************************)
\* Assumptions of specs/007: the status of a courier is available exactly
\* while a shift is open.
StatusFollowsShift == Available = On

\* Assumptions of specs/007: the shifts of a courier do not overlap, the earlier
\* of two has ended by the start of the later.
Apart(s, r) ==
  r.courier = s.courier /\ r.started > s.started =>
    s.ended # NULL /\ s.ended <= r.started

ShiftsDoNotOverlap == \A s, r \in shifts : Apart(s, r)

\* FR-012: a shift that is closed has been told to the staff.
Announced(s) == s.ended # NULL => s \in closed

ClosingsAreAnnounced == \A s \in shifts : Announced(s)

=============================================================================
