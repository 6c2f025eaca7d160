--------------------------- MODULE OrderIngestion ---------------------------
(***************************************************************************)
(* orders/orders.service.ts: create, one Postgres transaction that also    *)
(* tells the staff room and adds a job before its COMMIT; and              *)
(* orders/jobs/new-order-notify.processor.ts: the worker that takes the    *)
(* job and pushes the order to every courier with a token.                 *)
(***************************************************************************)
EXTENDS Naturals

CONSTANTS
  Numbers,      \* order numbers of one tenant
  Phones,       \* phones of its clients
  Couriers,     \* its couriers that have an FCM token
  Requests,     \* slots for requests being handled at the same time
  MaxOrders,    \* bound: attempts ever made to create an order
  MaxFailures,  \* bound: crashes, lost answers and refused pushes
  MaxAttempts,  \* attempts of the queue
  MaxStalls     \* how often BullMQ hands a stalled job out again

ASSUME BoundsAssumption ==
  /\ MaxOrders \in Nat /\ MaxFailures \in Nat
  /\ MaxAttempts \in Nat \ {0} /\ MaxStalls \in Nat

\* An attempt to create an order draws the uuids of its rows; they are named
\* after the attempt.  0 is no uuid.
Ids == 1..MaxOrders

VARIABLES
  db,        \* committed rows of clients, orders, order_items, order_audit_entries
  tx,        \* tx[r]: the request in slot r and the rows its transaction has written
  drawn,     \* the last attempt
  dashboard, \* orders told to the staff room as order:created
  jobs,      \* jobs[i]: the notify job of order i
  pushed,    \* pushes that reached a courier
  refused,   \* pushes that FCM refused
  failures   \* how many of them there were

queue == <<jobs, pushed, refused>>
vars == <<db, tx, drawn, dashboard, queue, failures>>

(***************************************************************************)
(* Rows.  An order row names its client; the two unique indexes are on the *)
(* key of clients and of orders.                                           *)
(***************************************************************************)
ClientRow(p, i) == [table |-> "clients", key |-> p, id |-> i, client |-> 0]
OrderRow(n, i, c) == [table |-> "orders", key |-> n, id |-> i, client |-> c]
ItemsRow(i) == [table |-> "order_items", key |-> i, id |-> i, client |-> 0]
AuditRow(i) == [table |-> "order_audit_entries", key |-> i, id |-> i, client |-> 0]

Clash(row, other) == row.table = other.table /\ row.key = other.key

\* Mutation: the index is missing.
NoViolation(row) == FALSE
UniqueViolation(row) == \E other \in db : Clash(row, other)

\* An uncommitted row with the same key makes an INSERT wait.
Held(r, row) ==
  \E q \in Requests \ {r} : \E other \in tx[q].writes : Clash(row, other)

Idle == [pc |-> "idle", id |-> 0, number |-> 0, phone |-> 0, client |-> 0,
         writes |-> {}]
NoJob == [state |-> "none", attempts |-> 0, stalls |-> 0, todo |-> {}]

Init ==
  /\ db = {}
  /\ tx = [r \in Requests |-> Idle]
  /\ drawn = 0
  /\ dashboard = {}
  /\ jobs = [i \in Ids |-> NoJob]
  /\ pushed = {} /\ refused = {}
  /\ failures = 0

(***************************************************************************)
(* create, one action per await.                                           *)
(***************************************************************************)
\* The owner exists; the client is looked up among the committed rows.
FindClient(r, n, p) ==
  /\ tx[r].pc = "idle"
  /\ drawn < MaxOrders
  /\ drawn' = drawn + 1
  /\ \/ \E k \in db :
          /\ k.table = "clients" /\ k.key = p
          /\ tx' = [tx EXCEPT ![r] = [pc |-> "order", id |-> drawn', number |-> n,
                      phone |-> p, client |-> k.id, writes |-> {}]]
     \/ /\ \A k \in db : ~(k.table = "clients" /\ k.key = p)
        /\ tx' = [tx EXCEPT ![r] = [pc |-> "client", id |-> drawn', number |-> n,
                    phone |-> p, client |-> drawn', writes |-> {}]]
  /\ UNCHANGED <<db, dashboard, queue, failures>>

Return(r) == tx' = [tx EXCEPT ![r] = Idle]
GoOn(r, next, writes) ==
  IF next = "idle" THEN Return(r)
  ELSE tx' = [tx EXCEPT ![r].pc = next, ![r].writes = writes]
Write(r, row, next) == GoOn(r, next, tx[r].writes \cup {row})

\* After a unique violation Postgres refuses the SELECT that both catch blocks
\* make in the same transaction, so both end in a rollback and a 500.
Insert(r, row, next) ==
  /\ ~Held(r, row)
  /\ IF UniqueViolation(row) THEN Return(r) ELSE Write(r, row, next)
  /\ UNCHANGED <<db, drawn, dashboard, queue, failures>>

InsertClient(r) ==
  /\ tx[r].pc = "client"
  /\ Insert(r, ClientRow(tx[r].phone, tx[r].id), "order")

InsertOrder(r) ==
  /\ tx[r].pc = "order"
  /\ Insert(r, OrderRow(tx[r].number, tx[r].id, tx[r].client), "items")

InsertItems(r) ==
  /\ tx[r].pc = "items"
  /\ Write(r, ItemsRow(tx[r].id), "audit")
  /\ UNCHANGED <<db, drawn, dashboard, queue, failures>>

\* What follows the audit row, the job and the COMMIT.  Mutation: the job is
\* added after the COMMIT.
AfterLate == [audit |-> "commit", enqueue |-> "idle", commit |-> "enqueue"]
After == [audit |-> "enqueue", enqueue |-> "commit", commit |-> "idle"]

\* The audit row; the staff room is told before the next await.
InsertAudit(r) ==
  /\ tx[r].pc = "audit"
  /\ Write(r, AuditRow(tx[r].id), After.audit)
  /\ dashboard' = dashboard \cup {tx[r].id}
  /\ UNCHANGED <<db, drawn, queue, failures>>

\* queue.add: Redis takes the job at once, whatever becomes of the transaction.
Enqueue(r) ==
  /\ tx[r].pc = "enqueue"
  /\ GoOn(r, After.enqueue, tx[r].writes)
  /\ jobs' = [jobs EXCEPT ![tx[r].id].state = "waiting"]
  /\ UNCHANGED <<db, drawn, dashboard, pushed, refused, failures>>

Commit(r) ==
  /\ tx[r].pc = "commit"
  /\ db' = db \cup tx[r].writes
  /\ GoOn(r, After.commit, {})
  /\ UNCHANGED <<drawn, dashboard, queue, failures>>

\* A statement or queue.add throws, its answer is lost, or the process dies:
\* the transaction rolls back, the event and the job stay.
Fail(r) ==
  /\ tx[r].pc # "idle"
  /\ failures < MaxFailures
  /\ failures' = failures + 1
  /\ Return(r)
  /\ UNCHANGED <<db, drawn, dashboard, queue>>

(***************************************************************************)
(* The worker.                                                             *)
(***************************************************************************)
\* A job is taken and the couriers of its tenant are read.
TakeJob(i) ==
  /\ jobs[i].state = "waiting"
  /\ jobs' = [jobs EXCEPT ![i].state = "active", ![i].todo = Couriers]
  /\ UNCHANGED <<db, tx, drawn, dashboard, pushed, refused, failures>>

\* That read throws: the queue tries again until the attempts are used up.
AttemptFails(i) ==
  /\ jobs[i].state = "waiting"
  /\ failures < MaxFailures
  /\ failures' = failures + 1
  /\ jobs' = [jobs EXCEPT ![i].attempts = @ + 1,
                ![i].state = IF jobs[i].attempts + 1 < MaxAttempts
                             THEN "waiting" ELSE "failed"]
  /\ UNCHANGED <<db, tx, drawn, dashboard, pushed, refused>>

Push(i, c) ==
  /\ jobs[i].state = "active"
  /\ c \in jobs[i].todo
  /\ pushed' = pushed \cup {<<c, i>>}
  /\ jobs' = [jobs EXCEPT ![i].todo = @ \ {c}]
  /\ UNCHANGED <<db, tx, drawn, dashboard, refused, failures>>

\* The couriers left after a refusal, which is logged and swallowed.  Mutation:
\* the first refusal ends the loop.
LeftAfterNone(i, c) == {}
LeftAfter(i, c) == jobs[i].todo \ {c}

PushRefused(i, c) ==
  /\ jobs[i].state = "active"
  /\ c \in jobs[i].todo
  /\ failures < MaxFailures
  /\ failures' = failures + 1
  /\ refused' = refused \cup {<<c, i>>}
  /\ jobs' = [jobs EXCEPT ![i].todo = LeftAfter(i, c)]
  /\ UNCHANGED <<db, tx, drawn, dashboard, pushed>>

FinishJob(i) ==
  /\ jobs[i].state = "active"
  /\ jobs[i].todo = {}
  /\ jobs' = [jobs EXCEPT ![i].state = "completed"]
  /\ UNCHANGED <<db, tx, drawn, dashboard, pushed, refused, failures>>

\* The worker dies: BullMQ finds the job stalled and hands it out from the start.
Stall(i) ==
  /\ jobs[i].state = "active"
  /\ failures < MaxFailures
  /\ failures' = failures + 1
  /\ jobs' = [jobs EXCEPT ![i].stalls = @ + 1, ![i].todo = {},
                ![i].state = IF jobs[i].stalls < MaxStalls
                             THEN "waiting" ELSE "failed"]
  /\ UNCHANGED <<db, tx, drawn, dashboard, pushed, refused>>

-----------------------------------------------------------------------------
Continue(r) ==
  \/ InsertClient(r)
  \/ InsertOrder(r)
  \/ InsertItems(r)
  \/ InsertAudit(r)
  \/ Enqueue(r)
  \/ Commit(r)

Work(i) ==
  \/ TakeJob(i)
  \/ \E c \in Couriers : Push(i, c)
  \/ FinishJob(i)

Trouble(i) ==
  \/ AttemptFails(i)
  \/ \E c \in Couriers : PushRefused(i, c)
  \/ Stall(i)

Next ==
  \/ \E r \in Requests, n \in Numbers, p \in Phones : FindClient(r, n, p)
  \/ \E r \in Requests : Continue(r)
  \/ \E r \in Requests : Fail(r)
  \/ \E i \in Ids : Work(i)
  \/ \E i \in Ids : Trouble(i)

\* A statement comes back, at the latest when the lock it waits for is free; a
\* worker that runs takes a waiting job and goes on with it.
Fairness ==
  /\ \A r \in Requests : WF_vars(Continue(r))
  /\ \A i \in Ids : WF_vars(Work(i))

Spec == Init /\ [][Next]_vars
FairSpec == Spec /\ Fairness

-----------------------------------------------------------------------------
Rows ==
  [table : {"clients"}, key : Phones, id : Ids, client : {0}]
  \cup [table : {"orders"}, key : Numbers, id : Ids, client : Ids]
  \cup [table : {"order_items", "order_audit_entries"}, key : Ids, id : Ids, client : {0}]

Tx == [pc : {"client", "order", "items", "audit", "enqueue", "commit"},
       id : Ids, number : Numbers, phone : Phones, client : Ids, writes : SUBSET Rows]

Job == [state : {"none", "waiting", "active", "completed", "failed"},
        attempts : Nat, stalls : Nat, todo : SUBSET Couriers]

\* Tables, transactions, jobs and pushes hold values of their types.
TypeOK ==
  /\ db \subseteq Rows
  /\ tx \in [Requests -> Tx \cup {Idle}]
  /\ drawn \in 0..MaxOrders
  /\ dashboard \subseteq Ids
  /\ jobs \in [Ids -> Job]
  /\ pushed \subseteq Couriers \X Ids
  /\ refused \subseteq Couriers \X Ids
  /\ failures \in 0..MaxFailures

Placed == {row \in db : row.table = "orders"}
Registered == {row \in db : row.table = "clients"}

\* FR-003, FR-007 and FR-008 of specs/002: an order that can be seen has its
\* items and its audit row, the staff room was told of it and its job was
\* added, whatever was lost on the way.
VisibleOrdersAreWhole ==
  \A row \in Placed :
    /\ ItemsRow(row.id) \in db
    /\ AuditRow(row.id) \in db
    /\ row.id \in dashboard
    /\ jobs[row.id].state # "none"

(***************************************************************************)
(* The inductive invariant: the index entries of a transaction are its own *)
(* until it ends, so what it did not find when it wrote a row is still not *)
(* there when it commits; and what it wrote is known from where it is.     *)
(***************************************************************************)
Indexed == {"clients", "orders"}

RowsInv ==
  \A row, other \in db :
    row.table \in Indexed /\ Clash(row, other) => row = other

Pending(r) ==
  \A row \in tx[r].writes : row.table \in Indexed =>
    ~UniqueViolation(row) /\ ~Held(r, row)

Written(t) ==
  /\ t.writes \subseteq {ClientRow(t.phone, t.client), OrderRow(t.number, t.id, t.client),
                         ItemsRow(t.id), AuditRow(t.id)}
  /\ t.pc = "client" => t.client = t.id
  /\ t.pc # "client" => ClientRow(t.phone, t.client) \in db \cup t.writes
  /\ t.pc \notin {"client", "order"} => OrderRow(t.number, t.id, t.client) \in t.writes
  /\ t.pc \in {"audit", "enqueue", "commit"} => ItemsRow(t.id) \in t.writes
  /\ t.pc \in {"enqueue", "commit"} => AuditRow(t.id) \in t.writes /\ t.id \in dashboard
  /\ t.pc = "commit" => jobs[t.id].state # "none"

RequestInv(r) == Pending(r) /\ (tx[r].pc # "idle" => Written(tx[r]))

\* Every reachable state satisfies it.
IInv ==
  /\ TypeOK
  /\ RowsInv
  /\ \A r \in Requests : RequestInv(r)
  /\ VisibleOrdersAreWhole

(***************************************************************************)
(* FR-002 and FR-004: create implements OrderBook.                         *)
(***************************************************************************)
Book == INSTANCE OrderBook WITH
  book <- {[number |-> row.key, client |-> row.client] : row \in Placed},
  contacts <- {[phone |-> row.key, id |-> row.id] : row \in Registered}
BookSpec == Book!Spec

\* SC-003: once an order can be seen, every courier is pushed unless FCM
\* refuses that very push or the queue has given up: a crash of the worker or
\* a refusal of another courier's push does not lose it.
EveryCourierIsPushed ==
  \A i \in Ids, c \in Couriers :
    (\E row \in Placed : row.id = i) ~>
      (<<c, i>> \in pushed \cup refused \/ jobs[i].state = "failed")

=============================================================================
