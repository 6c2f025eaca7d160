------------------------ MODULE OrderIngestionProofs ------------------------
(***************************************************************************)
(* Proofs about OrderIngestion for any numbers, phones, couriers and       *)
(* overlapping requests, and for any bounds.                               *)
(*                                                                         *)
(* An INSERT waits for the uncommitted row with its key and is refused by  *)
(* the committed one.  A row that a transaction has written therefore has  *)
(* no rival, in the tables or in another transaction, until it commits     *)
(* (Pending), and its COMMIT places an order in the book.                  *)
(***************************************************************************)
EXTENDS OrderIngestion, TLAPS

\* What the other requests and the notify jobs must keep for a step of r.
OthersSame(r) ==
  /\ tx' \in [Requests -> Tx \cup {Idle}]
  /\ \A q \in Requests \ {r} : tx'[q] = tx[q]

JobsStay ==
  /\ dashboard \subseteq dashboard' /\ dashboard' \subseteq Ids
  /\ jobs' \in [Ids -> Job]
  /\ \A i \in Ids : jobs[i].state # "none" => jobs'[i].state # "none"

RestTyped ==
  /\ drawn' \in 0..MaxOrders
  /\ pushed' \subseteq Couriers \X Ids
  /\ refused' \subseteq Couriers \X Ids
  /\ failures' \in 0..MaxFailures

-----------------------------------------------------------------------------
\* A request that is being handled is a whole Tx.
LEMMA InFlightType ==
  ASSUME TypeOK, NEW r \in Requests, tx[r].pc # "idle"
  PROVE  tx[r] \in Tx
BY DEF TypeOK, Idle

LEMMA IdleTx ==
  ASSUME TypeOK, NEW r \in Requests, tx[r].pc = "idle"
  PROVE  tx[r] = Idle
BY DEF TypeOK, Tx

LEMMA ReturnIs ==
  ASSUME TypeOK, NEW r \in Requests, Return(r)
  PROVE  OthersSame(r) /\ tx'[r] = Idle
BY DEF TypeOK, Return, OthersSame

\* A slot that has been freed has nothing to keep.
LEMMA IdleInv ==
  ASSUME NEW r \in Requests, tx'[r] = Idle
  PROVE  RequestInv(r)'
BY DEF RequestInv, Pending, Idle

\* The rows a transaction writes have their types.
LEMMA RowTypes ==
  ASSUME NEW i \in Ids, NEW c \in Ids, NEW p \in Phones, NEW n \in Numbers
  PROVE  /\ ClientRow(p, i) \in Rows
         /\ OrderRow(n, i, c) \in Rows
         /\ ItemsRow(i) \in Rows
         /\ AuditRow(i) \in Rows
BY DEF Rows, ClientRow, OrderRow, ItemsRow, AuditRow

\* Two rows that one transaction has written are of different tables.
LEMMA OneRowPerTable ==
  ASSUME NEW t, Written(t), NEW row \in t.writes, NEW other \in t.writes,
         Clash(row, other)
  PROVE  row = other
BY DEF Written, Clash, ClientRow, OrderRow, ItemsRow, AuditRow

\* A step of one request that commits nothing: only its own part of the
\* invariant is to be shown.
LEMMA LocalStep ==
  ASSUME IInv, NEW r \in Requests, OthersSame(r), db' = db, JobsStay, RestTyped,
         RequestInv(r)'
  PROVE  IInv'
<1>1. TypeOK'
  BY DEF IInv, TypeOK, OthersSame, JobsStay, RestTyped
<1>2. RowsInv' /\ VisibleOrdersAreWhole'
  <2>1. \A row \in Placed : row.id \in Ids
    BY DEF IInv, TypeOK, Placed, Rows
  <2>2. QED
    BY <2>1 DEF IInv, RowsInv, VisibleOrdersAreWhole, Placed, JobsStay
<1>3. ASSUME NEW q \in Requests, q # r
      PROVE  RequestInv(q)'
  <2>1. tx'[q] = tx[q] /\ RequestInv(q)
    BY <1>3 DEF OthersSame, IInv
  <2>2. Pending(q)'
    <3> SUFFICES ASSUME NEW row \in tx[q].writes, row.table \in Indexed
                 PROVE  ~UniqueViolation(row)' /\ ~Held(q, row)'
      BY <2>1 DEF Pending
    <3>1. ~UniqueViolation(row)'
      BY <2>1 DEF RequestInv, Pending, UniqueViolation
    <3>2. ASSUME NEW u \in Requests \ {q}, NEW other \in tx'[u].writes,
                 Clash(row, other)
          PROVE  FALSE
      <4>1. CASE u = r
        <5>1. other.table \in Indexed /\ Clash(other, row)
          BY <3>2 DEF Clash
        <5>2. ~Held(r, other)'
          BY <4>1, <5>1, <3>2 DEF RequestInv, Pending
        <5>3. QED
          BY <5>1, <5>2, <2>1, <1>3 DEF Held
      <4>2. CASE u # r
        BY <4>2, <3>2, <2>1 DEF OthersSame, RequestInv, Pending, Held
      <4>3. QED
        BY <4>1, <4>2
    <3>3. QED
      BY <3>1, <3>2 DEF Held
  <2>3. tx'[q].pc # "idle" => Written(tx[q])'
    <3> SUFFICES ASSUME tx[q].pc # "idle" PROVE Written(tx[q])'
      BY <2>1
    <3>1. tx[q].id \in Ids /\ Written(tx[q])
      BY <2>1, InFlightType DEF IInv, Tx, RequestInv
    <3>2. QED
      BY <3>1, <2>1 DEF Written, JobsStay
  <2>4. QED
    BY <2>1, <2>2, <2>3 DEF RequestInv
<1>4. QED
  BY <1>1, <1>2, <1>3 DEF IInv

-----------------------------------------------------------------------------
LEMMA InitInv == Init => IInv
<1> SUFFICES ASSUME Init PROVE IInv
  OBVIOUS
<1>1. TypeOK
  BY BoundsAssumption DEF Init, TypeOK, Job, NoJob, Ids
<1>2. RowsInv /\ VisibleOrdersAreWhole
  BY DEF Init, RowsInv, VisibleOrdersAreWhole, Placed
<1>3. \A r \in Requests : RequestInv(r)
  BY DEF Init, RequestInv, Pending, Idle
<1>4. QED
  BY <1>1, <1>2, <1>3 DEF IInv

LEMMA FindClientInv ==
  ASSUME IInv, NEW r \in Requests, NEW n \in Numbers, NEW p \in Phones,
         FindClient(r, n, p)
  PROVE  IInv'
<1>1. drawn' \in Ids /\ drawn' \in 0..MaxOrders
  BY BoundsAssumption DEF FindClient, IInv, TypeOK, Ids
<1>2. db' = db /\ JobsStay /\ RestTyped
  BY <1>1 DEF FindClient, IInv, TypeOK, JobsStay, RestTyped, queue
<1> DEFINE new(pc, k) == [pc |-> pc, id |-> drawn', number |-> n, phone |-> p,
                          client |-> k, writes |-> {}]
<1>3. CASE \E k \in db : /\ k.table = "clients" /\ k.key = p
                         /\ tx' = [tx EXCEPT ![r] = new("order", k.id)]
  <2>1. PICK k \in db : /\ k.table = "clients" /\ k.key = p
                        /\ tx' = [tx EXCEPT ![r] = new("order", k.id)]
    BY <1>3
  <2>2. k.id \in Ids /\ k = ClientRow(p, k.id)
    BY <2>1 DEF IInv, TypeOK, Rows, ClientRow
  <2>3. OthersSame(r) /\ tx'[r] = new("order", k.id)
    BY <2>1, <2>2, <1>1 DEF IInv, TypeOK, OthersSame, Tx
  <2>4. RequestInv(r)'
    BY <2>2, <2>3, <1>2 DEF RequestInv, Pending, Written
  <2>5. QED
    BY <1>2, <2>3, <2>4, LocalStep
<1>4. CASE tx' = [tx EXCEPT ![r] = new("client", drawn')]
  <2>1. OthersSame(r) /\ tx'[r] = new("client", drawn')
    BY <1>4, <1>1 DEF IInv, TypeOK, OthersSame, Tx
  <2>2. RequestInv(r)'
    BY <2>1 DEF RequestInv, Pending, Written
  <2>3. QED
    BY <1>2, <2>1, <2>2, LocalStep
<1>5. QED
  BY <1>3, <1>4 DEF FindClient

\* A request that returns keeps the invariant.
LEMMA ReturnInv ==
  ASSUME IInv, NEW r \in Requests, Return(r), db' = db, JobsStay, RestTyped
  PROVE  IInv'
BY ReturnIs, IdleInv, LocalStep DEF IInv

\* A statement that writes a row without a rival.
LEMMA WriteInv ==
  ASSUME IInv, NEW r \in Requests, tx[r].pc # "idle", NEW row \in Rows,
         NEW next \in {"order", "items", "audit", "enqueue"},
         tx' = [tx EXCEPT ![r].pc = next, ![r].writes = tx[r].writes \cup {row}],
         row.table \in Indexed => ~UniqueViolation(row) /\ ~Held(r, row),
         db' = db, JobsStay, RestTyped, Written(tx[r])'
  PROVE  IInv'
<1>1. tx[r] \in Tx
  BY InFlightType DEF IInv
<1>2. tx' = [tx EXCEPT ![r] = [tx[r] EXCEPT !.pc = next,
                                 !.writes = tx[r].writes \cup {row}]]
  BY DEF IInv, TypeOK
<1>3. /\ tx'[r] = [tx[r] EXCEPT !.pc = next, !.writes = tx[r].writes \cup {row}]
      /\ \A q \in Requests \ {r} : tx'[q] = tx[q]
  BY <1>2 DEF IInv, TypeOK
<1>4. OthersSame(r)
  BY <1>1, <1>2, <1>3 DEF IInv, TypeOK, OthersSame, Tx
<1>5. tx'[r].writes = tx[r].writes \cup {row}
  BY <1>1, <1>3 DEF Tx
<1>6. Pending(r)'
  <2> SUFFICES ASSUME NEW w \in tx[r].writes \cup {row}, w.table \in Indexed
               PROVE  ~UniqueViolation(w)' /\ ~Held(r, w)'
    BY <1>5 DEF Pending
  <2>1. ~UniqueViolation(w) /\ ~Held(r, w)
    BY DEF IInv, RequestInv, Pending
  <2>2. QED
    BY <2>1, <1>3 DEF UniqueViolation, Held
<1>7. QED
  BY <1>4, <1>6, LocalStep DEF RequestInv

\* What WriteInv asks of a transaction once it has written.
LEMMA AfterWrite ==
  ASSUME TypeOK, NEW r \in Requests, tx[r].pc # "idle", NEW row \in Rows,
         NEW next \in {"order", "items", "audit", "enqueue"},
         tx' = [tx EXCEPT ![r].pc = next, ![r].writes = tx[r].writes \cup {row}]
  PROVE  /\ tx'[r].pc = next
         /\ tx'[r].id = tx[r].id /\ tx'[r].number = tx[r].number
         /\ tx'[r].phone = tx[r].phone /\ tx'[r].client = tx[r].client
         /\ tx'[r].writes = tx[r].writes \cup {row}
<1>1. tx[r] \in Tx
  BY InFlightType
<1>2. tx' = [tx EXCEPT ![r] = [tx[r] EXCEPT !.pc = next,
                                 !.writes = tx[r].writes \cup {row}]]
  BY DEF TypeOK
<1>3. tx'[r] = [tx[r] EXCEPT !.pc = next, !.writes = tx[r].writes \cup {row}]
  BY <1>2 DEF TypeOK
<1>4. tx'[r].writes = tx[r].writes \cup {row} /\ tx'[r].pc = next
  BY <1>1, <1>3, Zenon DEF Tx
<1>5. tx'[r].id = tx[r].id
  BY <1>1, <1>3, Zenon DEF Tx
<1>6. tx'[r].number = tx[r].number
  BY <1>1, <1>3, Zenon DEF Tx
<1>7. tx'[r].phone = tx[r].phone /\ tx'[r].client = tx[r].client
  BY <1>1, <1>3, Zenon DEF Tx
<1>8. QED
  BY <1>4, <1>5, <1>6, <1>7

LEMMA InsertClientInv ==
  ASSUME IInv, NEW r \in Requests, InsertClient(r)
  PROVE  IInv'
<1> DEFINE row == ClientRow(tx[r].phone, tx[r].id)
<1>1. tx[r].pc = "client" /\ tx[r].pc # "idle" /\ tx[r] \in Tx /\ row \in Rows
  BY InFlightType, RowTypes DEF InsertClient, IInv, Tx
<1>2. db' = db /\ JobsStay /\ RestTyped
  BY DEF InsertClient, Insert, IInv, TypeOK, JobsStay, RestTyped, queue
<1>3. CASE UniqueViolation(row)
  BY <1>2, <1>3, ReturnInv DEF InsertClient, Insert
<1>4. CASE ~UniqueViolation(row)
  <2>1. /\ tx' = [tx EXCEPT ![r].pc = "order", ![r].writes = tx[r].writes \cup {row}]
        /\ ~Held(r, row)
    BY <1>4 DEF InsertClient, Insert, Write, GoOn
  <2>2. Written(tx[r])'
    <3>1. Written(tx[r])
      BY <1>1 DEF IInv, RequestInv
    <3>2. /\ tx'[r].id = tx[r].id /\ tx'[r].number = tx[r].number
         /\ tx'[r].phone = tx[r].phone /\ tx'[r].client = tx[r].client
         /\ tx'[r].writes = tx[r].writes \cup {row}
         /\ tx'[r].pc = "order"
      BY <1>1, <2>1, AfterWrite DEF IInv
    <3>3. QED
      BY <1>1, <1>2, <3>2, <3>1 DEF Written, JobsStay
  <2>3. QED
    BY <1>1, <1>2, <1>4, <2>1, <2>2, WriteInv
<1>5. QED
  BY <1>3, <1>4

LEMMA InsertOrderInv ==
  ASSUME IInv, NEW r \in Requests, InsertOrder(r)
  PROVE  IInv'
<1> DEFINE row == OrderRow(tx[r].number, tx[r].id, tx[r].client)
<1>1. tx[r].pc = "order" /\ tx[r].pc # "idle" /\ tx[r] \in Tx /\ row \in Rows
  BY InFlightType, RowTypes DEF InsertOrder, IInv, Tx
<1>2. db' = db /\ JobsStay /\ RestTyped
  BY DEF InsertOrder, Insert, IInv, TypeOK, JobsStay, RestTyped, queue
<1>3. CASE UniqueViolation(row)
  BY <1>2, <1>3, ReturnInv DEF InsertOrder, Insert
<1>4. CASE ~UniqueViolation(row)
  <2>1. /\ tx' = [tx EXCEPT ![r].pc = "items", ![r].writes = tx[r].writes \cup {row}]
        /\ ~Held(r, row)
    BY <1>4 DEF InsertOrder, Insert, Write, GoOn
  <2>2. Written(tx[r])'
    <3>1. Written(tx[r])
      BY <1>1 DEF IInv, RequestInv
    <3>2. /\ tx'[r].id = tx[r].id /\ tx'[r].number = tx[r].number
         /\ tx'[r].phone = tx[r].phone /\ tx'[r].client = tx[r].client
         /\ tx'[r].writes = tx[r].writes \cup {row}
         /\ tx'[r].pc = "items"
      BY <1>1, <2>1, AfterWrite DEF IInv
    <3>3. QED
      BY <1>1, <1>2, <3>2, <3>1 DEF Written, JobsStay
  <2>3. QED
    BY <1>1, <1>2, <1>4, <2>1, <2>2, WriteInv
<1>5. QED
  BY <1>3, <1>4

LEMMA InsertItemsInv ==
  ASSUME IInv, NEW r \in Requests, InsertItems(r)
  PROVE  IInv'
<1> DEFINE row == ItemsRow(tx[r].id)
<1>1. /\ tx[r].pc = "items" /\ tx[r].pc # "idle" /\ tx[r] \in Tx /\ row \in Rows
      /\ row.table \notin Indexed
  BY InFlightType, RowTypes DEF InsertItems, IInv, Tx, ItemsRow, Indexed
<1>2. db' = db /\ JobsStay /\ RestTyped
  BY DEF InsertItems, IInv, TypeOK, JobsStay, RestTyped, queue
<1>3. tx' = [tx EXCEPT ![r].pc = "audit", ![r].writes = tx[r].writes \cup {row}]
  BY DEF InsertItems, Write, GoOn
<1>4. Written(tx[r])'
  <2>1. Written(tx[r])
    BY <1>1 DEF IInv, RequestInv
  <2>2. /\ tx'[r].id = tx[r].id /\ tx'[r].number = tx[r].number
       /\ tx'[r].phone = tx[r].phone /\ tx'[r].client = tx[r].client
       /\ tx'[r].writes = tx[r].writes \cup {row}
       /\ tx'[r].pc = "audit"
    BY <1>1, <1>3, AfterWrite DEF IInv
  <2>3. QED
    BY <1>1, <1>2, <2>2, <2>1 DEF Written, JobsStay
<1>5. QED
  BY <1>1, <1>2, <1>3, <1>4, WriteInv

LEMMA InsertAuditInv ==
  ASSUME IInv, NEW r \in Requests, InsertAudit(r)
  PROVE  IInv'
<1> DEFINE row == AuditRow(tx[r].id)
<1>1. /\ tx[r].pc = "audit" /\ tx[r].pc # "idle" /\ tx[r] \in Tx /\ row \in Rows
      /\ row.table \notin Indexed
  BY InFlightType, RowTypes DEF InsertAudit, IInv, Tx, AuditRow, Indexed
<1>2. db' = db /\ JobsStay /\ RestTyped /\ tx[r].id \in dashboard'
  BY <1>1 DEF InsertAudit, IInv, TypeOK, JobsStay, RestTyped, queue, Tx
<1>3. tx' = [tx EXCEPT ![r].pc = "enqueue", ![r].writes = tx[r].writes \cup {row}]
  BY DEF InsertAudit, Write, GoOn, After
<1>4. Written(tx[r])'
  <2>1. Written(tx[r])
    BY <1>1 DEF IInv, RequestInv
  <2>2. /\ tx'[r].id = tx[r].id /\ tx'[r].number = tx[r].number
       /\ tx'[r].phone = tx[r].phone /\ tx'[r].client = tx[r].client
       /\ tx'[r].writes = tx[r].writes \cup {row}
       /\ tx'[r].pc = "enqueue"
    BY <1>1, <1>3, AfterWrite DEF IInv
  <2>3. QED
    BY <1>1, <1>2, <2>2, <2>1 DEF Written, JobsStay
<1>5. QED
  BY <1>1, <1>2, <1>3, <1>4, WriteInv

LEMMA EnqueueInv ==
  ASSUME IInv, NEW r \in Requests, Enqueue(r)
  PROVE  IInv'
<1>1. tx[r].pc = "enqueue" /\ tx[r] \in Tx /\ tx[r].id \in Ids
  BY InFlightType DEF Enqueue, IInv, Tx
<1>2. db' = db /\ RestTyped
  BY DEF Enqueue, IInv, TypeOK, RestTyped
<1>3. JobsStay /\ jobs'[tx[r].id].state = "waiting"
  <2>1. jobs' = [jobs EXCEPT ![tx[r].id] = [jobs[tx[r].id] EXCEPT !.state = "waiting"]]
    BY <1>1 DEF Enqueue, IInv, TypeOK
  <2>2. QED
    BY <1>1, <2>1 DEF Enqueue, IInv, TypeOK, JobsStay, Job
<1>4. tx' = [tx EXCEPT ![r] = [tx[r] EXCEPT !.pc = "commit"]]
  <2>1. tx' = [tx EXCEPT ![r].pc = "commit", ![r].writes = tx[r].writes]
    BY DEF Enqueue, GoOn, After
  <2>2. QED
    BY <1>1, <2>1 DEF IInv, TypeOK, Tx
<1>5. tx'[r] = [tx[r] EXCEPT !.pc = "commit"] /\ OthersSame(r)
  BY <1>1, <1>4 DEF IInv, TypeOK, OthersSame, Tx
<1>6. RequestInv(r)'
  <2>1. RequestInv(r) /\ Written(tx[r])
    BY <1>1 DEF IInv, RequestInv
  <2>2. tx'[r].writes = tx[r].writes
    BY <1>1, <1>5 DEF Tx
  <2>3. Pending(r)'
    BY <1>2, <1>5, <2>1, <2>2 DEF RequestInv, Pending, UniqueViolation, Held, OthersSame
  <2>4. Written(tx[r])'
    BY <1>1, <1>2, <1>3, <1>5, <2>1, <2>2 DEF Written, Tx, JobsStay
  <2>5. QED
    BY <2>3, <2>4 DEF RequestInv
<1>7. QED
  BY <1>2, <1>3, <1>5, <1>6, LocalStep

\* COMMIT: what was written has no rival in the tables, and loses none there.
LEMMA CommitInv ==
  ASSUME IInv, NEW r \in Requests, Commit(r)
  PROVE  IInv'
<1> DEFINE t == tx[r]
<1>1. t.pc = "commit" /\ t \in Tx /\ RequestInv(r) /\ Written(t) /\ Pending(r)
  BY InFlightType DEF Commit, IInv, RequestInv
<1>2. db' = db \cup t.writes /\ JobsStay /\ RestTyped
  BY DEF Commit, IInv, TypeOK, JobsStay, RestTyped, queue
<1>3. OthersSame(r) /\ tx'[r] = Idle
  BY ReturnIs DEF Commit, GoOn, After, IInv
<1>4. TypeOK'
  BY <1>1, <1>2, <1>3 DEF IInv, TypeOK, OthersSame, JobsStay, RestTyped, Tx
<1>5. RowsInv'
  <2> SUFFICES ASSUME NEW row \in db \cup t.writes, NEW other \in db \cup t.writes,
                      row.table \in Indexed, Clash(row, other)
               PROVE  row = other
    BY <1>2 DEF RowsInv
  <2>1. other.table \in Indexed /\ Clash(other, row)
    BY DEF Clash
  <2>2. CASE row \in db /\ other \in db
    BY <2>2 DEF IInv, RowsInv
  <2>3. CASE row \in t.writes /\ other \in t.writes
    BY <1>1, <2>3, OneRowPerTable
  <2>4. CASE row \in t.writes /\ other \in db
    BY <1>1, <2>4 DEF Pending, UniqueViolation
  <2>5. CASE row \in db /\ other \in t.writes
    BY <1>1, <2>1, <2>5 DEF Pending, UniqueViolation
  <2>6. QED
    BY <2>2, <2>3, <2>4, <2>5
<1>6. ASSUME NEW q \in Requests, q # r
      PROVE  RequestInv(q)'
  <2>1. tx'[q] = tx[q] /\ RequestInv(q)
    BY <1>3, <1>6 DEF OthersSame, IInv
  <2>2. Pending(q)'
    <3> SUFFICES ASSUME NEW row \in tx[q].writes, row.table \in Indexed
                 PROVE  ~UniqueViolation(row)' /\ ~Held(q, row)'
      BY <2>1 DEF Pending
    <3>1. ~UniqueViolation(row) /\ ~Held(q, row)
      BY <2>1 DEF RequestInv, Pending
    <3>2. ~UniqueViolation(row)'
      BY <1>2, <1>6, <3>1 DEF UniqueViolation, Held
    <3>3. ~Held(q, row)'
      BY <1>3, <3>1 DEF Held, OthersSame, Idle
    <3>4. QED
      BY <3>2, <3>3
  <2>3. tx'[q].pc # "idle" => Written(tx[q])'
    <3> SUFFICES ASSUME tx[q].pc # "idle" PROVE Written(tx[q])'
      BY <2>1
    <3>1. tx[q].id \in Ids /\ Written(tx[q])
      BY <2>1, InFlightType DEF IInv, Tx, RequestInv
    <3>2. QED
      BY <1>2, <3>1, <2>1 DEF Written, JobsStay
  <2>4. QED
    BY <2>1, <2>2, <2>3 DEF RequestInv
<1>7. VisibleOrdersAreWhole'
  <2> SUFFICES ASSUME NEW row \in db \cup t.writes, row.table = "orders"
               PROVE  /\ ItemsRow(row.id) \in db' /\ AuditRow(row.id) \in db'
                      /\ row.id \in dashboard' /\ jobs'[row.id].state # "none"
    BY <1>2 DEF VisibleOrdersAreWhole, Placed
  <2>1. CASE row \in db
    <3>1. row.id \in Ids /\ row \in Placed
      BY <2>1 DEF IInv, TypeOK, Placed, Rows
    <3>2. QED
      BY <1>2, <3>1 DEF IInv, VisibleOrdersAreWhole, JobsStay
  <2>2. CASE row \in t.writes
    <3>1. row.id = t.id /\ t.id \in Ids
      BY <1>1, <2>2 DEF Written, Tx, ClientRow, OrderRow, ItemsRow, AuditRow
    <3>2. QED
      BY <1>1, <1>2, <3>1 DEF Written, JobsStay
  <2>3. QED
    BY <2>1, <2>2
<1>8. QED
  BY <1>3, <1>4, <1>5, <1>6, <1>7, IdleInv DEF IInv

LEMMA FailInv ==
  ASSUME IInv, NEW r \in Requests, Fail(r)
  PROVE  IInv'
<1>1. db' = db /\ JobsStay /\ RestTyped
  BY BoundsAssumption DEF Fail, IInv, TypeOK, JobsStay, RestTyped, queue
<1>2. QED
  BY <1>1, ReturnInv DEF Fail

\* The worker touches no table and no transaction, and forgets no job.
LEMMA WorkerInv ==
  ASSUME IInv, NEW i \in Ids, Work(i) \/ Trouble(i)
  PROVE  IInv'
<1>1. /\ UNCHANGED <<db, tx, drawn, dashboard>>
      /\ jobs[i].state # "none"
  BY DEF Work, Trouble, TakeJob, Push, FinishJob, AttemptFails, PushRefused, Stall
<1>2. RestTyped
  BY <1>1, BoundsAssumption DEF Work, Trouble, TakeJob, Push, FinishJob, AttemptFails,
     PushRefused, Stall, IInv, TypeOK, RestTyped
<1>3. PICK j \in Job : jobs' = [jobs EXCEPT ![i] = j] /\ j.state # "none"
  <2> DEFINE is(j) == j \in Job /\ jobs' = [jobs EXCEPT ![i] = j] /\ j.state # "none"
  <2> SUFFICES \E j : is(j)
    OBVIOUS
  <2>1. jobs \in [Ids -> Job] /\ jobs[i] \in Job
    BY DEF IInv, TypeOK
  <2>2. CASE TakeJob(i)
    <3>1. is([jobs[i] EXCEPT !.state = "active", !.todo = Couriers])
      BY <2>1, <2>2 DEF TakeJob, Job
    <3>2. QED
      BY <3>1
  <2>3. CASE AttemptFails(i)
    <3> DEFINE state == IF jobs[i].attempts + 1 < MaxAttempts THEN "waiting" ELSE "failed"
    <3>1. jobs' = [jobs EXCEPT ![i] = [jobs[i] EXCEPT !.attempts = @ + 1, !.state = state]]
      BY <2>1, <2>3 DEF AttemptFails
    <3>2. state \in {"waiting", "failed"}
      OBVIOUS
    <3> HIDE DEF state
    <3> DEFINE tried == jobs[i].attempts + 1
               j == [jobs[i] EXCEPT !.attempts = tried, !.state = state]
    <3>3. tried \in Nat
      BY <2>1 DEF Job
    <3> HIDE DEF tried
    <3>4. j \in Job /\ j.state = state
      BY <2>1, <3>2, <3>3, Zenon DEF Job
    <3>5. jobs' = [jobs EXCEPT ![i] = j]
      BY <3>1 DEF tried
    <3>6. QED
      BY <3>2, <3>4, <3>5
  <2>4. ASSUME NEW c \in Couriers, Push(i, c) \/ PushRefused(i, c)
        PROVE  \E j : is(j)
    <3>1. is([jobs[i] EXCEPT !.todo = @ \ {c}])
      BY <1>1, <2>1, <2>4 DEF Push, PushRefused, LeftAfter, Job
    <3>2. QED
      BY <3>1
  <2>5. CASE FinishJob(i)
    <3>1. is([jobs[i] EXCEPT !.state = "completed"])
      BY <2>1, <2>5 DEF FinishJob, Job
    <3>2. QED
      BY <3>1
  <2>6. CASE Stall(i)
    <3> DEFINE state == IF jobs[i].stalls < MaxStalls THEN "waiting" ELSE "failed"
    <3>1. is([jobs[i] EXCEPT !.stalls = @ + 1, !.todo = {}, !.state = state])
      BY <2>1, <2>6 DEF Stall, Job
    <3>2. QED
      BY <3>1
  <2>7. QED
    BY <2>2, <2>3, <2>4, <2>5, <2>6 DEF Work, Trouble
<1>4. JobsStay
  BY <1>1, <1>3 DEF IInv, TypeOK, JobsStay
<1>5. ASSUME NEW r \in Requests
      PROVE  RequestInv(r)'
  <2>1. RequestInv(r) /\ (tx[r].pc # "idle" => tx[r].id \in Ids)
    BY InFlightType DEF IInv, Tx
  <2>2. Pending(r)'
    BY <1>1, <2>1 DEF RequestInv, Pending, UniqueViolation, Held
  <2>3. tx[r].pc # "idle" => Written(tx[r])'
    BY <1>1, <1>4, <2>1 DEF RequestInv, Written, JobsStay
  <2>4. QED
    BY <1>1, <2>2, <2>3 DEF RequestInv
<1>6. TypeOK'
  BY <1>1, <1>2, <1>4 DEF IInv, TypeOK, RestTyped, JobsStay
<1>7. RowsInv' /\ VisibleOrdersAreWhole'
  <2>1. \A row \in Placed : row.id \in Ids
    BY DEF IInv, TypeOK, Placed, Rows
  <2>2. QED
    BY <1>1, <1>4, <2>1 DEF IInv, RowsInv, VisibleOrdersAreWhole, Placed, JobsStay
<1>8. QED
  BY <1>5, <1>6, <1>7 DEF IInv

-----------------------------------------------------------------------------
(***************************************************************************)
(* Every reachable state satisfies the inductive invariant: the indexes    *)
(* hold, a transaction's rows have no rivals, visible orders are whole.    *)
(***************************************************************************)
THEOREM Invariance == Spec => []IInv
<1>1. IInv /\ [Next]_vars => IInv'
  <2> SUFFICES ASSUME IInv, [Next]_vars PROVE IInv'
    OBVIOUS
  <2>1. ASSUME NEW r \in Requests, NEW n \in Numbers, NEW p \in Phones,
               FindClient(r, n, p)
        PROVE  IInv'
    BY <2>1, FindClientInv
  <2>2. ASSUME NEW r \in Requests, Continue(r)
        PROVE  IInv'
    BY <2>2, InsertClientInv, InsertOrderInv, InsertItemsInv, InsertAuditInv,
       EnqueueInv, CommitInv DEF Continue
  <2>3. ASSUME NEW r \in Requests, Fail(r)
        PROVE  IInv'
    BY <2>3, FailInv
  <2>4. ASSUME NEW i \in Ids, Work(i) \/ Trouble(i)
        PROVE  IInv'
    BY <2>4, WorkerInv
  <2>5. CASE UNCHANGED vars
    BY <2>5 DEF vars, queue, IInv, TypeOK, RowsInv, RequestInv, Pending, Written,
       UniqueViolation, Held, VisibleOrdersAreWhole, Placed
  <2>6. QED
    BY <2>1, <2>2, <2>3, <2>4, <2>5 DEF Next
<1>2. QED
  BY InitInv, <1>1, PTL DEF Spec

\* Tables, transactions and jobs always hold values of their types.
THEOREM TypeCorrect == Spec => []TypeOK
BY Invariance, PTL DEF IInv

\* An order that can be seen has its items, its audit row, its event and its
\* job, whatever was lost while it was created.
THEOREM VisibleOrdersAreWholeHolds == Spec => []VisibleOrdersAreWhole
BY Invariance, PTL DEF IInv

-----------------------------------------------------------------------------
(***************************************************************************)
(* The refinement.                                                         *)
(***************************************************************************)
\* A step that commits nothing leaves the book alone.
LEMMA NothingPlaced ==
  ASSUME db' = db
  PROVE  UNCHANGED Book!vars
BY DEF Book!vars, Placed, Registered

\* A COMMIT places one order, of the client that was found or made.
LEMMA CommitPlaces ==
  ASSUME IInv, NEW r \in Requests, Commit(r),
         NEW n, NEW p, NEW i, n = tx[r].number, p = tx[r].phone, i = tx[r].client
  PROVE  Book!Place(n, p, i)
<1> DEFINE t == tx[r]
           client == ClientRow(t.phone, t.client)
           order == OrderRow(t.number, t.id, t.client)
<1>1. t.pc = "commit" /\ t \in Tx /\ Written(t) /\ Pending(r)
  BY InFlightType DEF Commit, IInv, RequestInv
<1>2. db' = db \cup t.writes
  BY DEF Commit
<1>3. /\ order \in t.writes /\ client \in db \cup t.writes
      /\ t.writes \subseteq {client, order, ItemsRow(t.id), AuditRow(t.id)}
  BY <1>1 DEF Written
<1>4. Placed' = Placed \cup {order}
  BY <1>2, <1>3 DEF Placed, ClientRow, OrderRow, ItemsRow, AuditRow
<1>5. Registered' = IF client \in t.writes THEN Registered \cup {client} ELSE Registered
  BY <1>2, <1>3 DEF Registered, ClientRow, OrderRow, ItemsRow, AuditRow
<1>6. \A row \in Placed : row.key # t.number
  BY <1>1, <1>3 DEF Pending, UniqueViolation, Clash, Placed, OrderRow, Indexed
<1>7. {[number |-> row.key, client |-> row.client] : row \in Placed'}
        = {[number |-> row.key, client |-> row.client] : row \in Placed}
            \cup {[number |-> t.number, client |-> t.client]}
  <2>1. order.key = t.number /\ order.client = t.client
    BY DEF OrderRow
  <2> HIDE DEF order
  <2>2. QED
    BY <1>4, <2>1
<1>8. CASE client \in t.writes
  <2>1. \A row \in Registered : row.key # t.phone
    BY <1>1, <1>8 DEF Pending, UniqueViolation, Clash, Registered, ClientRow, Indexed
  <2>2. {[phone |-> row.key, id |-> row.id] : row \in Registered'}
          = {[phone |-> row.key, id |-> row.id] : row \in Registered}
              \cup {[phone |-> t.phone, id |-> t.client]}
    BY <1>5, <1>8 DEF ClientRow
  <2>3. Book!Known(p) = {}
    BY <2>1 DEF Book!Known
  <2>4. Book!Register(p, i)
    BY <2>2, <2>3 DEF Book!Register
  <2>5. QED
    BY <1>6, <1>7, <2>4 DEF Book!Place
<1>9. CASE client \notin t.writes
  <2>1. client \in Registered /\ Registered' = Registered
    BY <1>3, <1>5, <1>9 DEF Registered, ClientRow
  <2>2. [phone |-> t.phone, id |-> t.client]
          \in {[phone |-> row.key, id |-> row.id] : row \in Registered}
    BY <2>1 DEF ClientRow
  <2>3. QED
    BY <1>6, <1>7, <2>1, <2>2 DEF Book!Place, Book!Register
<1>10. QED
  BY <1>8, <1>9

(***************************************************************************)
(* Every behaviour of create implements the order book: a number is taken  *)
(* once, and an order names the one client of its phone.                   *)
(***************************************************************************)
THEOREM ImplementsBook == Spec => BookSpec
<1>1. Init => Book!Init
  BY DEF Init, Book!Init, Placed, Registered
<1>2. IInv /\ [Next]_vars => [Book!Next]_Book!vars
  <2> SUFFICES ASSUME IInv, [Next]_vars PROVE [Book!Next]_Book!vars
    OBVIOUS
  <2>1. ASSUME NEW r \in Requests, Commit(r)
        PROVE  Book!Next
    <3>1. tx[r] \in Tx
      BY <2>1, InFlightType DEF Commit, IInv
    <3>2. PICK n \in Numbers, p \in Phones, i \in Ids :
            n = tx[r].number /\ p = tx[r].phone /\ i = tx[r].client
      BY <3>1 DEF Tx
    <3>3. Book!Place(n, p, i)
      BY <2>1, <3>2, CommitPlaces
    <3>4. QED
      BY <3>3 DEF Book!Next
  <2>2. CASE db' = db
    BY <2>2, NothingPlaced
  <2>3. (\E r \in Requests : Commit(r)) \/ db' = db
    BY DEF Next, vars, FindClient, Continue, InsertClient, InsertOrder, Insert,
       InsertItems, InsertAudit, Enqueue, Fail, Work, Trouble, TakeJob, Push, FinishJob,
       AttemptFails, PushRefused, Stall
  <2>4. QED
    BY <2>1, <2>2, <2>3
<1>3. QED
  BY <1>1, <1>2, Invariance, PTL DEF Spec, BookSpec, Book!Spec

=============================================================================
