----------------------- MODULE ShiftManagementProofs ------------------------
(***************************************************************************)
(* Proofs about ShiftManagement for any number of couriers, overlapping    *)
(* requests and shifts, and for any edits.                                 *)
(*                                                                         *)
(* A transaction that has written a row of courier_shifts is the only one  *)
(* that has, among those of its courier (DistinctInv).  What it has read   *)
(* when it wrote (PendingInv) therefore still holds when it commits, and   *)
(* its COMMIT is one step of the shift board.                              *)
(*                                                                         *)
(* The last part is about ShiftOverlaps: a shift transaction that did not  *)
(* overlap one of the opposite kind is later than all that has ended       *)
(* (OverlapTx).                                                            *)
(***************************************************************************)
EXTENDS ShiftOverlaps, FiniteSetTheorems, TLAPS

Steps == {"insert", "close", "find", "courier", "emit", "commit", "select",
          "update"}

\* The tables and the clock stay as they are.
TablesSame == shifts' = shifts /\ status' = status /\ clock' = clock

OthersSame(t) ==
  /\ tx' \in [Requests -> Tx \cup {Idle}]
  /\ \A u \in Requests \ {t} : tx'[u] = tx[u]

-----------------------------------------------------------------------------
\* A request that is being handled is a whole Tx.
LEMMA InFlightType ==
  ASSUME TypeOK, NEW t \in Requests, tx[t].pc # "idle"
  PROVE  tx[t] \in Tx
BY DEF TypeOK, Idle

LEMMA IdleTx ==
  ASSUME TypeOK, NEW t \in Requests, tx[t].pc = "idle"
  PROVE  tx[t] = Idle
BY DEF TypeOK, Tx

LEMMA ReturnIs ==
  ASSUME TypeOK, NEW t \in Requests, Return(t)
  PROVE  OthersSame(t) /\ tx'[t] = Idle
BY DEF TypeOK, Return, OthersSame

\* An idle slot keeps its part of the invariant.
LEMMA IdleInv ==
  ASSUME NEW t \in Requests, tx'[t] = Idle, clock' \in Nat
  PROVE  TxInv(t)'
BY NullAssumption DEF TxInv, Idle, Kinds

\* A transaction that did nothing keeps its part while the tables stay.
LEMMA TxKeeps ==
  ASSUME NEW t \in Requests, TxInv(t), tx'[t] = tx[t], TablesSame
  PROVE  TxInv(t)'
BY DEF TxInv, PendingInv, OpenRows, TablesSame

\* A step of one transaction that leaves the tables alone: only its own part
\* of the invariant, and its place among the others, are to be shown.
LEMMA LocalStep ==
  ASSUME IInv, NEW t \in Requests, OthersSame(t), TablesSame,
         opened' \subseteq [courier : Couriers, started : Times],
         closed' \subseteq Row, failures' \in 0..MaxFailures,
         TxInv(t)',
         \A u \in Requests \ {t} :
           /\ tx'[t].kind = "open" /\ tx[u].kind = "open" => tx'[t].at # tx[u].at
           /\ tx'[t].row # NULL /\ tx[u].row # NULL =>
                tx'[t].courier # tx[u].courier
  PROVE  IInv'
<1>1. TypeOK'
  BY DEF IInv, TypeOK, OthersSame, TablesSame
<1>2. RowsInv'
  BY DEF IInv, RowsInv, TablesSame
<1>3. \A u \in Requests : TxInv(u)'
  BY TxKeeps DEF IInv, OthersSame
<1>4. DistinctInv'
  BY DEF IInv, DistinctInv, OthersSame
<1>. QED
  BY <1>1, <1>2, <1>3, <1>4 DEF IInv

-----------------------------------------------------------------------------
LEMMA InitInv == Init => IInv
<1>. SUFFICES ASSUME Init PROVE IInv
  OBVIOUS
<1>1. TypeOK
  BY BoundsAssumption DEF Init, TypeOK, Times, Availability
<1>2. RowsInv
  BY FS_EmptySet DEF Init, RowsInv
<1>3. \A t \in Requests : TxInv(t)
  BY NullAssumption DEF Init, TxInv, Idle, TypeOK, Times, Kinds
<1>4. DistinctInv
  BY NullAssumption DEF Init, DistinctInv, Idle, Kinds
<1>. QED
  BY <1>1, <1>2, <1>3, <1>4 DEF IInv

LEMMA InsertKeeps ==
  ASSUME IInv, NEW t \in Requests, InsertShift(t)
  PROVE  IInv'
<1>1. tx[t] \in Tx /\ tx[t].kind = "open"
  BY InFlightType DEF IInv, TxInv, InsertShift, Kinds
<1>2. TablesSame /\ UNCHANGED <<opened, closed, failures>>
  BY DEF InsertShift, TablesSame
<1>3. CASE UniqueViolation(tx[t].courier)
  <2>1. OthersSame(t) /\ tx'[t] = Idle
    BY <1>3, ReturnIs DEF IInv, InsertShift
  <2>2. TxInv(t)'
    BY <2>1, <1>2, IdleInv DEF IInv, TypeOK, TablesSame, Times
  <2>. QED
    BY <1>2, <2>1, <2>2, LocalStep, NullAssumption DEF IInv, TypeOK, Idle, Kinds
<1>4. CASE ~UniqueViolation(tx[t].courier)
  <2>. DEFINE row == [courier |-> tx[t].courier, started |-> tx[t].at,
                      ended |-> NULL]
  <2>1. /\ OthersSame(t)
        /\ tx'[t] \in Tx
        /\ tx'[t].pc = "courier"
        /\ tx'[t].kind = "open"
        /\ tx'[t].courier = tx[t].courier
        /\ tx'[t].at = tx[t].at
        /\ tx'[t].row = row
    <3>1. After(t) = "courier"
      BY <1>1 DEF After, Order, OpenOrder, InsertShift
    <3>2. tx' = [tx EXCEPT ![t] = [tx[t] EXCEPT !.pc = "courier", !.row = row]]
      BY <1>4, <3>1 DEF InsertShift, IInv, TypeOK
    <3>3. tx'[t] = [tx[t] EXCEPT !.pc = "courier", !.row = row]
      BY <3>2 DEF IInv, TypeOK
    <3>4. row \in Row
      BY <1>1 DEF Row, Tx
    <3>5. tx'[t] \in Tx
      BY <1>1, <3>3, <3>4 DEF Tx
    <3>. QED
      BY <1>1, <3>2, <3>3, <3>5 DEF OthersSame, IInv, TypeOK, Tx
  <2>2. row # NULL
    BY <1>1, NullAssumption DEF Tx, Times
  <2>3. TxInv(t)'
    BY <1>1, <1>2, <1>4, <2>1, <2>2
       DEF IInv, TxInv, PendingInv, OpenRows, UniqueViolation, TablesSame
  <2>4. \A u \in Requests \ {t} : tx[u].row # NULL => tx[t].courier # tx[u].courier
    BY DEF InsertShift, ShiftLocked
  <2>5. \A u \in Requests \ {t} : tx[u].kind = "open" => tx[t].at # tx[u].at
    BY <1>1 DEF IInv, DistinctInv
  <2>. QED
    BY <1>2, <2>1, <2>3, <2>4, <2>5, LocalStep DEF IInv, TypeOK
<1>. QED
  BY <1>3, <1>4

\* A request that ends without having written leaves only its slot.
LEMMA EndKeeps ==
  ASSUME IInv, NEW t \in Requests, Return(t), TablesSame,
         opened' = opened, closed' = closed, failures' \in 0..MaxFailures
  PROVE  IInv'
<1>1. OthersSame(t) /\ tx'[t] = Idle
  BY ReturnIs DEF IInv
<1>2. TxInv(t)'
  BY <1>1, IdleInv DEF IInv, TypeOK, TablesSame, Times
<1>. QED
  BY <1>1, <1>2, LocalStep, NullAssumption DEF IInv, TypeOK, Idle, Kinds

\* A step inside a transaction that writes no new row: the facts that decide
\* its part of the invariant.
LEMMA InsideStep ==
  ASSUME IInv, NEW t \in Requests, OthersSame(t), TablesSame,
         opened' \subseteq [courier : Couriers, started : Times],
         closed' \subseteq Row, failures' = failures,
         tx[t].kind \in {"open", "close"},
         tx[t].row # NULL,
         tx'[t].kind = tx[t].kind, tx'[t].courier = tx[t].courier,
         tx'[t].at = tx[t].at, tx'[t].row = tx[t].row,
         tx'[t].pc \in {"courier", "emit", "commit"},
         tx'[t].pc \in {"emit", "commit"} => tx'[t].status = NewStatus(tx[t].kind),
         tx'[t].pc = "emit" /\ tx[t].kind = "close" => tx'[t].found # NULL,
         tx'[t].pc = "courier" /\ tx[t].kind = "close" => tx'[t].found # NULL
  PROVE  IInv'
<1>1. PendingInv(t)'
  BY DEF IInv, TxInv, PendingInv, OpenRows, TablesSame
<1>2. TxInv(t)'
  BY <1>1 DEF IInv, TxInv, TablesSame
<1>. QED
  BY <1>2, LocalStep DEF IInv, DistinctInv, TypeOK

LEMMA CloseRowKeeps ==
  ASSUME IInv, NEW t \in Requests, CloseOpenRow(t)
  PROVE  IInv'
<1>1. tx[t] \in Tx /\ tx[t].kind = "close"
  BY InFlightType DEF IInv, TxInv, CloseOpenRow
<1>2. TablesSame /\ UNCHANGED <<opened, closed, failures>>
  BY DEF CloseOpenRow, TablesSame
<1>3. CASE OpenRows(tx[t].courier) = {} /\ Return(t)
  BY <1>2, <1>3, EndKeeps DEF IInv, TypeOK
<1>4. ASSUME NEW s \in OpenRows(tx[t].courier),
             tx' = [tx EXCEPT ![t].pc = After(t),
                              ![t].row = [courier |-> s.courier,
                                          started |-> s.started,
                                          ended |-> tx[t].at]]
      PROVE  IInv'
  <2>. DEFINE row == [courier |-> s.courier, started |-> s.started,
                      ended |-> tx[t].at]
  <2>1. s \in Row /\ s.courier = tx[t].courier
    BY DEF IInv, TypeOK, OpenRows
  <2>2. row \in Row /\ row # NULL
    BY <1>1, <2>1, NullAssumption DEF Row, Tx, Times
  <2>3. /\ OthersSame(t)
        /\ tx'[t].pc = "find"
        /\ tx'[t].kind = "close"
        /\ tx'[t].courier = tx[t].courier
        /\ tx'[t].at = tx[t].at
        /\ tx'[t].row = row
    <3>1. After(t) = "find"
      BY <1>1 DEF After, Order, CloseOrder, CloseOpenRow
    <3>2. tx' = [tx EXCEPT ![t] = [tx[t] EXCEPT !.pc = "find", !.row = row]]
      BY <1>4, <3>1 DEF IInv, TypeOK
    <3>3. tx'[t] = [tx[t] EXCEPT !.pc = "find", !.row = row]
      BY <3>2 DEF IInv, TypeOK
    <3>4. tx'[t] \in Tx
      BY <1>1, <2>2, <3>3 DEF Tx
    <3>. QED
      BY <1>1, <3>2, <3>3, <3>4 DEF OthersSame, IInv, TypeOK, Tx
  <2>4. TxInv(t)'
    <3>1. PendingInv(t)'
      BY <1>2, <2>1, <2>3 DEF PendingInv, OpenRows, TablesSame
    <3>. QED
      BY <1>1, <1>2, <2>2, <2>3, <3>1 DEF IInv, TxInv, TablesSame
  <2>5. \A u \in Requests \ {t} : tx[u].row # NULL => tx[t].courier # tx[u].courier
    BY DEF CloseOpenRow, ShiftLocked
  <2>. QED
    BY <1>2, <2>3, <2>4, <2>5, LocalStep DEF IInv, TypeOK
<1>. QED
  BY <1>3, <1>4 DEF CloseOpenRow

LEMMA FindKeeps ==
  ASSUME IInv, NEW t \in Requests, FindClosed(t)
  PROVE  IInv'
<1>1. tx[t] \in Tx /\ tx[t].kind = "close" /\ tx[t].row # NULL
  BY InFlightType DEF IInv, TxInv, FindClosed
<1>2. PICK s \in ClosedRows(t) :
        tx' = [tx EXCEPT ![t].pc = After(t), ![t].found = s]
  BY DEF FindClosed
<1>3. s \in Row /\ s # NULL
  <2>1. s \in Row
    BY <1>1 DEF ClosedRows, IInv, TypeOK, Tx
  <2>. QED
    BY <2>1, NullAssumption DEF Row, Times
<1>4. /\ OthersSame(t)
      /\ tx'[t].pc = "courier"
      /\ tx'[t].kind = tx[t].kind
      /\ tx'[t].courier = tx[t].courier
      /\ tx'[t].at = tx[t].at
      /\ tx'[t].row = tx[t].row
      /\ tx'[t].found = s
  <2>1. After(t) = "courier"
    BY <1>1 DEF After, Order, CloseOrder, FindClosed
  <2>2. tx' = [tx EXCEPT ![t] = [tx[t] EXCEPT !.pc = "courier", !.found = s]]
    BY <1>2, <2>1 DEF IInv, TypeOK
  <2>3. tx'[t] = [tx[t] EXCEPT !.pc = "courier", !.found = s]
    BY <2>2 DEF IInv, TypeOK
  <2>4. tx'[t] \in Tx
    BY <1>1, <1>3, <2>3 DEF Tx
  <2>. QED
    BY <1>1, <2>2, <2>3, <2>4 DEF OthersSame, IInv, TypeOK, Tx
<1>. QED
  BY <1>1, <1>3, <1>4, InsideStep DEF FindClosed, TablesSame, IInv, TypeOK

LEMMA UpdateCourierKeeps ==
  ASSUME IInv, NEW t \in Requests, UpdateCourier(t)
  PROVE  IInv'
<1>1. /\ tx[t] \in Tx
      /\ tx[t].kind \in {"open", "close"}
      /\ tx[t].row # NULL
      /\ tx[t].kind = "close" => tx[t].found # NULL
  BY InFlightType DEF IInv, TxInv, UpdateCourier
<1>2. /\ OthersSame(t)
      /\ tx'[t].pc = "emit"
      /\ tx'[t].kind = tx[t].kind
      /\ tx'[t].courier = tx[t].courier
      /\ tx'[t].at = tx[t].at
      /\ tx'[t].row = tx[t].row
      /\ tx'[t].status = NewStatus(tx[t].kind)
      /\ tx'[t].found = tx[t].found
  <2>1. After(t) = "emit"
    BY <1>1 DEF After, Order, OpenOrder, CloseOrder, UpdateCourier
  <2>. DEFINE n == [tx[t] EXCEPT !.pc = "emit", !.status = NewStatus(tx[t].kind)]
  <2>2. tx' = [tx EXCEPT ![t] = n]
    BY <2>1 DEF IInv, TypeOK, UpdateCourier
  <2>3. tx'[t] = n
    BY <2>2 DEF IInv, TypeOK
  <2>4. NewStatus(tx[t].kind) \in Availability
    BY DEF NewStatus, Availability
  <2>5. tx'[t] \in Tx
    BY <1>1, <2>3, <2>4 DEF Tx
  <2>. QED
    BY <1>1, <2>2, <2>3, <2>5 DEF OthersSame, IInv, TypeOK, Tx
<1>. QED
  BY <1>1, <1>2, InsideStep DEF UpdateCourier, TablesSame, IInv, TypeOK

LEMMA EmitKeeps ==
  ASSUME IInv, NEW t \in Requests, Emit(t)
  PROVE  IInv'
<1>1. /\ tx[t] \in Tx
      /\ tx[t].kind \in {"open", "close"}
      /\ tx[t].row # NULL
      /\ tx[t].status = NewStatus(tx[t].kind)
      /\ tx[t].kind = "close" => tx[t].found \in Row
  BY InFlightType DEF IInv, TxInv, Emit, Tx
<1>2. /\ OthersSame(t)
      /\ tx'[t].pc = "commit"
      /\ tx'[t].kind = tx[t].kind
      /\ tx'[t].courier = tx[t].courier
      /\ tx'[t].at = tx[t].at
      /\ tx'[t].row = tx[t].row
      /\ tx'[t].status = tx[t].status
  <2>1. After(t) = "commit"
    BY <1>1 DEF After, Order, OpenOrder, CloseOrder, Emit
  <2>2. tx' = [tx EXCEPT ![t] = [tx[t] EXCEPT !.pc = "commit"]]
    BY <2>1 DEF IInv, TypeOK, Emit
  <2>3. tx'[t] = [tx[t] EXCEPT !.pc = "commit"]
    BY <2>2 DEF IInv, TypeOK
  <2>4. tx'[t] \in Tx
    BY <1>1, <2>3 DEF Tx
  <2>. QED
    BY <1>1, <2>2, <2>3, <2>4 DEF OthersSame, IInv, TypeOK, Tx
<1>3. opened' \subseteq [courier : Couriers, started : Times]
  BY <1>1 DEF Emit, IInv, TypeOK, Tx
<1>4. closed' \subseteq Row
  BY <1>1 DEF Emit, IInv, TypeOK
<1>. QED
  BY <1>1, <1>2, <1>3, <1>4, InsideStep DEF Emit, TablesSame

LEMMA BeginKeeps ==
  ASSUME IInv, NEW t \in Requests, NEW c \in Couriers,
         NEW kind \in {"open", "close"}, BeginShift(t, c, kind)
  PROVE  IInv'
<1>1. clock \in Nat /\ clock' = clock + 1 /\ clock' \in Times
  BY BoundsAssumption DEF BeginShift, IInv, TypeOK, Times
<1>2. shifts' = shifts /\ status' = status
  BY DEF BeginShift
<1>. DEFINE n == [pc |-> Order(kind).begin, kind |-> kind, courier |-> c,
                  at |-> clock + 1, row |-> NULL, status |-> NULL,
                  found |-> NULL]
<1>3. tx'[t] = n
  BY DEF BeginShift, Idle, IInv, TypeOK
<1>4. n.pc = IF kind = "open" THEN "insert" ELSE "close"
  BY DEF Order, OpenOrder, CloseOrder
<1>5. n \in Tx
  BY <1>1, <1>4 DEF Tx, Kinds
<1>6. OthersSame(t) /\ tx'[t] = n
  BY <1>3, <1>5 DEF BeginShift, OthersSame, IInv, TypeOK
<1>7. TypeOK'
  BY <1>1, <1>6 DEF BeginShift, OthersSame, IInv, TypeOK
<1>8. RowsInv'
  BY <1>1, <1>2 DEF IInv, RowsInv, TypeOK, Row, Times
<1>9. TxInv(t)'
  <2>1. \A s \in shifts : s.started # clock + 1
    BY <1>1 DEF IInv, RowsInv, TypeOK, Row, Times
  <2>. QED
    BY <1>1, <1>2, <1>4, <1>6, <2>1 DEF TxInv
<1>10. \A u \in Requests \ {t} : TxInv(u)'
  <2>. TAKE u \in Requests \ {t}
  <2>1. tx'[u] = tx[u] /\ TxInv(u)
    BY <1>6 DEF OthersSame, IInv
  <2>2. tx[u].at \in Nat
    BY DEF IInv, TypeOK, Tx, Times, Idle
  <2>. QED
    BY <1>1, <1>2, <2>1, <2>2 DEF TxInv, PendingInv, OpenRows
<1>11. DistinctInv'
  <2>1. \A u \in Requests : tx[u].at \in Nat /\ tx[u].at # clock + 1
    BY <1>1 DEF IInv, TxInv, TypeOK, Tx, Times, Idle
  <2>. QED
    BY <1>6, <2>1 DEF DistinctInv, OthersSame, IInv
<1>. QED
  BY <1>7, <1>8, <1>9, <1>10, <1>11 DEF IInv

LEMMA EditLoadKeeps ==
  ASSUME IInv, NEW t \in Requests, NEW c \in Couriers, NEW edit \in Edits,
         EditLoad(t, c, edit)
  PROVE  IInv'
<1>. DEFINE st == IF edit = NULL THEN status[c] ELSE edit
            n == [pc |-> "select", kind |-> "edit", courier |-> c, at |-> 0,
                  row |-> NULL, status |-> st, found |-> NULL]
<1>1. st \in Availability /\ st # NULL
  BY EditsAssumption, NullAssumption DEF IInv, TypeOK
<1>2. tx'[t] = n
  BY DEF EditLoad, Idle, IInv, TypeOK
<1>3. n \in Tx
  BY <1>1, BoundsAssumption DEF Tx, Kinds, Times
<1>4. OthersSame(t) /\ tx'[t] = n
  BY <1>2, <1>3 DEF EditLoad, OthersSame, IInv, TypeOK
<1>5. TablesSame
  BY DEF EditLoad, TablesSame
<1>6. TxInv(t)'
  BY <1>1, <1>4, <1>5 DEF TxInv, TablesSame, IInv, TypeOK, Times
<1>. QED
  BY <1>4, <1>5, <1>6, LocalStep DEF EditLoad, IInv, TypeOK

LEMMA EditSelectKeeps ==
  ASSUME IInv, NEW t \in Requests, EditSelect(t)
  PROVE  IInv'
<1>1. TablesSame /\ UNCHANGED <<opened, closed, failures>>
  BY DEF EditSelect, TablesSame
<1>2. CASE Return(t)
  BY <1>1, <1>2, EndKeeps DEF IInv, TypeOK
<1>3. CASE tx' = [tx EXCEPT ![t].pc = "update"]
  <2>1. tx[t] \in Tx /\ TxInv(t) /\ tx[t].pc = "select"
    BY InFlightType DEF IInv, EditSelect
  <2>2. tx'[t] = [tx[t] EXCEPT !.pc = "update"]
    BY <1>3 DEF IInv, TypeOK
  <2>3. tx'[t] \in Tx
    BY <2>1, <2>2 DEF Tx
  <2>4. OthersSame(t)
    BY <1>3, <2>3 DEF OthersSame, IInv, TypeOK
  <2>5. TxInv(t)'
    BY <1>1, <2>1, <2>2 DEF TxInv, TablesSame, Tx
  <2>. QED
    BY <1>1, <2>1, <2>2, <2>4, <2>5, LocalStep
       DEF IInv, DistinctInv, TxInv, TypeOK, Tx
<1>. QED
  BY <1>2, <1>3 DEF EditSelect

LEMMA EditUpdateKeeps ==
  ASSUME IInv, NEW t \in Requests, EditUpdate(t)
  PROVE  IInv'
<1>1. tx[t] \in Tx /\ tx[t].status \in Availability
  BY InFlightType DEF IInv, TxInv, EditUpdate, Tx
<1>2. OthersSame(t) /\ tx'[t] = Idle
  BY ReturnIs DEF EditUpdate, IInv
<1>3. shifts' = shifts /\ clock' = clock
  BY DEF EditUpdate
<1>4. TypeOK'
  BY <1>1, <1>2 DEF EditUpdate, OthersSame, IInv, TypeOK
<1>5. RowsInv'
  BY <1>3 DEF IInv, RowsInv
<1>6. \A u \in Requests : TxInv(u)'
  <2>1. TxInv(t)'
    BY <1>2, <1>3, IdleInv DEF IInv, TypeOK, Times
  <2>2. \A u \in Requests \ {t} : TxInv(u)'
    BY <1>2, <1>3 DEF IInv, OthersSame, TxInv, PendingInv, OpenRows
  <2>. QED
    BY <2>1, <2>2
<1>7. DistinctInv'
  BY <1>2, NullAssumption DEF IInv, DistinctInv, OthersSame, Idle, Kinds
<1>. QED
  BY <1>1, <1>4, <1>5, <1>6, <1>7 DEF IInv

-----------------------------------------------------------------------------
(***************************************************************************)
(* COMMIT: what the tables become.                                         *)
(***************************************************************************)
\* What a transaction at its COMMIT has written.
LEMMA AtCommit ==
  ASSUME IInv, NEW t \in Requests, tx[t].pc = "commit"
  PROVE  /\ tx[t] \in Tx
         /\ tx[t].kind \in {"open", "close"}
         /\ tx[t].row \in Row
         /\ tx[t].row.courier = tx[t].courier
         /\ tx[t].status = NewStatus(tx[t].kind)
         /\ PendingInv(t)
<1>1. tx[t] \in Tx
  BY InFlightType DEF IInv
<1>. QED
  BY <1>1 DEF IInv, TxInv, PendingInv, Tx

\* An opening adds its row, the only open one of the courier.
LEMMA CommitOpen ==
  ASSUME IInv, NEW t \in Requests, Commit(t), tx[t].kind = "open",
         NEW c \in Couriers, c = tx[t].courier
  PROVE  /\ tx[t].row \notin shifts
         /\ shifts' = shifts \cup {tx[t].row}
         /\ OpenRows(c) = {}
         /\ OpenRows(c)' = {tx[t].row}
<1>1. /\ tx[t].row.started = tx[t].at
      /\ tx[t].row.ended = NULL
      /\ tx[t].row.courier = c
      /\ OpenRows(c) = {}
  BY AtCommit DEF Commit, PendingInv
<1>2. \A s \in shifts : s.started # tx[t].at
  BY DEF IInv, TxInv
<1>3. shifts' = shifts \cup {tx[t].row}
  BY <1>1, <1>2 DEF Commit, Written
<1>. QED
  BY <1>1, <1>2, <1>3 DEF OpenRows

\* A closing replaces the open row of the courier, whom it leaves without one.
LEMMA CommitClose ==
  ASSUME IInv, NEW t \in Requests, Commit(t), tx[t].kind = "close",
         NEW c \in Couriers, c = tx[t].courier
  PROVE  \E s \in OpenRows(c) :
           /\ s \in shifts
           /\ s.courier = c
           /\ s.started = tx[t].row.started
           /\ tx[t].row \notin shifts
           /\ shifts' = (shifts \ {s}) \cup {tx[t].row}
           /\ OpenRows(c)' = {}
<1>1. /\ tx[t].row \in Row
      /\ tx[t].row.courier = c
      /\ tx[t].row.ended = tx[t].at
      /\ tx[t].at \in Nat
  BY AtCommit DEF Commit, PendingInv, Tx, Times
<1>2. PICK s \in OpenRows(c) : s.started = tx[t].row.started
  BY AtCommit DEF Commit, PendingInv
<1>3. s \in shifts /\ s.courier = c /\ s.ended = NULL
  BY DEF OpenRows
<1>4. tx[t].row # s /\ tx[t].row.ended # NULL
  BY <1>1, <1>3, NullAssumption
<1>5. \A r \in shifts : r.courier = c /\ r.started = tx[t].row.started => r = s
  BY <1>2, <1>3 DEF IInv, RowsInv
<1>6. tx[t].row \notin shifts
  BY <1>1, <1>4, <1>5
<1>7. shifts' = (shifts \ {s}) \cup {tx[t].row}
  BY <1>1, <1>2, <1>3, <1>5 DEF Commit, Written
<1>8. \A r \in shifts : r.courier = c /\ r.ended = NULL => r = s
  BY <1>3 DEF IInv, RowsInv
<1>9. OpenRows(c)' = {}
  BY <1>4, <1>7, <1>8 DEF OpenRows
<1>. QED
  BY <1>2, <1>3, <1>6, <1>7, <1>9

\* The open shifts of the other couriers do not change, nor does their status.
LEMMA CommitOthers ==
  ASSUME IInv, NEW t \in Requests, Commit(t), NEW d \in Couriers,
         d # tx[t].courier
  PROVE  /\ OpenRows(d)' = OpenRows(d)
         /\ status'[d] = status[d]
<1>1. tx[t].row.courier # d
  BY AtCommit DEF Commit
<1>. QED
  BY <1>1 DEF Commit, Written, OpenRows, IInv, TypeOK

LEMMA CommitStatus ==
  ASSUME IInv, NEW t \in Requests, Commit(t)
  PROVE  status' \in [Couriers -> Availability]
         /\ status'[tx[t].courier] = NewStatus(tx[t].kind)
BY AtCommit DEF Commit, IInv, TypeOK, Tx, NewStatus, Availability

LEMMA CommitKeeps ==
  ASSUME IInv, NEW t \in Requests, Commit(t)
  PROVE  IInv'
<1>. DEFINE c == tx[t].courier
            row == tx[t].row
<1>1. /\ tx[t] \in Tx
      /\ tx[t].kind \in {"open", "close"}
      /\ row \in Row
      /\ row.courier = c
      /\ c \in Couriers
  BY AtCommit DEF Commit, Tx
<1>2. OthersSame(t) /\ tx'[t] = Idle
  BY ReturnIs DEF IInv, Commit
<1>3. clock' = clock /\ clock \in Nat
  BY DEF Commit, IInv, TypeOK, Times
<1>4. TypeOK'
  BY <1>1, <1>2, CommitStatus DEF Commit, Written, OthersSame, IInv, TypeOK
<1>5. RowsInv'
  <2>1. IsFiniteSet(shifts)'
    <3>1. IsFiniteSet({s \in shifts : s.courier # row.courier
                                      \/ s.started # row.started})
      BY FS_Subset DEF IInv, RowsInv
    <3>. QED
      BY <3>1, FS_AddElement DEF Commit, Written
  <2>2. row.started <= clock
    <3>1. CASE tx[t].kind = "open"
      BY <3>1, AtCommit DEF Commit, PendingInv, IInv, TxInv
    <3>2. CASE tx[t].kind = "close"
      BY <3>2, CommitClose, <1>1 DEF IInv, RowsInv
    <3>. QED
      BY <1>1, <3>1, <3>2
  <2>3. \A s \in shifts' : s.started <= clock'
    BY <1>3, <2>2 DEF Commit, Written, IInv, RowsInv
  <2>4. \A s, r \in shifts' :
          s.courier = r.courier /\ s.started = r.started => s = r
    BY DEF Commit, Written, IInv, RowsInv
  <2>5. \A s, r \in shifts' :
          s.courier = r.courier /\ s.ended = NULL /\ r.ended = NULL => s = r
    <3>. SUFFICES ASSUME NEW s \in shifts', NEW r \in shifts',
                         s.courier = r.courier, s.ended = NULL, r.ended = NULL
                  PROVE  s = r
      OBVIOUS
    <3>1. CASE s.courier # c
      <4>1. s \in shifts /\ r \in shifts
        BY <1>1, <3>1 DEF Commit, Written
      <4>. QED
        BY <4>1 DEF IInv, RowsInv
    <3>2. CASE s.courier = c /\ tx[t].kind = "open"
      <4>1. OpenRows(c) = {} /\ shifts' = shifts \cup {row}
        BY <1>1, <3>2, CommitOpen
      <4>. QED
        BY <3>2, <4>1 DEF OpenRows
    <3>3. CASE s.courier = c /\ tx[t].kind = "close"
      <4>1. PICK q \in shifts : /\ q \in OpenRows(c)
                                /\ shifts' = (shifts \ {q}) \cup {row}
        BY <1>1, <3>3, CommitClose
      <4>2. row.ended # NULL
        BY <1>1, <3>3, AtCommit, NullAssumption DEF Commit, PendingInv, Tx, Times
      <4>3. s \in shifts \ {q}
        BY <4>1, <4>2
      <4>. QED
        BY <3>3, <4>1, <4>3 DEF IInv, RowsInv, OpenRows
    <3>. QED
      BY <1>1, <3>1, <3>2, <3>3
  <2>. QED
    BY <2>1, <2>3, <2>4, <2>5 DEF RowsInv
<1>6. TxInv(t)'
  BY <1>2, <1>3, IdleInv
<1>7. \A u \in Requests \ {t} : TxInv(u)'
  <2>. TAKE u \in Requests \ {t}
  <2>1. tx'[u] = tx[u] /\ TxInv(u)
    BY <1>2 DEF OthersSame, IInv
  <2>2. tx[u].row # NULL => PendingInv(u)'
    <3>. SUFFICES ASSUME tx[u].row # NULL PROVE PendingInv(u)'
      OBVIOUS
    <3>1. tx[u].courier # c /\ tx[u].courier \in Couriers /\ PendingInv(u)
      <4>1. tx[u].pc # "idle"
        BY <2>1 DEF TxInv
      <4>2. tx[u] \in Tx
        BY <4>1, InFlightType DEF IInv
      <4>3. row # NULL
        BY <1>1, NullAssumption DEF Row, Times
      <4>. QED
        BY <2>1, <4>2, <4>3 DEF IInv, DistinctInv, TxInv, Tx
    <3>2. ASSUME NEW d \in Couriers, d = tx[u].courier
          PROVE  OpenRows(d)' = OpenRows(d)
      BY <3>1, <3>2, CommitOthers
    <3>. QED
      BY <2>1, <3>1, <3>2 DEF PendingInv
  <2>3. tx[u].kind = "open" => \A s \in shifts' : s.started # tx[u].at
    <3>. SUFFICES ASSUME tx[u].kind = "open" PROVE row.started # tx[u].at
      BY <2>1 DEF TxInv, Commit, Written
    <3>1. CASE tx[t].kind = "open"
      BY <3>1, AtCommit DEF Commit, PendingInv, IInv, DistinctInv
    <3>2. CASE tx[t].kind = "close"
      BY <3>2, <1>1, <2>1, CommitClose DEF TxInv
    <3>. QED
      BY <1>1, <3>1, <3>2
  <2>. QED
    BY <1>3, <2>1, <2>2, <2>3 DEF TxInv
<1>8. DistinctInv'
  BY <1>2, NullAssumption DEF IInv, DistinctInv, OthersSame, Idle, Kinds
<1>. QED
  BY <1>4, <1>5, <1>6, <1>7, <1>8 DEF IInv

-----------------------------------------------------------------------------
LEMMA NextKeeps == IInv /\ [Next]_vars => IInv'
<1>. SUFFICES ASSUME IInv, [Next]_vars PROVE IInv'
  OBVIOUS
<1>1. ASSUME NEW t \in Requests, NEW c \in Couriers,
             NEW kind \in {"open", "close"}, BeginShift(t, c, kind)
      PROVE  IInv'
  BY <1>1, BeginKeeps
<1>2. ASSUME NEW t \in Requests, NEW c \in Couriers, NEW edit \in Edits,
             EditLoad(t, c, edit)
      PROVE  IInv'
  BY <1>2, EditLoadKeeps
<1>3. ASSUME NEW t \in Requests, Continue(t)
      PROVE  IInv'
  BY <1>3, InsertKeeps, CloseRowKeeps, FindKeeps, UpdateCourierKeeps, EmitKeeps,
     CommitKeeps, EditSelectKeeps, EditUpdateKeeps DEF Continue
<1>4. ASSUME NEW t \in Requests, Fail(t)
      PROVE  IInv'
  <2>1. failures' \in 0..MaxFailures
    BY <1>4, BoundsAssumption DEF Fail, IInv, TypeOK
  <2>. QED
    BY <1>4, <2>1, EndKeeps DEF Fail, TablesSame
<1>5. CASE UNCHANGED vars
  <2>1. TypeOK' /\ RowsInv' /\ DistinctInv'
    BY <1>5 DEF IInv, TypeOK, RowsInv, DistinctInv, vars
  <2>2. \A t \in Requests : TxInv(t)'
    BY <1>5, TxKeeps DEF IInv, vars, TablesSame
  <2>. QED
    BY <2>1, <2>2 DEF IInv
<1>. QED
  BY <1>1, <1>2, <1>3, <1>4, <1>5 DEF Next

\* The inductive invariant holds in every reachable state, with any edits.
THEOREM Invariance == Spec => []IInv
<1>. QED
  BY InitInv, NextKeeps, PTL DEF Spec

\* Types: the tables, the transactions and the events of the shift service.
THEOREM TypeCorrect == Spec => []TypeOK
<1>1. IInv => TypeOK
  BY DEF IInv
<1>. QED
  BY <1>1, Invariance, PTL

\* FR-003: a courier never has two open shifts, however many openings overlap.
THEOREM OneOpenShiftHolds == Spec => []OneOpenShift
<1>1. IInv => OneOpenShift
  <2>. SUFFICES ASSUME IInv, NEW c \in Couriers
                PROVE  Cardinality(OpenRows(c)) <= 1
    BY DEF OneOpenShift
  <2>1. CASE OpenRows(c) = {}
    BY <2>1, FS_EmptySet
  <2>2. ASSUME NEW s \in OpenRows(c)
        PROVE  Cardinality(OpenRows(c)) <= 1
    <3>1. OpenRows(c) = {s}
      BY DEF IInv, RowsInv, OpenRows
    <3>2. Cardinality({s}) = 1
      BY FS_Singleton
    <3>. QED
      BY <3>1, <3>2
  <2>. QED
    BY <2>1, <2>2
<1>. QED
  BY <1>1, Invariance, PTL

-----------------------------------------------------------------------------
(***************************************************************************)
(* The shift board.                                                        *)
(***************************************************************************)
Count == [c \in Couriers |-> Cardinality(Sessions(c))]

LEMMA SessionsFinite ==
  ASSUME IInv, NEW c \in Couriers
  PROVE  IsFiniteSet(Sessions(c)) /\ Cardinality(Sessions(c)) \in Nat
<1>1. Sessions(c) \subseteq shifts
  BY DEF Sessions
<1>. QED
  BY <1>1, FS_Subset, FS_CardinalityType DEF IInv, RowsInv

LEMMA OtherSessions ==
  ASSUME IInv, NEW t \in Requests, Commit(t), NEW d \in Couriers,
         d # tx[t].courier
  PROVE  Sessions(d)' = Sessions(d)
<1>1. tx[t].row.courier # d
  BY AtCommit DEF Commit
<1>. QED
  BY <1>1 DEF Commit, Written, Sessions

LEMMA BoardOpens ==
  ASSUME IInv, NEW t \in Requests, Commit(t), tx[t].kind = "open",
         NEW c \in Couriers, c = tx[t].courier
  PROVE  Board!Open(c)
<1>1. /\ OpenRows(c) = {}
      /\ OpenRows(c)' # {}
      /\ shifts' = shifts \cup {tx[t].row}
      /\ tx[t].row \notin shifts
      /\ tx[t].row.courier = c
  BY CommitOpen, AtCommit DEF Commit
<1>2. c \notin On /\ On' = On \cup {c}
  BY <1>1, CommitOthers DEF On
<1>3. Available' = Available \cup {c}
  BY CommitOthers, CommitStatus DEF Available, NewStatus
<1>4. Cardinality(Sessions(c)') = Cardinality(Sessions(c)) + 1
  <2>1. Sessions(c)' = Sessions(c) \cup {tx[t].row} /\ tx[t].row \notin Sessions(c)
    BY <1>1 DEF Sessions
  <2>. QED
    BY <2>1, SessionsFinite, FS_AddElement
<1>5. Count' = [Count EXCEPT ![c] = @ + 1]
  BY <1>4, OtherSessions DEF Count
<1>. QED
  BY <1>2, <1>3, <1>5 DEF Board!Open, Count

LEMMA BoardCloses ==
  ASSUME IInv, NEW t \in Requests, Commit(t), tx[t].kind = "close",
         NEW c \in Couriers, c = tx[t].courier
  PROVE  Board!Close(c)
<1>1. PICK s \in OpenRows(c) : /\ s \in shifts
                               /\ s.courier = c
                               /\ tx[t].row \notin shifts
                               /\ shifts' = (shifts \ {s}) \cup {tx[t].row}
                               /\ OpenRows(c)' = {}
  BY CommitClose
<1>2. c \in On /\ On' = On \ {c}
  BY <1>1, CommitOthers DEF On
<1>3. Available' = Available \ {c}
  BY CommitOthers, CommitStatus DEF Available, NewStatus
<1>4. Cardinality(Sessions(c)') = Cardinality(Sessions(c))
  <2>1. tx[t].row.courier = c
    BY AtCommit DEF Commit
  <2>2. Sessions(c)' = (Sessions(c) \ {s}) \cup {tx[t].row}
    BY <1>1, <2>1 DEF Sessions
  <2>3. s \in Sessions(c) /\ tx[t].row \notin Sessions(c) \ {s}
    BY <1>1 DEF Sessions
  <2>4. /\ IsFiniteSet(Sessions(c) \ {s})
        /\ Cardinality(Sessions(c) \ {s}) = Cardinality(Sessions(c)) - 1
    BY <2>3, SessionsFinite, FS_RemoveElement
  <2>5. Cardinality((Sessions(c) \ {s}) \cup {tx[t].row})
          = Cardinality(Sessions(c) \ {s}) + 1
    BY <2>3, <2>4, FS_AddElement
  <2>. QED
    BY <2>2, <2>4, <2>5, SessionsFinite
<1>5. Count' = Count
  BY <1>4, OtherSessions DEF Count
<1>. QED
  BY <1>2, <1>3, <1>5 DEF Board!Close, Count

\* A PATCH sets the status of its courier, and nothing else.
LEMMA BoardEdits ==
  ASSUME IInv, NEW t \in Requests, EditUpdate(t)
  PROVE  Board!Next
<1>1. PICK c \in Couriers, st \in Availability :
        status' = [status EXCEPT ![c] = st] /\ shifts' = shifts
  <2>1. tx[t] \in Tx /\ tx[t].status # NULL
    BY InFlightType DEF IInv, TxInv, EditUpdate
  <2>. QED
    BY <2>1 DEF EditUpdate, Tx
<1>2. On' = On /\ Count' = Count
  BY <1>1 DEF On, OpenRows, Sessions, Count
<1>3. Available' \in {Available \cup {c}, Available \ {c}}
  <2>1. status \in [Couriers -> Availability]
    BY DEF IInv, TypeOK
  <2>2. CASE st = "available"
    BY <1>1, <2>1, <2>2 DEF Available
  <2>3. CASE st = "unavailable"
    BY <1>1, <2>1, <2>3 DEF Available
  <2>. QED
    BY <2>2, <2>3 DEF Availability
<1>4. Board!Edit(c)
  BY <1>2, <1>3 DEF Board!Edit, Count
<1>. QED
  BY <1>4 DEF Board!Next

\* Every other step leaves the board alone.
LEMMA BoardStutters ==
  ASSUME shifts' = shifts, status' = status
  PROVE  UNCHANGED Board!vars
BY DEF Board!vars, On, Available, Sessions, OpenRows

LEMMA BoardStep ==
  ASSUME IInv, [Next]_vars
  PROVE  [Board!Next]_(Board!vars)
<1>1. ASSUME NEW t \in Requests, Commit(t)
      PROVE  Board!Next
  <2>1. tx[t].courier \in Couriers /\ tx[t].kind \in {"open", "close"}
    BY <1>1, AtCommit DEF Commit, Tx
  <2>. QED
    BY <1>1, <2>1, BoardOpens, BoardCloses DEF Board!Next
<1>2. ASSUME NEW t \in Requests, EditUpdate(t)
      PROVE  Board!Next
  BY <1>2, BoardEdits
<1>3. ASSUME NEW t \in Requests, Continue(t), ~Commit(t), ~EditUpdate(t)
      PROVE  shifts' = shifts /\ status' = status
  BY <1>3 DEF Continue, InsertShift, CloseOpenRow, FindClosed, UpdateCourier,
              Emit, EditSelect
<1>4. CASE Next
  <2>1. \/ \E t \in Requests : Commit(t) \/ EditUpdate(t)
        \/ shifts' = shifts /\ status' = status
    BY <1>3, <1>4 DEF Next, BeginShift, EditLoad, Fail
  <2>. QED
    BY <1>1, <1>2, <2>1, BoardStutters
<1>5. CASE UNCHANGED vars
  BY <1>5, BoardStutters DEF vars
<1>. QED
  BY <1>4, <1>5

\* FR-013: the overlapping transactions and edits implement the shift board: one
\* opening or closing at a time, the two tables in one step, no shift ever
\* erased, and an edit that moves nothing but the status.
THEOREM ImplementsBoard == Spec => BoardSpec
<1>1. Init => Board!Init
  BY FS_EmptySet DEF Init, Board!Init, On, Available, Sessions, OpenRows
<1>2. IInv /\ [Next]_vars => [Board!Next]_(Board!vars)
  BY BoardStep
<1>. QED
  BY <1>1, <1>2, Invariance, PTL DEF Spec, BoardSpec, Board!Spec

-----------------------------------------------------------------------------
(***************************************************************************)
(* What is told.  A step moves one request; only Emit tells, and only      *)
(* Commit writes the table.                                                *)
(***************************************************************************)
OnlySlot(t) == \A u \in Requests \ {t} : tx'[u] = tx[u]

\* What the request is about stays.
SameRequest(t) ==
  /\ tx'[t].kind = tx[t].kind
  /\ tx'[t].courier = tx[t].courier
  /\ tx'[t].at = tx[t].at

\* The statements before the event, and a PATCH.
LEMMA QuietStep ==
  ASSUME IInv, NEW t \in Requests,
         \/ InsertShift(t) \/ CloseOpenRow(t) \/ FindClosed(t)
         \/ UpdateCourier(t) \/ EditSelect(t) \/ EditUpdate(t)
  PROVE  /\ OnlySlot(t)
         /\ UNCHANGED <<shifts, clock, opened, closed, failures>>
         /\ tx[t].pc # "commit"
         /\ tx'[t] = Idle \/ (SameRequest(t) /\ tx'[t].pc \notin {"commit", "idle"})
<1>1. OnlySlot(t) /\ UNCHANGED <<shifts, clock, opened, closed, failures>>
  BY DEF IInv, TypeOK, OnlySlot, InsertShift, CloseOpenRow, FindClosed,
         UpdateCourier, EditSelect, EditUpdate, Return
<1>2. tx[t] \in Tx /\ TxInv(t) /\ tx[t].pc # "commit"
  BY InFlightType DEF IInv, InsertShift, CloseOpenRow, FindClosed, UpdateCourier,
                      EditSelect, EditUpdate
<1>3. CASE Return(t)
  BY <1>1, <1>2, <1>3 DEF Return, IInv, TypeOK
<1>4. CASE InsertShift(t) /\ ~Return(t)
  <2>1. After(t) = "courier"
    BY <1>2, <1>4 DEF TxInv, After, Order, OpenOrder, InsertShift
  <2>. QED
    BY <1>1, <1>2, <1>4, <2>1 DEF InsertShift, SameRequest, IInv, TypeOK, Tx
<1>5. CASE CloseOpenRow(t) /\ ~Return(t)
  <2>1. After(t) = "find"
    BY <1>2, <1>5 DEF TxInv, After, Order, CloseOrder, CloseOpenRow
  <2>. QED
    BY <1>1, <1>2, <1>5, <2>1 DEF CloseOpenRow, SameRequest, IInv, TypeOK, Tx
<1>6. CASE FindClosed(t)
  <2>1. After(t) = "courier"
    BY <1>2, <1>6 DEF TxInv, After, Order, CloseOrder, FindClosed
  <2>2. PICK s : tx' = [tx EXCEPT ![t].pc = "courier", ![t].found = s]
    BY <1>6, <2>1 DEF FindClosed
  <2>. QED
    BY <1>1, <1>2, <2>2 DEF SameRequest, IInv, TypeOK, Tx
<1>7. CASE UpdateCourier(t)
  <2>1. After(t) = "emit"
    BY <1>2, <1>7 DEF TxInv, After, Order, OpenOrder, CloseOrder, UpdateCourier
  <2>. QED
    BY <1>1, <1>2, <1>7, <2>1 DEF UpdateCourier, SameRequest, IInv, TypeOK, Tx
<1>8. CASE EditSelect(t) /\ ~Return(t)
  BY <1>1, <1>2, <1>8 DEF EditSelect, SameRequest, IInv, TypeOK, Tx
<1>. QED
  BY <1>3, <1>4, <1>5, <1>6, <1>7, <1>8 DEF EditUpdate

\* The event, told by a transaction that has only its COMMIT left.
LEMMA EmitStep ==
  ASSUME IInv, NEW t \in Requests, Emit(t)
  PROVE  /\ OnlySlot(t) /\ SameRequest(t)
         /\ UNCHANGED <<shifts, clock, failures>>
         /\ tx[t].pc = "emit" /\ tx'[t].pc = "commit"
         /\ tx'[t].row = tx[t].row /\ tx'[t].found = tx[t].found
         /\ tx[t].row # NULL /\ PendingInv(t) /\ tx[t] \in Tx
<1>1. /\ tx[t] \in Tx /\ TxInv(t) /\ tx[t].pc = "emit"
      /\ tx[t].kind \in {"open", "close"}
  BY InFlightType DEF IInv, TxInv, Emit
<1>2. After(t) = "commit"
  BY <1>1 DEF After, Order, OpenOrder, CloseOrder
<1>3. tx' = [tx EXCEPT ![t] = [tx[t] EXCEPT !.pc = "commit"]]
  BY <1>2 DEF Emit, IInv, TypeOK
<1>4. tx'[t] = [tx[t] EXCEPT !.pc = "commit"] /\ OnlySlot(t)
  BY <1>3 DEF IInv, TypeOK, OnlySlot
<1>. QED
  BY <1>1, <1>4 DEF Emit, SameRequest, TxInv, Tx

\* COMMIT and the other ways a request ends.
LEMMA ReturnStep ==
  ASSUME IInv, NEW t \in Requests, Return(t)
  PROVE  OnlySlot(t) /\ tx'[t] = Idle
BY DEF Return, OnlySlot, IInv, TypeOK

\* A request that begins.
LEMMA BeginStep ==
  ASSUME IInv, NEW t \in Requests, NEW c \in Couriers,
         NEW kind \in {"open", "close"}, BeginShift(t, c, kind)
  PROVE  /\ OnlySlot(t)
         /\ UNCHANGED <<shifts, opened, closed, failures>>
         /\ clock' = clock + 1
         /\ tx[t] = Idle
         /\ tx'[t].pc \in {"insert", "close"}
         /\ tx'[t].kind = kind /\ tx'[t].courier = c /\ tx'[t].at = clock + 1
<1>1. tx'[t] = [Idle EXCEPT !.pc = Order(kind).begin, !.kind = kind,
                            !.courier = c, !.at = clock + 1]
  BY DEF BeginShift, IInv, TypeOK
<1>2. Order(kind).begin \in {"insert", "close"}
  BY DEF Order, OpenOrder, CloseOrder
<1>. QED
  BY <1>1, <1>2 DEF BeginShift, OnlySlot, IInv, TypeOK, Idle

LEMMA EditLoadStep ==
  ASSUME IInv, NEW t \in Requests, NEW c \in Couriers, NEW edit \in Edits,
         EditLoad(t, c, edit)
  PROVE  /\ OnlySlot(t)
         /\ UNCHANGED <<shifts, clock, opened, closed, failures>>
         /\ tx[t] = Idle /\ tx'[t].pc = "select" /\ tx'[t].kind = "edit"
BY DEF EditLoad, OnlySlot, IInv, TypeOK, Idle

-----------------------------------------------------------------------------
(***************************************************************************)
(* Openings.                                                               *)
(***************************************************************************)
\* A step of a request that is not, and does not come to be, just before the
\* COMMIT of an opening.
LEMMA OpenedKeeps ==
  ASSUME OpenedInv, NEW t \in Requests, OnlySlot(t),
         t \notin Pending, t \notin Pending',
         UNCHANGED <<shifts, opened, failures>>
  PROVE  OpenedInv'
<1>1. Pending' = Pending /\ \A u \in Pending : tx'[u] = tx[u]
  BY DEF Pending, OnlySlot
<1>2. {Opening(tx[u].row) : u \in Pending}' = {Opening(tx[u].row) : u \in Pending}
  BY <1>1
<1>3. {Opening(s) : s \in shifts}' = {Opening(s) : s \in shifts}
  BY DEF Opening
<1>. QED
  BY <1>2, <1>3 DEF OpenedInv

LEMMA EmitOpened ==
  ASSUME IInv, OpenedInv, NEW t \in Requests, Emit(t)
  PROVE  OpenedInv'
<1>1. CASE tx[t].kind = "open"
  <2>1. Opening(tx[t].row) = [courier |-> tx[t].courier, started |-> tx[t].at]
    BY <1>1, EmitStep DEF Opening, PendingInv
  <2>2. opened' = opened \cup {Opening(tx[t].row)}
    BY <1>1, <2>1 DEF Emit
  <2>3. Pending' = Pending \cup {t} /\ \A u \in Pending' : tx'[u].row = tx[u].row
    BY <1>1, EmitStep DEF Pending, OnlySlot, SameRequest
  <2>4. {Opening(tx'[u].row) : u \in Pending'} =
          {Opening(tx[u].row) : u \in Pending} \cup {Opening(tx[t].row)}
    BY <2>3 DEF Opening
  <2>5. shifts' = shifts /\ failures' = failures
    BY EmitStep
  <2>. QED
    BY <2>2, <2>4, <2>5 DEF OpenedInv, Opening
<1>2. CASE tx[t].kind # "open"
  BY <1>2, EmitStep, OpenedKeeps DEF Pending, SameRequest, Emit
<1>. QED
  BY <1>1, <1>2

LEMMA CommitOpened ==
  ASSUME IInv, OpenedInv, NEW t \in Requests, Commit(t)
  PROVE  OpenedInv'
<1>. DEFINE row == tx[t].row
<1>1. OnlySlot(t) /\ tx'[t] = Idle /\ UNCHANGED <<opened, failures>>
  BY ReturnStep DEF Commit
<1>2. PICK c \in Couriers : c = tx[t].courier
  BY AtCommit DEF Commit, Tx
<1>3. Pending' = Pending \ {t} /\ \A u \in Pending' : tx'[u].row = tx[u].row
  BY <1>1 DEF Pending, OnlySlot, Idle
<1>4. {Opening(tx'[u].row) : u \in Pending'} =
        {Opening(tx[u].row) : u \in Pending \ {t}}
  BY <1>3 DEF Opening
<1>5. CASE row \notin shifts /\ tx[t].kind = "open" /\ shifts' = shifts \cup {row}
  <2>1. t \in Pending
    BY <1>5 DEF Pending, Commit
  <2>2. {Opening(s) : s \in shifts'} =
          {Opening(s) : s \in shifts} \cup {Opening(row)}
    BY <1>5
  <2>. QED
    BY <1>1, <1>4, <2>1, <2>2 DEF OpenedInv, Opening
<1>6. ASSUME tx[t].kind = "close", NEW s \in shifts, s.courier = c,
             s.started = row.started, shifts' = (shifts \ {s}) \cup {row}
      PROVE  OpenedInv'
  <2>1. t \notin Pending
    BY <1>6 DEF Pending
  <2>2. Opening(row) = Opening(s)
    BY <1>2, <1>6, AtCommit DEF Opening, Commit
  <2>3. {Opening(r) : r \in shifts'} = {Opening(r) : r \in shifts}
    BY <1>6, <2>2
  <2>4. Pending \ {t} = Pending
    BY <2>1
  <2>. QED
    BY <1>1, <1>4, <2>3, <2>4 DEF OpenedInv, Opening
<1>7. tx[t].kind \in {"open", "close"}
  BY AtCommit DEF Commit
<1>. QED
  BY <1>2, <1>5, <1>6, <1>7, CommitOpen, CommitClose

LEMMA OpenedNext == IInvOpened /\ [Next]_vars => IInvOpened'
<1>. SUFFICES ASSUME IInvOpened, [Next]_vars PROVE OpenedInv'
  BY NextKeeps DEF IInvOpened
<1>. USE DEF IInvOpened
<1>1. ASSUME NEW t \in Requests, NEW c \in Couriers,
             NEW kind \in {"open", "close"}, BeginShift(t, c, kind)
      PROVE  OpenedInv'
  BY <1>1, BeginStep, OpenedKeeps DEF Pending, Idle
<1>2. ASSUME NEW t \in Requests, NEW c \in Couriers, NEW edit \in Edits,
             EditLoad(t, c, edit)
      PROVE  OpenedInv'
  BY <1>2, EditLoadStep, OpenedKeeps DEF Pending, Idle
<1>3. ASSUME NEW t \in Requests, Continue(t)
      PROVE  OpenedInv'
  <2>1. CASE Emit(t)
    BY <2>1, EmitOpened
  <2>2. CASE Commit(t)
    BY <2>2, CommitOpened
  <2>3. CASE ~Emit(t) /\ ~Commit(t)
    BY <1>3, <2>3, QuietStep, OpenedKeeps DEF Continue, Pending, Idle
  <2>. QED
    BY <2>1, <2>2, <2>3
<1>4. ASSUME NEW t \in Requests, Fail(t)
      PROVE  OpenedInv'
  BY <1>4 DEF Fail, OpenedInv, IInv, TypeOK
<1>5. CASE UNCHANGED vars
  BY <1>5 DEF vars, OpenedInv, Pending, Opening
<1>. QED
  BY <1>1, <1>2, <1>3, <1>4, <1>5 DEF Next

\* Until a request is lost, what the staff were told is what was opened and
\* what is about to be.
THEOREM OpenedInvariance == Spec => []IInvOpened
<1>1. Init => IInvOpened
  BY InitInv DEF Init, IInvOpened, OpenedInv, Pending, Idle
<1>. QED
  BY <1>1, OpenedNext, PTL DEF Spec

\* FR-011: once every request is answered, none lost, the staff were told of
\* exactly the shifts that were opened (openShift).
THEOREM OpeningsAreAnnouncedHolds == Spec => []OpeningsAreAnnounced
<1>1. IInvOpened => OpeningsAreAnnounced
  <2>. SUFFICES ASSUME IInvOpened, Quiescent
                PROVE  opened = {[courier |-> s.courier, started |-> s.started] :
                                   s \in shifts}
    BY DEF OpeningsAreAnnounced
  <2>1. Pending = {}
    BY DEF Quiescent, InFlight, Pending
  <2>. QED
    BY <2>1 DEF IInvOpened, OpenedInv, Quiescent, Opening
<1>. QED
  BY <1>1, OpenedInvariance, PTL

-----------------------------------------------------------------------------
(***************************************************************************)
(* Openings and closings of one courier that overlap.  What is remembered  *)
(* of them only grows, and holds all that is under way.                    *)
(***************************************************************************)
\* What a transaction that is in flight with one of the opposite kind, and any
\* other time, is worth to the history.
LEMMA Remembered ==
  ASSUME Remember
  PROVE  /\ contested \subseteq contested'
         /\ (Contested \subseteq contested)'
BY DEF Remember

\* Two transactions of opposite kinds of one courier are both contested.
LEMMA BothContested ==
  ASSUME Contested \subseteq contested, NEW t \in Requests, NEW u \in Requests,
         tx[t].kind = "open", tx[u].kind = "close", tx[t].courier = tx[u].courier
  PROVE  tx[t].at \in contested /\ tx[u].at \in contested
BY DEF Contested, Shifting

\* A step that leaves the shifts alone and at most adds to what was told: only
\* the part of the request it moves is to be shown.
LEMMA OverlapsKeeps ==
  ASSUME IInvOverlaps, IInv', Remember, NEW t \in Requests, OnlySlot(t),
         shifts' = shifts, clock' \in {clock, clock + 1}, closed \subseteq closed',
         OverlapTx(t)'
  PROVE  IInvOverlaps'
<1>1. clock \in Nat
  BY BoundsAssumption DEF IInvOverlaps, IInv, TypeOK, Times
<1>2. contested \subseteq contested' /\ (Contested \subseteq contested)'
  BY Remembered
<1>3. (\A s \in shifts : Before(clock + 1, s))'
  <2>. SUFFICES ASSUME NEW s \in shifts
                PROVE  Before(clock' + 1, s)
    OBVIOUS
  <2>1. s.started \in Nat /\ (s.ended # NULL => s.ended \in Nat)
    BY DEF IInvOverlaps, IInv, TypeOK, Row, Times
  <2>2. Before(clock + 1, s)
    BY DEF IInvOverlaps
  <2>. QED
    BY <1>1, <2>1, <2>2 DEF Before
<1>4. \A u \in Requests : OverlapTx(u)'
  <2>. SUFFICES ASSUME NEW u \in Requests, u # t PROVE OverlapTx(u)'
    OBVIOUS
  <2>1. tx'[u] = tx[u] /\ OverlapTx(u)
    BY DEF OnlySlot, IInvOverlaps
  <2>2. History(u)' = History(u) /\ Uncontested' \subseteq Uncontested
    BY <1>2, <2>1 DEF History, Uncontested
  <2>. QED
    BY <1>2, <2>1, <2>2
       DEF OverlapTx, LatestOpen, LatestClose, ClosesLater, Before
<1>5. ShiftsApartUnlessContested'
  BY <1>2 DEF IInvOverlaps, ShiftsApartUnlessContested, Uncontested, EndsAfterStart,
              Apart
<1>6. AnnouncedUnlessContested'
  BY <1>2 DEF IInvOverlaps, AnnouncedUnlessContested, Announced
<1>. QED
  BY <1>2, <1>3, <1>4, <1>5, <1>6 DEF IInvOverlaps

\* A request that is neither an opening nor a closing has no part in it.
LEMMA NotShifting ==
  ASSUME NEW t \in Requests, tx'[t] = Idle \/ tx'[t].kind = "edit"
  PROVE  OverlapTx(t)'
BY NullAssumption DEF OverlapTx, LatestOpen, LatestClose, ClosesLater, Idle, Kinds

\* A statement that leaves the shifts alone keeps a closing later than the
\* uncontested openings, and an opening later than what has ended.
LEMMA SameTx ==
  ASSUME IInvOverlaps, Remember, NEW t \in Requests, SameRequest(t), shifts' = shifts,
         tx[t].at \notin contested' => LatestClose(t)'
  PROVE  OverlapTx(t)'
<1>1. contested \subseteq contested' /\ OverlapTx(t)
  BY Remembered DEF IInvOverlaps
<1>2. History(t)' = History(t) /\ Uncontested' \subseteq Uncontested
  BY <1>1 DEF History, Uncontested, SameRequest
<1>3. ClosesLater(t)'
  BY <1>1, <1>2 DEF OverlapTx, ClosesLater, SameRequest
<1>4. tx[t].at \notin contested' => LatestOpen(t)'
  BY <1>1, <1>2 DEF OverlapTx, LatestOpen, SameRequest, Before
<1>. QED
  BY <1>3, <1>4 DEF OverlapTx, SameRequest

\* The latest of the closed rows is the one the transaction has just written.
LEMMA FindsItsOwn ==
  ASSUME IInvOverlaps, NEW t \in Requests, FindClosed(t), LatestClose(t)
  PROVE  tx'[t].found = tx[t].row /\ tx'[t].row = tx[t].row
<1>1. /\ tx[t] \in Tx /\ tx[t].kind = "close" /\ tx[t].row # NULL
      /\ tx[t].row.ended = tx[t].at /\ tx[t].at \in Nat
  BY InFlightType DEF IInvOverlaps, IInv, TxInv, PendingInv, FindClosed, Tx, Times
<1>2. PICK s \in ClosedRows(t) :
        /\ IsLastEnded(s, ClosedRows(t))
        /\ tx' = [tx EXCEPT ![t].pc = After(t), ![t].found = s]
  BY DEF FindClosed
<1>3. s.ended >= tx[t].at
  BY <1>1, <1>2 DEF IsLastEnded, ClosedRows
<1>4. s = tx[t].row
  <2>. SUFFICES ASSUME s # tx[t].row PROVE FALSE
    OBVIOUS
  <2>1. s \in shifts /\ s.courier = tx[t].courier /\ s.ended # NULL
    BY <1>2 DEF ClosedRows
  <2>2. s.ended \in Nat /\ s.ended < tx[t].at
    BY <1>1, <2>1
       DEF LatestClose, History, Before, IInvOverlaps, IInv, TypeOK, Row, Times
  <2>. QED
    BY <1>1, <1>3, <2>2
<1>. QED
  BY <1>1, <1>2, <1>4 DEF IInvOverlaps, IInv, TypeOK, Tx

\* From there to its COMMIT a closing holds that row.
LEMMA FoundKeeps ==
  ASSUME IInv, NEW t \in Requests,
         InsertShift(t) \/ CloseOpenRow(t) \/ UpdateCourier(t)
  PROVE  /\ tx'[t].found = tx[t].found \/ tx'[t] = Idle
         /\ tx'[t].row = tx[t].row \/ ~UpdateCourier(t)
         /\ CloseOpenRow(t) => /\ tx'[t].pc \in {"find", "idle"}
                               /\ OpenRows(tx[t].courier) # {} \/ tx'[t] = Idle
         /\ InsertShift(t) => tx[t].kind = "open"
<1>1. tx[t] \in Tx /\ TxInv(t)
  BY InFlightType DEF IInv, InsertShift, CloseOpenRow, UpdateCourier
<1>2. CASE Return(t)
  BY <1>1, <1>2, QuietStep
     DEF Return, IInv, TypeOK, Idle, TxInv, InsertShift, CloseOpenRow, UpdateCourier
<1>3. CASE InsertShift(t) /\ ~Return(t)
  BY <1>1, <1>3 DEF InsertShift, CloseOpenRow, UpdateCourier, TxInv, IInv, TypeOK, Tx
<1>4. CASE CloseOpenRow(t) /\ ~Return(t)
  <2>1. After(t) = "find"
    BY <1>1, <1>4 DEF TxInv, After, Order, CloseOrder, CloseOpenRow
  <2>. QED
    BY <1>1, <1>4, <2>1 DEF InsertShift, CloseOpenRow, UpdateCourier, IInv, TypeOK, Tx
<1>5. CASE UpdateCourier(t)
  BY <1>1, <1>5 DEF InsertShift, CloseOpenRow, UpdateCourier, IInv, TypeOK, Tx
<1>. QED
  BY <1>2, <1>3, <1>4, <1>5

LEMMA QuietOverlaps ==
  ASSUME IInvOverlaps, IInv', Remember, NEW t \in Requests,
         \/ InsertShift(t) \/ CloseOpenRow(t) \/ FindClosed(t)
         \/ UpdateCourier(t) \/ EditSelect(t) \/ EditUpdate(t)
  PROVE  IInvOverlaps'
<1>1. /\ IInv /\ OnlySlot(t) /\ UNCHANGED <<shifts, clock, closed>>
      /\ tx'[t] = Idle \/ (SameRequest(t) /\ tx'[t].pc \notin {"commit", "idle"})
  BY QuietStep DEF IInvOverlaps
<1>2. CASE tx'[t] = Idle
  BY <1>1, <1>2, NotShifting, OverlapsKeeps
<1>3. CASE SameRequest(t) /\ tx'[t].pc \notin {"commit", "idle"}
  <2>1. ASSUME tx[t].at \notin contested' PROVE LatestClose(t)'
    <3>. SUFFICES ASSUME tx[t].kind = "close" PROVE LatestClose(t)'
      BY <1>3 DEF LatestClose, SameRequest
    <3>1. LatestClose(t) /\ History(t)' = History(t)
      BY <1>1, <1>3, <2>1, Remembered
         DEF IInvOverlaps, OverlapTx, History, SameRequest
    <3>2. CASE FindClosed(t)
      <4>1. tx'[t].found = tx[t].row /\ tx'[t].row = tx[t].row
        BY <3>1, <3>2, FindsItsOwn
      <4>. QED
        BY <1>3, <3>1, <4>1 DEF LatestClose, SameRequest, Before
    <3>3. CASE CloseOpenRow(t)
      <4>1. tx'[t].pc = "find" /\ OpenRows(tx[t].courier) # {}
        BY <1>1, <1>3, <3>3, FoundKeeps DEF Idle
      <4>2. \A s \in History(t) : Before(tx[t].at, s)
        BY <3>1, <4>1 DEF LatestClose, OpenRows, History
      <4>. QED
        BY <1>3, <3>1, <4>1, <4>2 DEF LatestClose, SameRequest, Before
    <3>4. CASE UpdateCourier(t)
      <4>1. tx'[t].found = tx[t].found /\ tx'[t].row = tx[t].row
        BY <1>1, <1>3, <3>4, FoundKeeps DEF Idle
      <4>2. tx[t].pc = "courier"
        BY <3>4 DEF UpdateCourier
      <4>. QED
        BY <1>3, <3>1, <4>1, <4>2 DEF LatestClose, SameRequest, Before
    <3>5. CASE InsertShift(t) \/ EditSelect(t) \/ EditUpdate(t)
      BY <3>5 DEF InsertShift, EditSelect, EditUpdate, IInvOverlaps, IInv, TxInv
    <3>. QED
      BY <3>2, <3>3, <3>4, <3>5
  <2>2. OverlapTx(t)'
    BY <1>1, <1>3, <2>1, SameTx
  <2>. QED
    BY <1>1, <2>2, OverlapsKeeps
<1>. QED
  BY <1>1, <1>2, <1>3

LEMMA EmitOverlaps ==
  ASSUME IInvOverlaps, IInv', Remember, NEW t \in Requests, Emit(t)
  PROVE  IInvOverlaps'
<1>1. /\ OnlySlot(t) /\ SameRequest(t) /\ UNCHANGED <<shifts, clock>>
      /\ tx[t].pc = "emit" /\ tx'[t].pc = "commit"
      /\ tx'[t].row = tx[t].row /\ tx'[t].found = tx[t].found
  BY EmitStep DEF IInvOverlaps
<1>2. /\ closed \subseteq closed'
      /\ tx[t].kind = "close" => tx[t].found \in closed'
  BY DEF Emit
<1>3. ASSUME tx[t].at \notin contested' PROVE LatestClose(t)'
  <2>1. LatestClose(t) /\ History(t)' = History(t)
    BY <1>1, <1>3, Remembered DEF IInvOverlaps, OverlapTx, History, SameRequest
  <2>. QED
    BY <1>1, <1>2, <2>1 DEF LatestClose, SameRequest, Before
<1>4. OverlapTx(t)'
  BY <1>1, <1>3, SameTx
<1>. QED
  BY <1>1, <1>2, <1>4, OverlapsKeeps

\* What others make of the COMMIT of an opening or a closing of their courier.
LEMMA CommitOthersOverlap ==
  ASSUME IInvOverlaps, Remember, NEW t \in Requests, Commit(t),
         NEW u \in Requests, u # t
  PROVE  OverlapTx(u)'
<1>. DEFINE row == tx[t].row
<1>1. IInv /\ Contested \subseteq contested /\ contested \subseteq contested'
  BY Remembered DEF IInvOverlaps
<1>2. /\ tx[t].kind \in {"open", "close"}
      /\ row \in Row /\ row # NULL
      /\ row.courier = tx[t].courier
      /\ PendingInv(t)
  <2>1. row # NULL
    BY <1>1 DEF Commit, IInv, TxInv
  <2>. QED
    BY <1>1, <2>1, AtCommit DEF Commit
<1>3. PICK c \in Couriers : c = tx[t].courier
  BY <1>1, AtCommit DEF Commit, Tx
<1>4. tx'[u] = tx[u] /\ OverlapTx(u) /\ closed' = closed
  BY <1>1, ReturnStep DEF Commit, OnlySlot, IInvOverlaps
<1>5. CASE tx[u].courier # c
  <2>1. History(u)' = History(u)
    BY <1>2, <1>3, <1>4, <1>5 DEF History, Commit, Written
  <2>2. Uncontested' \cap History(u)' \subseteq Uncontested \cap History(u)
    BY <1>1, <2>1 DEF Uncontested, History
  <2>. QED
    BY <1>1, <1>4, <2>1, <2>2
       DEF OverlapTx, LatestOpen, LatestClose, ClosesLater, Before
<1>6. CASE tx[u].courier = c /\ tx[t].kind = "open"
  <2>1. shifts' = shifts \cup {row} /\ row.ended = NULL /\ row.started = tx[t].at
    BY <1>1, <1>2, <1>3, <1>6, CommitOpen DEF PendingInv
  <2>2. CASE tx[u].kind = "close"
    <3>1. tx[u].at \in contested' /\ row.started \in contested'
      BY <1>1, <1>3, <1>6, <2>1, <2>2, BothContested
    <3>2. Uncontested' \subseteq Uncontested
      BY <1>1, <2>1, <3>1 DEF Uncontested
    <3>3. ClosesLater(u)'
      BY <1>4, <2>1, <3>2 DEF OverlapTx, ClosesLater, History, Uncontested
    <3>. QED
      BY <1>4, <3>1, <3>3 DEF OverlapTx
  <2>3. CASE tx[u].kind # "close"
    <3>1. \A s \in History(u)' : s.ended # NULL => s \in History(u)
      BY <1>4, <2>1 DEF History
    <3>. QED
      BY <1>1, <1>4, <2>3, <3>1
         DEF OverlapTx, LatestOpen, LatestClose, ClosesLater, Before
  <2>. QED
    BY <2>2, <2>3
<1>7. CASE tx[u].courier = c /\ tx[t].kind = "close"
  <2>1. PICK o \in shifts : /\ o.courier = c /\ o.started = row.started
                            /\ shifts' = (shifts \ {o}) \cup {row}
                            /\ OpenRows(c)' = {}
    BY <1>1, <1>3, <1>7, CommitClose
  <2>2. CASE tx[u].kind = "open"
    <3>1. tx[u].at \in contested'
      BY <1>1, <1>3, <1>7, <2>2, BothContested
    <3>. QED
      BY <1>4, <2>2, <3>1 DEF OverlapTx, ClosesLater
  <2>3. CASE tx[u].kind = "close"
    <3>1. tx[u].row = NULL
      BY <1>1, <1>2, <1>3, <1>7 DEF IInv, DistinctInv
    <3>2. \A s \in History(u)' : s.ended # NULL
      BY <1>4, <1>7, <2>1 DEF History, OpenRows
    <3>3. tx[u].pc \notin {"courier", "emit", "commit"}
      BY <1>1, <3>1 DEF IInv, TxInv
    <3>4. LatestClose(u)'
      BY <1>4, <3>1, <3>2, <3>3 DEF LatestClose
    <3>5. ClosesLater(u)'
      <4>1. \A s \in Uncontested' \cap History(u)' :
              \E r \in Uncontested \cap History(u) : r.started = s.started
        BY <1>1, <1>2, <1>3, <1>4, <1>7, <2>1 DEF Uncontested, History
      <4>. QED
        BY <1>4, <4>1 DEF OverlapTx, ClosesLater
    <3>. QED
      BY <1>4, <2>3, <3>4, <3>5 DEF OverlapTx, LatestOpen
  <2>4. CASE tx[u].kind \notin {"open", "close"}
    BY <1>4, <2>4 DEF OverlapTx, LatestOpen, LatestClose, ClosesLater
  <2>. QED
    BY <2>2, <2>3, <2>4
<1>. QED
  BY <1>2, <1>5, <1>6, <1>7

\* The COMMIT of an opening: an uncontested one is the latest of its courier.
LEMMA CommitOpenOverlaps ==
  ASSUME IInvOverlaps, Remember, NEW t \in Requests, Commit(t), tx[t].kind = "open"
  PROVE  /\ (\A s \in shifts : Before(clock + 1, s))'
         /\ ShiftsApartUnlessContested'
         /\ AnnouncedUnlessContested'
<1>. DEFINE row == tx[t].row
<1>1. PICK c \in Couriers : c = tx[t].courier
  BY AtCommit DEF Commit, Tx, IInvOverlaps
<1>2. /\ shifts' = shifts \cup {row} /\ OpenRows(c) = {}
      /\ clock' = clock /\ closed' = closed /\ contested \subseteq contested'
  BY <1>1, CommitOpen, Remembered DEF Commit, IInvOverlaps
<1>3. /\ row.courier = c /\ row.started = tx[t].at /\ row.ended = NULL
      /\ tx[t].at \in Nat /\ clock \in Nat /\ tx[t].at <= clock
  BY <1>1, AtCommit, BoundsAssumption
     DEF Commit, PendingInv, IInvOverlaps, IInv, TxInv, TypeOK, Tx, Times
<1>4. ASSUME NEW s \in shifts, s.courier = c, tx[t].at \notin contested
      PROVE  /\ s.started < tx[t].at /\ s.started \in Nat
             /\ s.ended # NULL /\ s.ended \in Nat /\ s.ended < tx[t].at
  <2>1. s.ended # NULL
    BY <1>2, <1>4 DEF OpenRows
  <2>2. Before(tx[t].at, s)
    BY <1>1, <1>4, <2>1 DEF IInvOverlaps, OverlapTx, LatestOpen, History
  <2>. QED
    BY <2>1, <2>2 DEF Before, IInvOverlaps, IInv, TypeOK, Row, Times
<1>5. Before(clock + 1, row)
  BY <1>3 DEF Before
<1>6. (\A s \in shifts : Before(clock + 1, s))'
  BY <1>2, <1>5 DEF IInvOverlaps, Before
<1>7. Uncontested' \subseteq Uncontested \cup {row}
  BY <1>2 DEF Uncontested
<1>8. \A s \in Uncontested' : EndsAfterStart(s)
  BY <1>3, <1>7 DEF IInvOverlaps, ShiftsApartUnlessContested, EndsAfterStart
<1>9. ASSUME NEW s \in Uncontested', NEW r \in Uncontested' PROVE Apart(s, r)
  <2>1. CASE s \in Uncontested /\ r \in Uncontested
    BY <2>1 DEF IInvOverlaps, ShiftsApartUnlessContested
  <2>2. CASE s \in Uncontested /\ r = row
    BY <1>2, <1>3, <1>4, <1>9, <2>2 DEF Apart, Uncontested
  <2>3. CASE s = row /\ r \in Uncontested
    BY <1>2, <1>3, <1>4, <1>9, <2>3 DEF Apart, Uncontested
  <2>4. CASE s = row /\ r = row
    BY <1>3, <2>4 DEF Apart
  <2>. QED
    BY <1>7, <1>9, <2>1, <2>2, <2>3, <2>4
<1>10. AnnouncedUnlessContested'
  BY <1>2, <1>3 DEF IInvOverlaps, AnnouncedUnlessContested, Announced
<1>. QED
  BY <1>6, <1>8, <1>9, <1>10 DEF ShiftsApartUnlessContested, EndsAfterStart, Apart

\* The COMMIT of a closing: the row it ends is the latest of the uncontested
\* ones, and an uncontested closing has told it.
LEMMA CommitCloseOverlaps ==
  ASSUME IInvOverlaps, Remember, NEW t \in Requests, Commit(t), tx[t].kind = "close"
  PROVE  /\ (\A s \in shifts : Before(clock + 1, s))'
         /\ ShiftsApartUnlessContested'
         /\ AnnouncedUnlessContested'
<1>. DEFINE row == tx[t].row
<1>1. PICK c \in Couriers : c = tx[t].courier
  BY AtCommit DEF Commit, Tx, IInvOverlaps
<1>2. PICK o \in shifts : /\ o \in OpenRows(c) /\ o.courier = c
                          /\ o.started = row.started
                          /\ shifts' = (shifts \ {o}) \cup {row}
  BY <1>1, CommitClose DEF IInvOverlaps
<1>3. /\ row.courier = c /\ row.ended = tx[t].at /\ row.started \in Nat
      /\ tx[t].at \in Nat /\ clock \in Nat /\ tx[t].at <= clock
      /\ o.ended = NULL /\ clock' = clock /\ closed' = closed
      /\ contested \subseteq contested'
  BY <1>1, <1>2, AtCommit, BoundsAssumption, Remembered
     DEF Commit, PendingInv, OpenRows, IInvOverlaps, IInv, TxInv, TypeOK, Tx, Row,
         Times
<1>4. o \in Uncontested => o.started < tx[t].at
  BY <1>1, <1>2 DEF IInvOverlaps, OverlapTx, ClosesLater, History
<1>5. Before(clock + 1, row)
  <2>1. Before(clock + 1, o)
    BY DEF IInvOverlaps
  <2>. QED
    BY <1>2, <1>3, <2>1 DEF Before
<1>6. (\A s \in shifts : Before(clock + 1, s))'
  BY <1>2, <1>3, <1>5 DEF IInvOverlaps, Before
<1>7. /\ Uncontested' \subseteq Uncontested \cup {row}
      /\ row \in Uncontested' => o \in Uncontested
  BY <1>2, <1>3 DEF Uncontested
<1>8. ASSUME NEW s \in Uncontested' PROVE EndsAfterStart(s)
  <2>1. CASE s \in Uncontested
    BY <2>1 DEF IInvOverlaps, ShiftsApartUnlessContested
  <2>2. CASE s = row
    BY <1>2, <1>3, <1>4, <1>7, <1>8, <2>2 DEF EndsAfterStart
  <2>. QED
    BY <1>7, <1>8, <2>1, <2>2
<1>9. ASSUME NEW s \in Uncontested', NEW r \in Uncontested' PROVE Apart(s, r)
  <2>1. CASE s \in Uncontested /\ r \in Uncontested
    BY <2>1 DEF IInvOverlaps, ShiftsApartUnlessContested
  <2>2. CASE s \in Uncontested /\ r = row
    <3>1. Apart(s, o)
      BY <1>7, <1>9, <2>2 DEF IInvOverlaps, ShiftsApartUnlessContested
    <3>. QED
      BY <1>2, <1>3, <2>2, <3>1 DEF Apart
  <2>3. CASE s = row /\ r \in Uncontested
    <3>1. Apart(o, r)
      BY <1>7, <1>9, <2>3 DEF IInvOverlaps, ShiftsApartUnlessContested
    <3>. QED
      BY <1>2, <1>3, <2>3, <3>1 DEF Apart
  <2>4. CASE s = row /\ r = row
    BY <1>3, <2>4 DEF Apart
  <2>. QED
    BY <1>7, <1>9, <2>1, <2>2, <2>3, <2>4
<1>10. AnnouncedUnlessContested'
  <2>1. tx[t].at \notin contested => row \in closed
    BY DEF IInvOverlaps, OverlapTx, LatestClose, Commit
  <2>. QED
    BY <1>2, <1>3, <2>1 DEF IInvOverlaps, AnnouncedUnlessContested, Announced
<1>. QED
  BY <1>6, <1>8, <1>9, <1>10 DEF ShiftsApartUnlessContested, EndsAfterStart, Apart

LEMMA CommitOverlaps ==
  ASSUME IInvOverlaps, IInv', Remember, NEW t \in Requests, Commit(t)
  PROVE  IInvOverlaps'
<1>1. tx'[t] = Idle /\ tx[t].kind \in {"open", "close"}
  BY ReturnStep, AtCommit DEF Commit, IInvOverlaps
<1>2. \A u \in Requests : OverlapTx(u)'
  BY <1>1, NotShifting, CommitOthersOverlap
<1>. QED
  BY <1>1, <1>2, Remembered, CommitOpenOverlaps, CommitCloseOverlaps DEF IInvOverlaps

\* A request that begins is later than every row.
LEMMA BeginOverlaps ==
  ASSUME IInvOverlaps, IInv', Remember, NEW t \in Requests, NEW c \in Couriers,
         NEW kind \in {"open", "close"}, BeginShift(t, c, kind)
  PROVE  IInvOverlaps'
<1>1. /\ OnlySlot(t) /\ shifts' = shifts /\ closed' = closed
      /\ clock' = clock + 1 /\ tx'[t].at = clock + 1
      /\ tx'[t].pc \in {"insert", "close"}
  BY BeginStep DEF IInvOverlaps
<1>2. \A s \in shifts' : Before(tx'[t].at, s)
  BY <1>1 DEF IInvOverlaps
<1>3. OverlapTx(t)'
  BY <1>1, <1>2
     DEF OverlapTx, LatestOpen, LatestClose, ClosesLater, History, Uncontested, Before
<1>. QED
  BY <1>1, <1>3, OverlapsKeeps

LEMMA OverlapsNext == IInvOverlaps /\ [HNext]_hvars => IInvOverlaps'
<1>. SUFFICES ASSUME IInvOverlaps, [HNext]_hvars PROVE IInvOverlaps'
  OBVIOUS
<1>1. IInv /\ IInv'
  BY NextKeeps DEF IInvOverlaps, HNext, hvars
<1>2. CASE HNext
  <2>. USE <1>1, <1>2 DEF HNext
  <2>1. ASSUME NEW t \in Requests, NEW c \in Couriers,
               NEW kind \in {"open", "close"}, BeginShift(t, c, kind)
        PROVE  IInvOverlaps'
    BY <2>1, BeginOverlaps
  <2>2. ASSUME NEW t \in Requests, NEW c \in Couriers, NEW edit \in Edits,
               EditLoad(t, c, edit)
        PROVE  IInvOverlaps'
    BY <2>2, EditLoadStep, NotShifting, OverlapsKeeps
  <2>3. ASSUME NEW t \in Requests, Continue(t) PROVE IInvOverlaps'
    BY <2>3, QuietOverlaps, EmitOverlaps, CommitOverlaps DEF Continue
  <2>4. ASSUME NEW t \in Requests, Fail(t) PROVE IInvOverlaps'
    BY <2>4, ReturnStep, NotShifting, OverlapsKeeps DEF Fail
  <2>. QED
    BY <2>1, <2>2, <2>3, <2>4 DEF Next
<1>3. CASE UNCHANGED hvars
  <2>1. /\ (Contested \subseteq contested)' /\ (\A s \in shifts : Before(clock + 1, s))'
        /\ ShiftsApartUnlessContested' /\ AnnouncedUnlessContested'
    BY <1>3 DEF hvars, vars, IInvOverlaps, Contested, Shifting, Before, Uncontested,
                ShiftsApartUnlessContested, EndsAfterStart, Apart,
                AnnouncedUnlessContested, Announced
  <2>2. \A t \in Requests : OverlapTx(t)'
    BY <1>3 DEF hvars, vars, IInvOverlaps, OverlapTx, LatestOpen, LatestClose,
                ClosesLater, History, Uncontested, Before
  <2>. QED
    BY <1>1, <2>1, <2>2 DEF IInvOverlaps
<1>. QED
  BY <1>2, <1>3

\* However openings and closings overlap, one that overlapped none of the
\* opposite kind is later than all that has ended.
THEOREM OverlapsInvariance == HSpec => []IInvOverlaps
<1>1. HInit => IInvOverlaps
  <2>. SUFFICES ASSUME HInit PROVE IInvOverlaps
    OBVIOUS
  <2>1. Contested \subseteq contested /\ \A t \in Requests : OverlapTx(t)
    BY NullAssumption DEF HInit, Init, Contested, Shifting, OverlapTx, LatestOpen,
                          LatestClose, ClosesLater, Idle, Kinds
  <2>2. ShiftsApartUnlessContested /\ AnnouncedUnlessContested
    BY DEF HInit, Init, ShiftsApartUnlessContested, AnnouncedUnlessContested,
           Uncontested
  <2>. QED
    BY <2>1, <2>2, InitInv DEF HInit, Init, IInvOverlaps
<1>. QED
  BY <1>1, OverlapsNext, PTL DEF HSpec

\* Assumptions of specs/007: shifts whose openings overlapped no closing do not
\* overlap, and end after they start (openShift, closeShift, the times of their
\* transactions).
THEOREM ShiftsApartUnlessContestedHolds == HSpec => []ShiftsApartUnlessContested
<1>1. IInvOverlaps => ShiftsApartUnlessContested
  BY DEF IInvOverlaps
<1>. QED
  BY <1>1, OverlapsInvariance, PTL

\* FR-012: the staff are told of every shift closed by a transaction that
\* overlapped no opening (closeShift).
THEOREM AnnouncedUnlessContestedHolds == HSpec => []AnnouncedUnlessContested
<1>1. IInvOverlaps => AnnouncedUnlessContested
  BY DEF IInvOverlaps
<1>. QED
  BY <1>1, OverlapsInvariance, PTL
=============================================================================
