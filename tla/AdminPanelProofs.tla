--------------------------- MODULE AdminPanelProofs ---------------------------
(***************************************************************************)
(* The accounts are sound, a bulk report is true and a status that is      *)
(* picked is not saved, for every set of orders, couriers, runs, emails    *)
(* and requests.                                                           *)
(*                                                                         *)
(* The invariant has a part per page, and a step disturbs one of them, a   *)
(* session that ends two.  Orders: what has happened to an order stays in  *)
(* its history; the UPDATE of a cancel finds open orders only, so no claim *)
(* of another run has the order, unless a late step of the courier has     *)
(* overwritten it.                                                         *)
(* Couriers: every step that fills the form fills it from the record.      *)
(* Users: the three statements that write are guarded by what they find,   *)
(* and the owner is never the one that is deleted.                         *)
(***************************************************************************)
EXTENDS AdminPanel, TLAPS

OrdersTyped ==
  /\ order \in [Orders -> OrderStatuses]
  /\ was \in [Orders -> SUBSET (OrderStatuses \ {"open"})]
  /\ requests \subseteq OrderRequest
  /\ overwritten \subseteq Orders
  /\ selection \subseteq Orders
  /\ modal \in BOOLEAN
  /\ run \in [Runs -> Run]
  /\ report \in [Runs -> [cancelled : SUBSET Orders, failed : SUBSET Orders]]
  /\ lost \subseteq Orders

OrdersOK == OrdersTyped /\ RunsAreWellFormed /\ RunsAreSound /\ RequestsAreSound

CouriersOK ==
  /\ courier \in [Couriers -> Availability]
  /\ drawer \in Drawer
  /\ calls \subseteq PatchCall
  /\ PickedIsNotSaved

UsersOK ==
  /\ dialog \in {"none", "create", "edit", "delete"}
  /\ StaffInv

RestOK ==
  /\ page \in {"orders", "couriers", "users"}
  /\ events \in 0..MaxEvents
  /\ troubles \in 0..MaxTroubles

LEMMA Parts == IInv <=> OrdersOK /\ CouriersOK /\ UsersOK /\ RestOK
BY DEF IInv, TypeOK, StaffInv, OrdersOK, OrdersTyped, CouriersOK, UsersOK, RestOK

LEMMA PartsNext == IInv' <=> OrdersOK' /\ CouriersOK' /\ UsersOK' /\ RestOK'
BY DEF IInv, TypeOK, StaffInv, OrdersOK, OrdersTyped, CouriersOK, UsersOK, RestOK

LEMMA OrdersKeep ==
  OrdersOK /\ UNCHANGED <<orderRows, ordersPage>> => OrdersOK'
BY DEF OrdersOK, OrdersTyped, orderRows, ordersPage, RunsAreWellFormed, RunsAreSound,
       RequestsAreSound, Claims, Done, Failures, Cancelled, Finished

LEMMA CouriersKeep ==
  CouriersOK /\ UNCHANGED <<courier, couriersPage>> => CouriersOK'
BY DEF CouriersOK, couriersPage, PickedIsNotSaved

LEMMA UsersKeep ==
  UsersOK /\ UNCHANGED usersPage => UsersOK'
BY DEF UsersOK, usersPage, staff, StaffInv, StaffTypeOK, AccountsAreSound

LEMMA RestKeep ==
  RestOK /\ UNCHANGED <<page, events, troubles>> => RestOK'
BY DEF RestOK

LEMMA EventKeeps ==
  RestOK /\ UNCHANGED <<page, troubles>> /\ events < MaxEvents /\ events' = events + 1 => RestOK'
BY PanelAssumption DEF RestOK

LEMMA TroubleKeeps == RestOK /\ UNCHANGED <<page, events>> /\ Trouble => RestOK'
BY PanelAssumption DEF RestOK, Trouble

-----------------------------------------------------------------------------
(* The orders page *)

\* What a run or a report says of an order stays true of it.
Persist ==
  \A p \in Orders : (Cancelled(p) => Cancelled(p)') /\ (Finished(p) => Finished(p)')

LEMMA RowsPersist ==
  ASSUME UNCHANGED <<order, was>>, overwritten \subseteq overwritten' PROVE Persist
BY DEF Persist, Cancelled, Finished

LEMMA ClaimsAreOrders ==
  ASSUME OrdersOK, NEW l \in Runs
  PROVE  Claims(l) \subseteq Orders /\ Failures(l) \subseteq Orders
BY DEF OrdersOK, OrdersTyped, Run, Claims, Done, Failures

\* New claims and new failures are true, the old ones stay so.
LEMMA RunsKeep ==
  ASSUME OrdersOK, Persist, lost \subseteq lost', overwritten \subseteq overwritten',
         \A l \in Runs : \A p \in Claims(l)' :
           \/ p \in Claims(l)
           \/ Cancelled(p)' /\ \A k \in Runs \ {l} : p \in Claims(k)' => p \in overwritten',
         \A l \in Runs : \A p \in Failures(l)' : p \in Failures(l) \/ Finished(p)' \/ p \in lost'
  PROVE  RunsAreSound'
<1>1. ASSUME NEW l \in Runs, NEW p \in Claims(l)' PROVE Cancelled(p)'
  BY <1>1, ClaimsAreOrders DEF OrdersOK, RunsAreSound, Persist
<1>2. ASSUME NEW l \in Runs, NEW p \in Failures(l)' PROVE Finished(p)' \/ p \in lost'
  BY <1>2, ClaimsAreOrders DEF OrdersOK, RunsAreSound, Persist
<1>3. ASSUME NEW l \in Runs, NEW k \in Runs \ {l}, NEW p \in Claims(l)' \cap Claims(k)'
      PROVE  p \in overwritten'
  <2>1. CASE p \in Claims(l) /\ p \in Claims(k)
    BY <2>1 DEF OrdersOK, RunsAreSound
  <2>2. CASE p \notin Claims(l) \/ p \notin Claims(k)
    BY <2>2
  <2> QED
    BY <2>1, <2>2
<1> QED
  BY <1>1, <1>2, <1>3 DEF RunsAreSound

\* A step that leaves the orders, their runs and the reports, but for the
\* flags of the runs.
LEMMA FlagsOnly ==
  ASSUME OrdersOK, UNCHANGED <<orderRows, report, lost>>,
         selection' \subseteq Orders, modal' \in BOOLEAN,
         run' \in [Runs -> Run],
         \A l \in Runs : /\ run'[l].pc = run[l].pc /\ run'[l].orders = run[l].orders
                         /\ run'[l].left = run[l].left /\ run'[l].failed = run[l].failed
  PROVE  OrdersOK'
<1>1. UNCHANGED <<order, was, requests, overwritten, report, lost>>
  BY DEF orderRows
<1>2. OrdersTyped'
  BY <1>1 DEF OrdersOK, OrdersTyped
<1>3. RunsAreWellFormed'
  BY DEF OrdersOK, RunsAreWellFormed
<1>4. \A l \in Runs : Claims(l)' = Claims(l) /\ Failures(l)' = Failures(l)
  BY <1>1 DEF Claims, Done, Failures
<1>5. RunsAreSound'
  BY <1>1, <1>4, RowsPersist, RunsKeep
<1>6. \A r \in requests : r.run # NULL => r.run \in Runs
  BY DEF OrdersOK, OrdersTyped, OrderRequest
<1>7. RequestsAreSound'
  BY <1>1, <1>6 DEF OrdersOK, RequestsAreSound
<1> QED
  BY <1>2, <1>3, <1>5, <1>7 DEF OrdersOK

LEMMA WithoutBarType ==
  OrdersOK => /\ WithoutBar \in [Runs -> Run]
              /\ \A l \in Runs :
                   /\ WithoutBar[l].pc = run[l].pc /\ WithoutBar[l].orders = run[l].orders
                   /\ WithoutBar[l].left = run[l].left /\ WithoutBar[l].failed = run[l].failed
                   /\ WithoutBar[l].home = run[l].home
BY DEF OrdersOK, OrdersTyped, WithoutBar, Run

LEMMA ToggleRowStep ==
  ASSUME OrdersOK, NEW o \in Orders, ToggleRow(o) PROVE OrdersOK'
<1>1. selection' \subseteq Orders /\ modal' \in BOOLEAN
  BY DEF ToggleRow, SelectOnly, OrdersOK, OrdersTyped
<1>2. run' = run \/ run' = WithoutBar
  BY DEF ToggleRow
<1>3. UNCHANGED <<orderRows, report, lost>>
  BY DEF ToggleRow, rows
<1> QED
  BY <1>1, <1>2, <1>3, FlagsOnly, WithoutBarType DEF OrdersOK, OrdersTyped

LEMMA ClearSelectionStep ==
  ASSUME OrdersOK, ClearSelection PROVE OrdersOK'
<1>1. selection' \subseteq Orders /\ modal' \in BOOLEAN
  BY DEF ClearSelection, SelectOnly
<1>2. run' = WithoutBar /\ UNCHANGED <<orderRows, report, lost>>
  BY DEF ClearSelection, rows
<1> QED
  BY <1>1, <1>2, FlagsOnly, WithoutBarType

LEMMA ToggleModalStep ==
  ASSUME OrdersOK, ToggleModal PROVE OrdersOK'
<1>1. selection' \subseteq Orders /\ modal' \in BOOLEAN
  BY DEF ToggleModal, SelectOnly, OrdersOK, OrdersTyped
<1>2. UNCHANGED <<orderRows, run, report, lost>>
  BY DEF ToggleModal, rows
<1> QED
  BY <1>1, <1>2, FlagsOnly DEF OrdersOK, OrdersTyped

LEMMA ConfirmBulkStep ==
  ASSUME OrdersOK, NEW l \in Runs, ConfirmBulk(l) PROVE OrdersOK'
<1> DEFINE new == [pc |-> "loop", orders |-> selection, left |-> selection,
                   failed |-> {}, bar |-> TRUE, home |-> TRUE]
<1>1. /\ run[l].pc = "idle"
      /\ run' = [run EXCEPT ![l] = new]
      /\ report' = [report EXCEPT ![l] = NoReport]
      /\ UNCHANGED <<order, was, requests, overwritten, selection, modal, lost>>
  BY DEF ConfirmBulk, rows, orderRows
<1>2. new \in Run
  BY DEF Run, OrdersOK, OrdersTyped
<1>3. OrdersTyped'
  BY <1>1, <1>2 DEF OrdersOK, OrdersTyped, NoReport
<1>4. run'[l] = new /\ report'[l] = NoReport
  BY <1>1 DEF OrdersOK, OrdersTyped
<1>5. Claims(l)' = {} /\ Failures(l)' = {}
  BY <1>4 DEF Claims, Done, Failures, NoReport
<1>6. \A k \in Runs \ {l} : run'[k] = run[k] /\ report'[k] = report[k]
  BY <1>1 DEF OrdersOK, OrdersTyped
<1>7. \A k \in Runs \ {l} : Claims(k)' = Claims(k) /\ Failures(k)' = Failures(k)
  BY <1>6 DEF Claims, Done, Failures
<1>8. /\ run'[l].left \subseteq run'[l].orders
      /\ run'[l].left \cap run'[l].failed = {}
      /\ run'[l].pc = "loop"
  BY <1>4
<1> HIDE DEF new
<1>9. RunsAreWellFormed'
  BY <1>6, <1>8 DEF RunsAreWellFormed, OrdersOK
<1>10. RunsAreSound'
  BY <1>1, <1>5, <1>7, RowsPersist, RunsKeep
<1>11. \A r \in requests : r.run # l /\ (r.run # NULL => r.run \in Runs)
  BY <1>1, PanelAssumption DEF OrdersOK, OrdersTyped, OrderRequest, RequestsAreSound
<1>12. RequestsAreSound'
  BY <1>1, <1>6, <1>11 DEF OrdersOK, RequestsAreSound
<1> QED
  BY <1>3, <1>9, <1>10, <1>12 DEF OrdersOK

\* A request that loads the row finds the order open.
LEMMA LoadStep ==
  ASSUME OrdersOK, NEW o \in Orders, NEW to \in OrderStatuses, NEW l \in Runs \cup {NULL},
         Load(Request(o, to, l)), UNCHANGED <<order, was, overwritten, ordersPage>>,
         l # NULL => to = "cancelled" /\ run[l].pc = "loop" /\ o \in run[l].left
  PROVE  OrdersOK'
<1> DEFINE new == Request(o, to, l)
<1>1. /\ new \in OrderRequest
      /\ new.order = o /\ new.to = to /\ new.run = l
  BY DEF Request, OrderRequest
<1>2. /\ requests' = requests \cup {new}
      /\ UNCHANGED <<order, was, overwritten, selection, modal, run, report, lost>>
  BY DEF Load, ordersPage
<1> HIDE DEF new
<1>3. OrdersTyped'
  BY <1>1, <1>2 DEF OrdersOK, OrdersTyped
<1>4. \A k \in Runs : Claims(k)' = Claims(k) /\ Failures(k)' = Failures(k)
  BY <1>2 DEF Claims, Done, Failures
<1>5. RunsAreWellFormed' /\ RunsAreSound'
  BY <1>2, <1>4, RowsPersist, RunsKeep DEF OrdersOK, RunsAreWellFormed
<1>6. RequestsAreSound'
  BY <1>1, <1>2 DEF OrdersOK, RequestsAreSound
<1> QED
  BY <1>3, <1>5, <1>6 DEF OrdersOK

\* A write that is not refused moves an order that is finished only if it is a
\* step of the courier, and then the order is overwritten.
LEMMA WriteRows ==
  ASSUME OrdersOK, NEW r \in requests, Write(r), ~Refused(r)
  PROVE  /\ order' \in [Orders -> OrderStatuses]
         /\ was' \in [Orders -> SUBSET (OrderStatuses \ {"open"})]
         /\ overwritten \subseteq overwritten' /\ overwritten' \subseteq Orders
         /\ \A p \in Orders \ {r.order} : order'[p] = order[p] /\ was'[p] = was[p]
         /\ was[r.order] \subseteq was'[r.order]
         /\ order'[r.order] # "open" => order'[r.order] \in was'[r.order]
         /\ order[r.order] # "open" => r.order \in overwritten'
         /\ r.to = "cancelled" => order'[r.order] = "cancelled" /\ order[r.order] = "open"
<1>1. r.order \in Orders /\ r.to \in OrderStatuses
  BY DEF OrdersOK, OrdersTyped, OrderRequest
<1>2. /\ order' = [order EXCEPT ![r.order] = r.to]
      /\ was' = [was EXCEPT ![r.order] = @ \cup ({r.to} \ {"open"})]
      /\ overwritten' = overwritten \cup
           {o \in {r.order} : order[o] # "open" /\ r.to # "cancelled"}
  BY DEF Write
<1>3. r.to = "cancelled" => order[r.order] = "open"
  BY DEF Refused
<1> QED
  BY <1>1, <1>2, <1>3 DEF OrdersOK, OrdersTyped, OrderStatuses

LEMMA WritePersists ==
  ASSUME OrdersOK, NEW r \in requests, Write(r), ~Refused(r) PROVE Persist
<1>1. ASSUME NEW p \in Orders
      PROVE  (Cancelled(p) => Cancelled(p)') /\ (Finished(p) => Finished(p)')
  <2>1. CASE p = r.order
    BY <2>1, WriteRows DEF Cancelled, Finished
  <2>2. CASE p # r.order
    BY <2>2, WriteRows DEF Cancelled, Finished
  <2> QED
    BY <2>1, <2>2
<1> QED
  BY <1>1 DEF Persist

\* What the answer changes: the order of the request is no longer to come.
LEMMA WriteRuns ==
  ASSUME OrdersOK, NEW r \in requests, Write(r), ~Refused(r)
  PROVE  /\ run' \in [Runs -> Run]
         /\ \A k \in Runs :
              /\ run'[k].pc = run[k].pc /\ run'[k].orders = run[k].orders
              /\ run'[k].failed = run[k].failed
              /\ run'[k].left = IF k = r.run THEN run[k].left \ {r.order} ELSE run[k].left
<1>1. r.run \in Runs \cup {NULL} /\ NULL \notin Runs
  BY PanelAssumption DEF OrdersOK, OrdersTyped, OrderRequest
<1>2. CASE r.run = NULL
  <2>1. run' = run
    BY <1>2 DEF Write
  <2> QED
    BY <1>1, <1>2, <2>1 DEF OrdersOK, OrdersTyped
<1>3. CASE r.run \in Runs
  <2>1. run' = [run EXCEPT ![r.run].left = @ \ {r.order}]
    BY <1>1, <1>3 DEF Write
  <2>2. run[r.run] \in Run /\ run \in [Runs -> Run]
    BY <1>3 DEF OrdersOK, OrdersTyped
  <2>3. [run[r.run] EXCEPT !.left = @ \ {r.order}] \in Run
    BY <2>2 DEF Run
  <2> QED
    BY <1>3, <2>1, <2>2, <2>3 DEF Run
<1> QED
  BY <1>1, <1>2, <1>3

\* The requests that are left are for orders still to come: one run has no two
\* requests for one order.
LEMMA WriteRequests ==
  ASSUME OrdersOK, NEW r \in requests, requests' = requests \ {r},
         \A p \in Orders : order'[p] # "open" => order'[p] \in was'[p],
         \A k \in Runs :
           /\ run'[k].pc = run[k].pc
           /\ run[k].left \ run'[k].left \subseteq IF k = r.run THEN {r.order} ELSE {}
  PROVE  RequestsAreSound'
<1>1. ASSUME NEW q \in requests', q.run # NULL
      PROVE  q.to = "cancelled" /\ q.order \in run'[q.run].left /\ run'[q.run].pc = "loop"
  <2>1. /\ q \in OrderRequest /\ r \in OrderRequest /\ q # r /\ q.run \in Runs
        /\ q.to = "cancelled" /\ q.order \in run[q.run].left /\ run[q.run].pc = "loop"
    BY <1>1 DEF OrdersOK, OrdersTyped, OrderRequest, RequestsAreSound
  <2>2. q.run = r.run => r.to = "cancelled"
    BY <1>1 DEF OrdersOK, RequestsAreSound
  <2>3. q.run = r.run => q.order # r.order
    BY <2>1, <2>2 DEF OrderRequest
  <2> QED
    BY <2>1, <2>3
<1> QED
  BY <1>1 DEF RequestsAreSound

\* One more failure: what it leaves of the runs.
LEMMA AfterErrorRuns ==
  ASSUME OrdersOK, NEW l \in Runs, NEW o \in Orders, o \in run[l].left, AfterError(l, o)
  PROVE  /\ run' \in [Runs -> Run]
         /\ \A k \in Runs \ {l} : run'[k] = run[k]
         /\ run'[l].pc = run[l].pc /\ run'[l].orders = run[l].orders
         /\ run'[l].left = run[l].left \ {o} /\ run'[l].failed = run[l].failed \cup {o}
<1>1. run[l] \in Run /\ run \in [Runs -> Run]
  BY DEF OrdersOK, OrdersTyped
<1>2. [run[l] EXCEPT !.left = @ \ {o}, !.failed = @ \cup {o}] \in Run
  BY <1>1 DEF Run
<1>3. run' = [run EXCEPT ![l] = [run[l] EXCEPT !.left = @ \ {o}, !.failed = @ \cup {o}]]
  BY <1>1 DEF AfterError
<1> QED
  BY <1>1, <1>2, <1>3 DEF Run

\* The failure of a call whose request, if there is one, is no longer heard.
LEMMA AfterErrorStep ==
  ASSUME OrdersOK, NEW l \in Runs, NEW o \in Orders,
         run[l].pc = "loop", o \in run[l].left, AfterError(l, o),
         lost' \subseteq Orders, lost \subseteq lost',
         Finished(o) \/ o \in lost',
         UNCHANGED <<order, was, overwritten, selection, modal, report>>,
         requests' \subseteq OrderRequest,
         RequestsAreSound'
  PROVE  OrdersOK'
<1>1. OrdersTyped'
  BY AfterErrorRuns DEF OrdersOK, OrdersTyped
<1>2. RunsAreWellFormed'
  BY AfterErrorRuns DEF OrdersOK, RunsAreWellFormed
<1>3. Claims(l)' = Claims(l) /\ Failures(l)' = Failures(l) \cup {o}
  BY AfterErrorRuns DEF Claims, Done, Failures
<1>4. \A k \in Runs \ {l} : Claims(k)' = Claims(k) /\ Failures(k)' = Failures(k)
  BY AfterErrorRuns DEF Claims, Done, Failures
<1>5. Finished(o)' \/ o \in lost'
  BY DEF Finished
<1>6. RunsAreSound'
  BY <1>3, <1>4, <1>5, RowsPersist, RunsKeep
<1> QED
  BY <1>1, <1>2, <1>6 DEF OrdersOK

LEMMA WriteStep ==
  ASSUME OrdersOK, NEW r \in requests, Write(r) PROVE OrdersOK'
<1>1. /\ requests' = requests \ {r}
      /\ UNCHANGED <<selection, modal, report, lost>>
  BY DEF Write
<1>2. r.order \in Orders /\ r.run \in Runs \cup {NULL} /\ NULL \notin Runs
  BY PanelAssumption DEF OrdersOK, OrdersTyped, OrderRequest
<1>3. r.run \in Runs => r.to = "cancelled" /\ r.order \in run[r.run].left /\ run[r.run].pc = "loop"
  BY <1>2 DEF OrdersOK, RequestsAreSound
<1>4. CASE Refused(r)
  <2>1. UNCHANGED <<order, was, overwritten>>
    BY <1>4 DEF Write
  <2>2. requests' \subseteq OrderRequest /\ lost' \subseteq Orders
    BY <1>1 DEF OrdersOK, OrdersTyped
  <2>3. \A p \in Orders : order'[p] # "open" => order'[p] \in was'[p]
    BY <2>1 DEF OrdersOK, RequestsAreSound
  <2>4. CASE r.run = NULL
    <3>1. run' = run
      BY <1>4, <2>4 DEF Write
    <3>2. RequestsAreSound'
      BY <1>1, <2>3, <3>1, WriteRequests
    <3>3. \A k \in Runs : Claims(k)' = Claims(k) /\ Failures(k)' = Failures(k)
      BY <1>1, <3>1 DEF Claims, Done, Failures
    <3>4. RunsAreSound'
      BY <1>1, <2>1, <3>3, RowsPersist, RunsKeep
    <3> QED
      BY <1>1, <2>1, <2>2, <3>1, <3>2, <3>4 DEF OrdersOK, OrdersTyped, RunsAreWellFormed
  <2>5. CASE r.run \in Runs
    <3>1. PICK l \in Runs : l = r.run
      BY <2>5
    <3>2. PICK o \in Orders : o = r.order
      BY <1>2
    <3>3. AfterError(l, o) /\ o \in run[l].left /\ run[l].pc = "loop"
      BY <1>2, <1>3, <1>4, <3>1, <3>2 DEF Write
    <3>4. RequestsAreSound'
      BY <1>1, <2>3, <3>1, <3>2, <3>3, AfterErrorRuns, WriteRequests
    <3>5. Finished(o)
      BY <1>3, <1>4, <3>1, <3>2 DEF Refused, OrdersOK, RequestsAreSound, Finished
    <3> QED
      BY <1>1, <2>1, <2>2, <3>3, <3>4, <3>5, AfterErrorStep
  <2> QED
    BY <1>2, <2>4, <2>5
<1>5. CASE ~Refused(r)
  <2>1. OrdersTyped'
    BY <1>1, <1>5, WriteRows, WriteRuns DEF OrdersOK, OrdersTyped
  <2>2. \A k \in Runs : /\ run'[k].pc = run[k].pc /\ run'[k].orders = run[k].orders
                        /\ run'[k].left \subseteq run[k].left /\ run'[k].failed = run[k].failed
    BY <1>5, WriteRuns
  <2>3. RunsAreWellFormed'
    BY <2>2 DEF OrdersOK, RunsAreWellFormed
  <2>4. \A k \in Runs : /\ Failures(k)' = Failures(k)
                        /\ k # r.run => Claims(k)' = Claims(k)
                        /\ Claims(k)' \subseteq Claims(k) \cup {r.order}
    BY <1>1, <1>5, WriteRuns DEF Claims, Done, Failures
  <2>5. overwritten \subseteq overwritten'
    BY <1>5, WriteRows
  <2>6. ASSUME r.run \in Runs
        PROVE  /\ Cancelled(r.order)'
               /\ \A k \in Runs \ {r.run} : r.order \in Claims(k)' => r.order \in overwritten'
    <3>1. /\ order'[r.order] = "cancelled" /\ "cancelled" \in was'[r.order]
          /\ order[r.order] = "open"
      BY <1>3, <1>5, <2>6, WriteRows
    <3>2. \A k \in Runs : r.order \in Claims(k) => r.order \in overwritten
      BY <3>1 DEF OrdersOK, RunsAreSound, Cancelled
    <3> QED
      BY <2>4, <2>5, <3>1, <3>2 DEF Cancelled
  <2>7. RunsAreSound'
    BY <1>1, <1>5, <2>4, <2>5, <2>6, WritePersists, RunsKeep
  <2>8. \A p \in Orders : order'[p] # "open" => order'[p] \in was'[p]
    BY <1>5, WriteRows DEF OrdersOK, RequestsAreSound
  <2>9. \A k \in Runs : /\ run'[k].pc = run[k].pc
                        /\ run[k].left \ run'[k].left \subseteq IF k = r.run THEN {r.order} ELSE {}
    BY <1>5, WriteRuns
  <2>10. RequestsAreSound'
    BY <1>1, <2>8, <2>9, WriteRequests
  <2> QED
    BY <2>1, <2>3, <2>7, <2>10 DEF OrdersOK
<1> QED
  BY <1>4, <1>5

LEMMA CancelNextStep ==
  ASSUME OrdersOK, NEW l \in Runs, NEW o \in Orders, CancelNext(l, o) PROVE OrdersOK'
<1>1. /\ run[l].pc = "loop" /\ o \in run[l].left
      /\ \A r \in requests : r.run # l
      /\ UNCHANGED <<order, was, overwritten, selection, modal, report, lost>>
  BY DEF CancelNext
<1>2. CASE order[o] # "open"
  <2>1. AfterError(l, o) /\ UNCHANGED requests
    BY <1>2 DEF CancelNext
  <2>2. Finished(o)
    BY <1>2 DEF OrdersOK, RequestsAreSound, Finished
  <2>3. \A r \in requests : r.run # NULL => r.run \in Runs \ {l}
    BY <1>1 DEF OrdersOK, OrdersTyped, OrderRequest
  <2>4. RequestsAreSound'
    BY <1>1, <2>1, <2>3, AfterErrorRuns DEF OrdersOK, RequestsAreSound
  <2>5. lost' \subseteq Orders /\ lost \subseteq lost' /\ requests' \subseteq OrderRequest
    BY <1>1, <2>1 DEF OrdersOK, OrdersTyped
  <2> QED
    BY <1>1, <2>1, <2>2, <2>4, <2>5, AfterErrorStep
<1>3. CASE order[o] = "open"
  <2>1. Load(Request(o, "cancelled", l)) /\ UNCHANGED <<order, was, overwritten, ordersPage>>
    BY <1>1, <1>3 DEF CancelNext, ordersPage
  <2>2. "cancelled" \in OrderStatuses /\ l \in Runs \cup {NULL}
    BY DEF OrderStatuses
  <2> QED
    BY <1>1, <2>1, <2>2, LoadStep
<1> QED
  BY <1>2, <1>3

LEMMA CancelLostStep ==
  ASSUME OrdersOK, NEW l \in Runs, NEW o \in Orders, NEW alive \in BOOLEAN, CancelLost(l, o, alive)
  PROVE  OrdersOK'
<1> DEFINE new == Request(o, "cancelled", NULL)
<1>1. /\ run[l].pc = "loop" /\ o \in run[l].left /\ AfterError(l, o)
      /\ lost' = lost \cup {o}
      /\ UNCHANGED <<order, was, overwritten, selection, modal, report>>
      /\ \A r \in requests : r.run = l => r.order = o
  BY DEF CancelLost
<1>2. /\ new \in OrderRequest
      /\ new.order = o /\ new.run = NULL
  BY DEF Request, OrderRequest, OrderStatuses
<1>3. ASSUME NEW q \in requests'
      PROVE  \/ q \in requests /\ q.run # l
             \/ q = new /\ \E r \in requests : r.run = l
  BY DEF CancelLost
<1> HIDE DEF new
<1>4. requests' \subseteq OrderRequest
  BY <1>2, <1>3 DEF OrdersOK, OrdersTyped
<1>5. ASSUME NEW q \in requests', q.run # NULL
      PROVE  q.to = "cancelled" /\ q.order \in run'[q.run].left /\ run'[q.run].pc = "loop"
  <2>1. q \in requests /\ q.run # l
    BY <1>2, <1>3, <1>5
  <2>2. q.run \in Runs \ {l}
    BY <1>5, <2>1 DEF OrdersOK, OrdersTyped, OrderRequest
  <2> QED
    BY <1>1, <1>5, <2>1, <2>2, AfterErrorRuns DEF OrdersOK, RequestsAreSound
<1>6. RequestsAreSound'
  BY <1>1, <1>5 DEF OrdersOK, RequestsAreSound
<1>7. lost' \subseteq Orders /\ lost \subseteq lost' /\ o \in lost'
  BY <1>1 DEF OrdersOK, OrdersTyped
<1> QED
  BY <1>1, <1>4, <1>6, <1>7, AfterErrorStep

LEMMA ReportStep ==
  ASSUME OrdersOK, NEW l \in Runs, Report(l) PROVE OrdersOK'
<1> DEFINE new == [cancelled |-> run[l].orders \ run[l].failed, failed |-> run[l].failed]
<1>0. /\ run[l] \in Run /\ run[l].left = {}
      /\ report' = [report EXCEPT ![l] = new]
      /\ UNCHANGED <<order, was, requests, overwritten, lost>>
  BY DEF Report, rows, orderRows, OrdersOK, OrdersTyped
<1>1. new \in [cancelled : SUBSET Orders, failed : SUBSET Orders]
  BY <1>0 DEF Run
<1>2. report' \in [Runs -> [cancelled : SUBSET Orders, failed : SUBSET Orders]] /\ report'[l] = new
  BY <1>0, <1>1 DEF OrdersOK, OrdersTyped
<1>3. selection' \subseteq Orders /\ modal' \in BOOLEAN
  BY DEF Report, SelectOnly, OrdersOK, OrdersTyped
<1>4. NoRun \in Run
  BY DEF NoRun, Run
<1>5. /\ run' \in [Runs -> Run] /\ run'[l] = NoRun
      /\ \A k \in Runs \ {l} : /\ run'[k].pc = run[k].pc /\ run'[k].orders = run[k].orders
                               /\ run'[k].left = run[k].left /\ run'[k].failed = run[k].failed
  <2>1. CASE run[l].home
    BY <2>1, <1>4, WithoutBarType DEF Report
  <2>2. CASE ~run[l].home
    BY <2>2, <1>4 DEF Report, OrdersOK, OrdersTyped
  <2> QED
    BY <2>1, <2>2
<1>6. Claims(l)' \subseteq Claims(l) /\ Failures(l)' \subseteq Failures(l)
  BY <1>0, <1>2, <1>5 DEF Claims, Done, Failures, NoRun
<1>7. \A k \in Runs \ {l} : report'[k] = report[k]
  BY <1>0 DEF OrdersOK, OrdersTyped
<1>8. \A k \in Runs \ {l} : Claims(k)' = Claims(k) /\ Failures(k)' = Failures(k)
  BY <1>5, <1>7 DEF Claims, Done, Failures
<1>9. run'[l].pc = "idle" /\ run'[l].left = {} /\ run'[l].orders = {} /\ run'[l].failed = {}
  BY <1>5 DEF NoRun
<1> HIDE DEF new
<1>10. OrdersTyped'
  BY <1>0, <1>2, <1>3, <1>5 DEF OrdersOK, OrdersTyped
<1>11. RunsAreWellFormed'
  BY <1>5, <1>9 DEF OrdersOK, RunsAreWellFormed
<1>12. RunsAreSound'
  BY <1>0, <1>6, <1>8, RowsPersist, RunsKeep
<1>13. \A r \in requests : r.run # NULL => r.run \in Runs \ {l}
  BY <1>0 DEF OrdersOK, OrdersTyped, OrderRequest, RequestsAreSound
<1>14. RequestsAreSound'
  BY <1>0, <1>5, <1>13 DEF OrdersOK, RequestsAreSound
<1> QED
  BY <1>10, <1>11, <1>12, <1>14 DEF OrdersOK

LEMMA RemountStep ==
  ASSUME OrdersOK, Remount PROVE OrdersOK'
<1>1. run' = [l \in Runs |-> [run[l] EXCEPT !.bar = FALSE, !.home = FALSE]]
  BY DEF Remount
<1>2. selection' \subseteq Orders /\ modal' \in BOOLEAN /\ UNCHANGED <<orderRows, report, lost>>
  BY DEF Remount, SelectOnly, rows
<1>3. ASSUME NEW l \in Runs
      PROVE  [run[l] EXCEPT !.bar = FALSE, !.home = FALSE] \in Run
  <2>1. run[l] \in Run
    BY DEF OrdersOK, OrdersTyped
  <2> QED
    BY <2>1 DEF Run
<1>4. run' \in [Runs -> Run]
  BY <1>1, <1>3
<1>5. \A l \in Runs : /\ run'[l].pc = run[l].pc /\ run'[l].orders = run[l].orders
                      /\ run'[l].left = run[l].left /\ run'[l].failed = run[l].failed
  BY <1>1 DEF Run, OrdersOK, OrdersTyped
<1> QED
  BY <1>2, <1>4, <1>5, FlagsOnly

\* The scripts end, the server's part of their requests does not.
LEMMA SessionEndsOrders ==
  ASSUME OrdersOK, SessionEnds PROVE OrdersOK'
<1>1. /\ run' = [l \in Runs |-> NoRun] /\ report' = [l \in Runs |-> NoReport]
      /\ selection' \subseteq Orders /\ modal' \in BOOLEAN
      /\ UNCHANGED <<order, was, overwritten, lost>>
      /\ requests' = {[r EXCEPT !.run = NULL] : r \in requests}
  BY DEF SessionEnds, SelectOnly, rows
<1>2. NoRun \in Run /\ NoReport \in [cancelled : SUBSET Orders, failed : SUBSET Orders]
  BY DEF NoRun, NoReport, Run
<1>3. \A l \in Runs : /\ Claims(l)' = {} /\ Failures(l)' = {} /\ run'[l].left = {}
                      /\ run'[l].orders = {} /\ run'[l].failed = {}
  BY <1>1 DEF Claims, Done, Failures, NoRun, NoReport
<1>4. ASSUME NEW q \in requests'
      PROVE  \E r \in requests : /\ q = [r EXCEPT !.run = NULL] /\ q \in OrderRequest
                                 /\ q.order = r.order /\ q.run = NULL
  <2>1. PICK r \in requests : q = [r EXCEPT !.run = NULL]
    BY <1>1
  <2>2. r \in OrderRequest
    BY DEF OrdersOK, OrdersTyped
  <2> QED
    BY <2>1, <2>2 DEF OrderRequest
<1>5. OrdersTyped'
  BY <1>1, <1>2, <1>4 DEF OrdersOK, OrdersTyped
<1>6. RunsAreWellFormed' /\ RunsAreSound'
  BY <1>3 DEF RunsAreWellFormed, RunsAreSound
<1>7. RequestsAreSound'
  BY <1>1, <1>4 DEF OrdersOK, RequestsAreSound
<1> QED
  BY <1>5, <1>6, <1>7 DEF OrdersOK

-----------------------------------------------------------------------------
(* The couriers page *)

LEMMA ClosedIs == Closed \in Drawer /\ Closed.form = NULL
BY DEF Closed, Drawer

\* Filling keeps the form equal to the record, whatever was in it.
LEMMA FilledIs ==
  ASSUME NEW d \in Drawer
  PROVE  /\ Filled(d) \in Drawer
         /\ Filled(d).form # NULL => Filled(d).form = Filled(d).shown
BY DEF Filled, Drawer

\* A step of the drawer alone.
LEMMA DrawerStep ==
  ASSUME CouriersOK, UNCHANGED <<courier, calls>>, drawer' \in Drawer,
         drawer'.form # NULL => drawer'.form = drawer'.shown
  PROVE  CouriersOK'
BY DEF CouriersOK, PickedIsNotSaved

LEMMA OpenDrawerStep ==
  ASSUME CouriersOK, NEW c \in Couriers, NEW mode \in {"view", "edit"},
         NEW shown \in Availability \cup {NULL}, OpenDrawer(c, mode, shown)
  PROVE  CouriersOK'
<1> DEFINE d == [Closed EXCEPT !.courier = c, !.mode = mode, !.shown = shown, !.fetching = TRUE]
<1>1. d \in Drawer
  BY DEF Closed, Drawer
<1>2. drawer' = Filled(d) /\ UNCHANGED <<courier, calls>>
  BY DEF OpenDrawer, DrawerOnly, rows
<1> HIDE DEF d
<1> QED
  BY <1>1, <1>2, FilledIs, DrawerStep

LEMMA FetchedStep ==
  ASSUME CouriersOK, Fetched PROVE CouriersOK'
<1> DEFINE d == [drawer EXCEPT !.shown = courier[drawer.courier], !.fetching = FALSE]
<1>1. courier[drawer.courier] \in Availability
  BY DEF Fetched, Opened, CouriersOK, Drawer
<1>2. d \in Drawer
  BY <1>1 DEF CouriersOK, Drawer
<1>3. drawer' = Filled(d) /\ UNCHANGED <<courier, calls>>
  BY DEF Fetched, DrawerOnly, rows
<1> HIDE DEF d
<1> QED
  BY <1>2, <1>3, FilledIs, DrawerStep

LEMMA SwitchModeStep ==
  ASSUME CouriersOK, SwitchMode PROVE CouriersOK'
<1> DEFINE d == [drawer EXCEPT !.mode = IF @ = "edit" THEN "view" ELSE "edit", !.touched = FALSE]
<1>1. d \in Drawer
  BY DEF CouriersOK, Drawer
<1>2. drawer' = Filled(d) /\ UNCHANGED <<courier, calls>>
  BY DEF SwitchMode, DrawerOnly, rows
<1> HIDE DEF d
<1> QED
  BY <1>1, <1>2, FilledIs, DrawerStep

LEMMA EditFieldStep ==
  ASSUME CouriersOK, EditField PROVE CouriersOK'
<1>1. /\ drawer' \in Drawer /\ drawer'.form = drawer.form /\ drawer'.shown = drawer.shown
      /\ UNCHANGED <<courier, calls>>
  BY DEF EditField, DrawerOnly, rows, CouriersOK, Drawer
<1> QED
  BY <1>1, DrawerStep DEF CouriersOK, PickedIsNotSaved

LEMMA PickStatusStep ==
  ASSUME CouriersOK, NEW status \in Availability, PickStatus(status) PROVE CouriersOK'
<1>1. /\ drawer' \in Drawer
      /\ drawer'.form = IF status # drawer.shown THEN drawer.shown ELSE status
      /\ drawer'.shown = drawer.shown
      /\ UNCHANGED <<courier, calls>>
  BY DEF PickStatus, AfterPick, DrawerOnly, rows, CouriersOK, Drawer
<1> QED
  BY <1>1, DrawerStep

\* Calls that go unheard are still calls.
LEMMA UnheardIs ==
  ASSUME NEW call \in PatchCall, NEW heard \in BOOLEAN
  PROVE  [call EXCEPT !.heard = heard] \in PatchCall
BY DEF PatchCall

LEMMA LeavePickStep ==
  ASSUME CouriersOK, LeavePick PROVE CouriersOK'
<1>1. /\ drawer' \in Drawer /\ drawer'.form = drawer.form /\ drawer'.shown = drawer.shown
  BY DEF LeavePick, CouriersOK, Drawer
<1>2. \A call \in calls : (call.heard /\ call.kind # "status") \in BOOLEAN
  OBVIOUS
<1>3. calls' \subseteq PatchCall
  BY <1>2, UnheardIs DEF LeavePick, CouriersOK
<1> QED
  BY <1>1, <1>3 DEF LeavePick, CouriersOK, PickedIsNotSaved, rows

LEMMA CallStep ==
  ASSUME CouriersOK, NEW kind \in {"save", "status"}, NEW status \in Availability,
         drawer.courier # NULL, Call(kind, status)
  PROVE  CouriersOK'
<1>1. [kind |-> kind, courier |-> drawer.courier, status |-> status, heard |-> TRUE] \in PatchCall
  BY DEF PatchCall, CouriersOK, Drawer
<1> QED
  BY <1>1 DEF Call, CouriersOK, PickedIsNotSaved, rows

LEMMA ConfirmStatusStep ==
  ASSUME CouriersOK, ConfirmStatus PROVE CouriersOK'
<1>1. drawer.pick \in Availability
  BY DEF ConfirmStatus, CouriersOK, Drawer
<1> QED
  BY <1>1, CallStep DEF ConfirmStatus, Opened

LEMMA SaveStep ==
  ASSUME CouriersOK, Save PROVE CouriersOK'
<1>1. drawer.form \in Availability
  BY DEF Save, CouriersOK, Drawer
<1> QED
  BY <1>1, CallStep DEF Save, Front, Opened

LEMMA PatchedStep ==
  ASSUME CouriersOK, NEW call \in calls, Patched(call) PROVE CouriersOK'
<1>1. courier' \in [Couriers -> Availability] /\ calls' \subseteq PatchCall
  BY DEF Patched, CouriersOK, PatchCall
<1>2. drawer' \in Drawer /\ (drawer'.form # NULL => drawer'.form = drawer'.shown)
  <2>1. CASE ~call.heard \/ ~Opened
    BY <2>1 DEF Patched, AfterCall, CouriersOK, PickedIsNotSaved
  <2>2. CASE call.heard /\ Opened /\ call.kind = "save"
    <3> DEFINE d == [drawer EXCEPT !.mode = "view", !.touched = FALSE, !.fetching = TRUE]
    <3>1. d \in Drawer
      BY DEF CouriersOK, Drawer
    <3>2. drawer' = Filled(d)
      BY <2>2 DEF Patched, AfterCall
    <3> HIDE DEF d
    <3> QED
      BY <3>1, <3>2, FilledIs
  <2>3. CASE call.heard /\ Opened /\ call.kind # "save"
    BY <2>3 DEF Patched, AfterCall, CouriersOK, Drawer, PickedIsNotSaved
  <2> QED
    BY <2>1, <2>2, <2>3
<1> QED
  BY <1>1, <1>2 DEF CouriersOK, PickedIsNotSaved

LEMMA PatchLostStep ==
  ASSUME CouriersOK, NEW call \in calls, NEW done \in BOOLEAN, PatchLost(call, done)
  PROVE  CouriersOK'
<1>1. courier' \in [Couriers -> Availability] /\ calls' \subseteq PatchCall
  BY DEF PatchLost, CouriersOK, PatchCall
<1> QED
  BY <1>1 DEF PatchLost, CouriersOK, PickedIsNotSaved

LEMMA CloseDrawerStep ==
  ASSUME CouriersOK, CloseDrawer PROVE CouriersOK'
<1>1. UNCHANGED <<courier, calls>>
  BY DEF CloseDrawer, DrawerOnly, rows
<1>2. CASE drawer' = Closed
  BY <1>1, <1>2, ClosedIs, DrawerStep
<1>3. CASE drawer' = [drawer EXCEPT !.asking = TRUE]
  BY <1>1, <1>3, DrawerStep DEF CouriersOK, Drawer, PickedIsNotSaved
<1> QED
  BY <1>2, <1>3 DEF CloseDrawer

LEMMA AnswerDiscardStep ==
  ASSUME CouriersOK, NEW discard \in BOOLEAN, AnswerDiscard(discard) PROVE CouriersOK'
<1>1. UNCHANGED <<courier, calls>>
  BY DEF AnswerDiscard, DrawerOnly, rows
<1>2. CASE drawer' = Closed
  BY <1>1, <1>2, ClosedIs, DrawerStep
<1>3. CASE drawer' = [drawer EXCEPT !.asking = FALSE]
  BY <1>1, <1>3, DrawerStep DEF CouriersOK, Drawer, PickedIsNotSaved
<1> QED
  BY <1>2, <1>3 DEF AnswerDiscard

LEMMA RemountCouriers ==
  ASSUME CouriersOK, Remount PROVE CouriersOK'
<1>1. calls' \subseteq PatchCall
  BY UnheardIs DEF Remount, CouriersOK
<1> QED
  BY <1>1 DEF Remount, rows, CouriersOK, PickedIsNotSaved

LEMMA SessionEndsCouriers ==
  ASSUME CouriersOK, SessionEnds PROVE CouriersOK'
<1>1. calls' \subseteq PatchCall
  BY UnheardIs DEF SessionEnds, CouriersOK
<1> QED
  BY <1>1, ClosedIs DEF SessionEnds, rows, CouriersOK, PickedIsNotSaved

LEMMA ShiftChangesStep ==
  ASSUME CouriersOK, NEW c \in Couriers, ShiftChanges(c) PROVE CouriersOK'
BY DEF ShiftChanges, couriersPage, CouriersOK, PickedIsNotSaved

-----------------------------------------------------------------------------
(* The accounts *)

StaffRequest == [pc : {"idle", "insert", "save", "delete", "ok", "refused"},
                 account : Accounts \cup {0}, email : Emails \cup {NULL}]

\* What a request in its slot promises.
Promised(x, m) ==
  /\ x.pc = "insert" => x.email \in Emails
  /\ x.pc \in {"save", "delete"} => x.account \in Accounts /\ x.account <= m
  /\ x.pc = "delete" => x.account # Owner

\* A step of one request that leaves the accounts alone.
LEMMA RequestOnly ==
  ASSUME StaffInv, NEW q \in UserRequests, NEW x \in StaffRequest, Promised(x, made),
         staffReq' = [staffReq EXCEPT ![q] = x], UNCHANGED <<email, made, removed>>
  PROVE  StaffInv'
<1>1. staffReq' \in [UserRequests -> StaffRequest]
  BY DEF StaffInv, StaffTypeOK, StaffRequest
<1>2. StaffTypeOK' /\ AccountsAreSound'
  BY <1>1 DEF StaffInv, StaffTypeOK, StaffRequest, AccountsAreSound
<1>3. \A p \in UserRequests : staffReq'[p] = IF p = q THEN x ELSE staffReq[p]
  BY DEF StaffInv, StaffTypeOK
<1>4. \A p \in UserRequests : Promised(staffReq'[p], made)
  BY <1>3 DEF StaffInv, Promised
<1> QED
  BY <1>2, <1>4 DEF StaffInv, Promised

\* The answer keeps what the request is about.
LEMMA AnswerIs ==
  ASSUME StaffInv, NEW q \in UserRequests, NEW pc \in {"ok", "refused"}, AnswerWith(q, pc)
  PROVE  /\ staffReq' \in [UserRequests -> StaffRequest]
         /\ \A p \in UserRequests : Promised(staffReq'[p], made)
<1> DEFINE x == [staffReq[q] EXCEPT !.pc = pc]
<1>1. staffReq[q] \in StaffRequest
  BY DEF StaffInv, StaffTypeOK, StaffRequest
<1>2. x \in StaffRequest /\ x.pc = pc
  BY <1>1 DEF StaffRequest
<1>3. staffReq' = [staffReq EXCEPT ![q] = x]
  BY DEF AnswerWith
<1> HIDE DEF x
<1>4. \A p \in UserRequests : staffReq'[p] = IF p = q THEN x ELSE staffReq[p]
  BY <1>3 DEF StaffInv, StaffTypeOK
<1>5. Promised(x, made)
  BY <1>2 DEF Promised
<1> QED
  BY <1>2, <1>3, <1>4, <1>5 DEF StaffInv, StaffTypeOK, StaffRequest, Promised

LEMMA OwnerIs == Owner \in Accounts /\ 0 \notin Accounts
BY StaffAssumption DEF Owner, Accounts

LEMMA BeginStep ==
  ASSUME StaffInv, NEW q \in UserRequests,
         NEW pc \in {"insert", "save", "delete", "refused"},
         NEW a \in Accounts \cup {0}, NEW e \in Emails \cup {NULL},
         Promised([pc |-> pc, account |-> a, email |-> e], made), Begin(q, pc, a, e)
  PROVE  StaffInv'
<1> DEFINE x == [pc |-> pc, account |-> a, email |-> e]
<1>1. x \in StaffRequest
  BY DEF StaffRequest
<1>2. staffReq' = [staffReq EXCEPT ![q] = x] /\ UNCHANGED <<email, made, removed>>
  BY DEF Begin
<1> HIDE DEF x
<1>3. Promised(x, made)
  BY DEF x
<1> QED
  BY <1>1, <1>2, <1>3, RequestOnly

LEMMA CreateFindStep ==
  ASSUME StaffInv, NEW q \in UserRequests, NEW e \in Emails, CreateFind(q, e) PROVE StaffInv'
BY BeginStep DEF CreateFind, Promised

LEMMA UpdateFindStep ==
  ASSUME StaffInv, NEW q \in UserRequests, NEW a \in Accounts, UpdateFind(q, a) PROVE StaffInv'
<1>1. email[a] \in Emails \cup {NULL} /\ (email[a] # NULL => a <= made)
  BY DEF StaffInv, StaffTypeOK
<1> QED
  BY <1>1, BeginStep DEF UpdateFind, Promised

LEMMA RemoveFindStep ==
  ASSUME StaffInv, NEW q \in UserRequests, NEW a \in Accounts, RemoveFind(q, a, Owner)
  PROVE  StaffInv'
<1>1. email[a] # NULL => a <= made
  BY DEF StaffInv
<1> QED
  BY <1>1, BeginStep DEF RemoveFind, Promised

LEMMA FinishStep ==
  ASSUME StaffInv, NEW q \in UserRequests, Finish(q) PROVE StaffInv'
<1>1. NoRequest \in StaffRequest /\ Promised(NoRequest, made)
  BY DEF NoRequest, StaffRequest, Promised
<1> QED
  BY <1>1, RequestOnly DEF Finish

LEMMA UpdateSaveStep ==
  ASSUME StaffInv, NEW q \in UserRequests, UpdateSave(q) PROVE StaffInv'
<1>1. PICK pc \in {"ok", "refused"} : AnswerWith(q, pc)
  BY DEF UpdateSave, RowThatHasGone
<1>2. UNCHANGED <<email, made, removed>>
  BY DEF UpdateSave, RowThatHasGone
<1> QED
  BY <1>1, <1>2, AnswerIs DEF StaffInv, StaffTypeOK, StaffRequest, AccountsAreSound, Promised

LEMMA CreateInsertStep ==
  ASSUME StaffInv, NEW q \in UserRequests, CreateInsert(q) PROVE StaffInv'
<1>1. CASE InUse(staffReq[q].email)
  <2>1. AnswerWith(q, "refused") /\ UNCHANGED <<email, made, removed>>
    BY <1>1 DEF CreateInsert, UniqueViolation
  <2> QED
    BY <2>1, AnswerIs DEF StaffInv, StaffTypeOK, StaffRequest, AccountsAreSound, Promised
<1>2. CASE ~InUse(staffReq[q].email)
  <2>1. /\ staffReq[q].email \in Emails /\ made < MaxAccounts /\ made' = made + 1
        /\ email' = [email EXCEPT ![made + 1] = staffReq[q].email]
        /\ AnswerWith(q, "ok") /\ removed' = removed
    BY <1>2 DEF CreateInsert, UniqueViolation, StaffInv
  <2>2. made + 1 \in Accounts /\ made \in Accounts
    BY <2>1, StaffAssumption DEF Accounts, StaffInv, StaffTypeOK
  <2>3. /\ email' \in [Accounts -> Emails \cup {NULL}]
        /\ email'[made + 1] = staffReq[q].email
        /\ \A a \in Accounts : a # made + 1 => email'[a] = email[a]
    BY <2>1, <2>2 DEF StaffInv, StaffTypeOK
  <2>4. StaffTypeOK'
    BY <2>1, <2>2, <2>3, AnswerIs DEF StaffInv, StaffTypeOK, StaffRequest
  <2>5. \A a \in Accounts : email[a] # NULL \/ a \in removed => a <= made
    BY DEF StaffInv
  <2>6. made + 1 \notin removed /\ Owner # made + 1
    BY <2>2, <2>5, OwnerIs DEF StaffInv, AccountsAreSound, Accounts, Owner
  <2>7. \A a \in Accounts : email[a] # staffReq[q].email
    BY <1>2 DEF InUse
  <2>8. AccountsAreSound'
    BY <2>1, <2>3, <2>6, <2>7, OwnerIs DEF StaffInv, AccountsAreSound, StaffTypeOK
  <2>9. \A a \in Accounts : email'[a] # NULL \/ a \in removed' => a <= made'
    <3> SUFFICES ASSUME NEW a \in Accounts, email'[a] # NULL \/ a \in removed'
                 PROVE  a <= made'
      OBVIOUS
    <3>1. CASE a = made + 1
      BY <2>1, <2>2, <3>1 DEF Accounts
    <3>2. CASE a # made + 1
      <4>1. a <= made
        BY <2>1, <2>3, <2>5, <3>2
      <4> QED
        BY <2>1, <2>2, <4>1 DEF Accounts
    <3> QED
      BY <3>1, <3>2
  <2>10. made <= made' /\ made \in Nat /\ made' \in Nat
    BY <2>1, <2>2 DEF Accounts
  <2>11. \A p \in UserRequests : Promised(staffReq'[p], made')
    <3> SUFFICES ASSUME NEW p \in UserRequests PROVE Promised(staffReq'[p], made')
      OBVIOUS
    <3>1. Promised(staffReq'[p], made)
      BY <2>1, AnswerIs
    <3> QED
      BY <2>10, <3>1 DEF Promised, Accounts
  <2> QED
    BY <2>1, <2>4, <2>6, <2>8, <2>9, <2>11 DEF StaffInv, Promised
<1> QED
  BY <1>1, <1>2

LEMMA RemoveDeleteStep ==
  ASSUME StaffInv, NEW q \in UserRequests, RemoveDelete(q) PROVE StaffInv'
<1>1. PICK a \in Accounts : a = staffReq[q].account /\ a # Owner /\ a <= made
  BY DEF RemoveDelete, StaffInv
<1>2. /\ email' = [email EXCEPT ![a] = NULL] /\ removed' = removed \cup {a}
      /\ AnswerWith(q, "ok") /\ made' = made
  BY <1>1 DEF RemoveDelete
<1>3. /\ email' \in [Accounts -> Emails \cup {NULL}]
      /\ email'[a] = NULL
      /\ \A b \in Accounts : b # a => email'[b] = email[b]
  BY <1>2 DEF StaffInv, StaffTypeOK
<1>4. StaffTypeOK'
  BY <1>2, <1>3, AnswerIs DEF StaffInv, StaffTypeOK, StaffRequest
<1>5. AccountsAreSound'
  BY <1>1, <1>2, <1>3, OwnerIs DEF StaffInv, AccountsAreSound
<1>6. \A b \in Accounts : email'[b] # NULL \/ b \in removed' => b <= made'
  BY <1>1, <1>2, <1>3 DEF StaffInv
<1> QED
  BY <1>1, <1>2, <1>4, <1>5, <1>6, AnswerIs DEF StaffInv, Promised

-----------------------------------------------------------------------------
(* Every step *)

LEMMA OrdersPageStep ==
  ASSUME OrdersOK, OrdersPage PROVE OrdersOK'
<1>1. CASE \E o \in Orders : ToggleRow(o)
  BY <1>1, ToggleRowStep
<1>2. CASE \E o \in Orders : CancelOne(o)
  <2>1. PICK o \in Orders : CancelOne(o)
    BY <1>2
  <2>2. "cancelled" \in OrderStatuses
    BY DEF OrderStatuses
  <2> QED
    BY <2>1, <2>2, LoadStep DEF CancelOne
<1>3. CASE ClearSelection
  BY <1>3, ClearSelectionStep
<1>4. CASE ToggleModal
  BY <1>4, ToggleModalStep
<1>5. CASE \E l \in Runs : ConfirmBulk(l)
  BY <1>5, ConfirmBulkStep
<1>6. CASE \E l \in Runs : Report(l)
  BY <1>6, ReportStep
<1>7. CASE \E l \in Runs, o \in Orders : CancelNext(l, o)
  BY <1>7, CancelNextStep
<1>8. CASE \E l \in Runs, o \in Orders, alive \in BOOLEAN : CancelLost(l, o, alive)
  BY <1>8, CancelLostStep
<1>9. CASE \E r \in requests : Write(r)
  BY <1>9, WriteStep
<1>10. CASE \E o \in Orders, to \in OrderStatuses : OrderElsewhere(o, to)
  <2>1. PICK o \in Orders, to \in OrderStatuses : OrderElsewhere(o, to)
    BY <1>10
  <2> QED
    BY <2>1, LoadStep DEF OrderElsewhere
<1> QED
  BY <1>1, <1>2, <1>3, <1>4, <1>5, <1>6, <1>7, <1>8, <1>9, <1>10 DEF OrdersPage, Advance

LEMMA OrdersPageElsewhere ==
  ASSUME OrdersPage
  PROVE  /\ UNCHANGED <<courier, page, couriersPage, usersPage>>
         /\ \/ UNCHANGED <<events, troubles>>
            \/ UNCHANGED events /\ Trouble
            \/ UNCHANGED troubles /\ events < MaxEvents /\ events' = events + 1
BY DEF OrdersPage, Advance, ToggleRow, CancelOne, ClearSelection, ToggleModal, ConfirmBulk, Report,
       CancelNext, CancelLost, Write, OrderElsewhere, rows

LEMMA CouriersPageStep ==
  ASSUME CouriersOK, CouriersPage PROVE CouriersOK'
<1>1. CASE \E c \in Couriers, mode \in {"view", "edit"}, shown \in Availability \cup {NULL} :
             OpenDrawer(c, mode, shown)
  BY <1>1, OpenDrawerStep
<1>2. CASE Fetched
  BY <1>2, FetchedStep
<1>3. CASE SwitchMode
  BY <1>3, SwitchModeStep
<1>4. CASE EditField
  BY <1>4, EditFieldStep
<1>5. CASE \E status \in Availability : PickStatus(status)
  BY <1>5, PickStatusStep
<1>6. CASE LeavePick
  BY <1>6, LeavePickStep
<1>7. CASE ConfirmStatus
  BY <1>7, ConfirmStatusStep
<1>8. CASE Save
  BY <1>8, SaveStep
<1>9. CASE \E call \in calls : Patched(call)
  BY <1>9, PatchedStep
<1>10. CASE \E call \in calls, done \in BOOLEAN : PatchLost(call, done)
  BY <1>10, PatchLostStep
<1>11. CASE CloseDrawer
  BY <1>11, CloseDrawerStep
<1>12. CASE \E discard \in BOOLEAN : AnswerDiscard(discard)
  BY <1>12, AnswerDiscardStep
<1> QED
  BY <1>1, <1>2, <1>3, <1>4, <1>5, <1>6, <1>7, <1>8, <1>9, <1>10, <1>11, <1>12 DEF CouriersPage

LEMMA CouriersPageElsewhere ==
  ASSUME CouriersPage
  PROVE  UNCHANGED <<orderRows, page, ordersPage, usersPage, events>> /\ (UNCHANGED troubles \/ Trouble)
BY DEF CouriersPage, OpenDrawer, Fetched, SwitchMode, EditField, PickStatus, LeavePick,
       ConfirmStatus, Save, Call, Patched, PatchLost, CloseDrawer, AnswerDiscard, DrawerOnly, rows

LEMMA SubmitStep ==
  ASSUME UsersOK, Submit PROVE UsersOK'
<1>1. Mine \in UserRequests
  BY PanelAssumption
<1>2. StaffInv'
  BY <1>1, CreateFindStep, UpdateFindStep, RemoveFindStep DEF Submit, UsersOK
<1> QED
  BY <1>2 DEF Submit, UsersOK

LEMMA AnsweredStep ==
  ASSUME UsersOK, Answered PROVE UsersOK'
<1>1. StaffInv'
  BY PanelAssumption, FinishStep DEF Answered, UsersOK
<1> QED
  BY <1>1 DEF Answered, UsersOK

LEMMA StaffElsewhereStep ==
  ASSUME UsersOK, StaffElsewhere PROVE UsersOK'
<1>1. CASE \E q \in UserRequests : Serve(q)
  BY <1>1, CreateInsertStep, UpdateSaveStep, RemoveDeleteStep DEF Serve, StaffElsewhere, UsersOK
<1>2. CASE \E q \in UserRequests \ {Mine} : Ask(q)
  BY <1>2, CreateFindStep, UpdateFindStep, RemoveFindStep DEF Ask, StaffElsewhere, UsersOK
<1>3. CASE \E q \in UserRequests \ {Mine} : Finish(q)
  BY <1>3, FinishStep DEF StaffElsewhere, UsersOK
<1> QED
  BY <1>1, <1>2, <1>3 DEF StaffElsewhere

LEMMA InitIsSound == Init => IInv
<1> SUFFICES ASSUME Init PROVE IInv
  OBVIOUS
<1>1. OrdersOK
  <2>1. NoRun \in Run /\ NoReport \in [cancelled : SUBSET Orders, failed : SUBSET Orders]
    BY DEF NoRun, NoReport, Run
  <2>2. \A l \in Runs : /\ Claims(l) = {} /\ run[l].left = {} /\ run[l].orders = {}
                        /\ run[l].failed = {} /\ Failures(l) = {}
    BY DEF Init, Claims, Done, Failures, NoRun, NoReport
  <2>3. RunsAreWellFormed /\ RunsAreSound
    BY <2>2 DEF RunsAreWellFormed, RunsAreSound
  <2>4. RequestsAreSound
    BY DEF Init, RequestsAreSound
  <2>5. OrdersTyped
    BY <2>1 DEF Init, OrdersTyped, OrderStatuses
  <2> QED
    BY <2>3, <2>4, <2>5 DEF OrdersOK
<1>2. CouriersOK
  BY ClosedIs DEF Init, CouriersOK, PickedIsNotSaved, Availability
<1>3. UsersOK
  <2>1. StaffTypeOK
    BY StaffAssumption, OwnerIs DEF Init, StaffInit, StaffTypeOK, NoRequest, Accounts
  <2>2. AccountsAreSound
    BY StaffAssumption, OwnerIs DEF Init, StaffInit, AccountsAreSound
  <2>3. \A a \in Accounts : email[a] # NULL \/ a \in removed => a <= made
    BY OwnerIs DEF Init, StaffInit, Owner
  <2> QED
    BY <2>1, <2>2, <2>3 DEF Init, StaffInit, UsersOK, StaffInv, NoRequest
<1>4. RestOK
  BY PanelAssumption DEF Init, RestOK
<1> QED
  BY <1>1, <1>2, <1>3, <1>4, Parts

LEMMA NextIsSound == IInv /\ [Next]_vars => IInv'
<1> SUFFICES ASSUME OrdersOK, CouriersOK, UsersOK, RestOK, [Next]_vars
             PROVE  OrdersOK' /\ CouriersOK' /\ UsersOK' /\ RestOK'
  BY Parts, PartsNext
<1>1. CASE OrdersPage
  BY <1>1, OrdersPageStep, OrdersPageElsewhere, CouriersKeep, UsersKeep, RestKeep, TroubleKeeps,
     EventKeeps
<1>2. CASE CouriersPage
  BY <1>2, CouriersPageStep, CouriersPageElsewhere, OrdersKeep, UsersKeep, RestKeep, TroubleKeeps
<1>3. CASE \E kind \in {"none", "create", "edit", "delete"} : OpenDialog(kind)
  <2>1. OrdersOK' /\ CouriersOK' /\ RestOK'
    BY <1>3, OrdersKeep, CouriersKeep, RestKeep DEF OpenDialog, OthersUnchanged, rows
  <2>2. UsersOK'
    BY <1>3, UsersKeep DEF OpenDialog, UsersOK, staff, StaffInv, StaffTypeOK, AccountsAreSound
  <2> QED
    BY <2>1, <2>2
<1>4. CASE Submit
  BY <1>4, SubmitStep, OrdersKeep, CouriersKeep, RestKeep DEF Submit, OthersUnchanged, rows
<1>5. CASE Answered
  BY <1>5, AnsweredStep, OrdersKeep, CouriersKeep, RestKeep DEF Answered, OthersUnchanged, rows
<1>6. CASE StaffElsewhere
  BY <1>6, StaffElsewhereStep, OrdersKeep, CouriersKeep, RestKeep
  DEF StaffElsewhere, OthersUnchanged, rows
<1>7. CASE Remount
  BY <1>7, RemountStep, RemountCouriers, UsersKeep, RestKeep DEF Remount, rows
<1>8. CASE SessionEnds
  <2>1. UsersOK'
    BY <1>8 DEF SessionEnds, UsersOK, staff, StaffInv, StaffTypeOK, AccountsAreSound
  <2> QED
    BY <1>8, <2>1, SessionEndsOrders, SessionEndsCouriers, TroubleKeeps DEF SessionEnds
<1>9. CASE \E c \in Couriers : ShiftChanges(c)
  <2>1. PICK c \in Couriers : ShiftChanges(c)
    BY <1>9
  <2>2. CouriersOK'
    BY <2>1, ShiftChangesStep
  <2>3. RestOK'
    BY <2>1, PanelAssumption DEF ShiftChanges, RestOK
  <2> QED
    BY <2>1, <2>2, <2>3, OrdersKeep, UsersKeep DEF ShiftChanges
<1>10. CASE UNCHANGED vars
  BY <1>10, OrdersKeep, CouriersKeep, UsersKeep, RestKeep DEF vars, rows
<1> QED
  BY <1>1, <1>2, <1>3, <1>4, <1>5, <1>6, <1>7, <1>8, <1>9, <1>10 DEF Next

\* The inductive invariant of the panel, its types and the accounts included.
THEOREM Invariance == Spec => []IInv
BY InitIsSound, NextIsSound, PTL DEF Spec

\* No two accounts have one email, none that was removed comes back, and the
\* owner stays, however create, update and remove overlap (users.service.ts).
THEOREM AccountsAreSoundHolds == Spec => []AccountsAreSound
<1>1. IInv => AccountsAreSound
  BY DEF IInv, StaffInv
<1> QED
  BY <1>1, Invariance, PTL

\* What a bulk cancellation reports is what happened, with any number of runs
\* over the same orders, and only a step that writes late, by id, undoes it
\* (handleConfirm of BulkConfirmModal, advanceStatus of order-lifecycle.service.ts).
THEOREM BulkReportIsTrueHolds == Spec => []BulkReportIsTrue
<1>1. IInv => BulkReportIsTrue
  BY DEF IInv, RunsAreSound, BulkReportIsTrue, Claims, Failures
<1> QED
  BY <1>1, Invariance, PTL

\* The form of the courier drawer never holds a status that was only picked.
THEOREM PickedIsNotSavedHolds == Spec => []PickedIsNotSaved
<1>1. IInv => PickedIsNotSaved
  BY DEF IInv
<1> QED
  BY <1>1, Invariance, PTL
=============================================================================
