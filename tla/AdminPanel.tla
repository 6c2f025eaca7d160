----------------------------- MODULE AdminPanel -----------------------------
(***************************************************************************)
(* admin/src: a tab of the panel on the orders, the couriers or the users  *)
(* page, and the rows it works on.  The panel listens to no socket: it     *)
(* shows what it fetched.  The handlers of a call run only while the       *)
(* component that made it is there, except for the awaited calls of a bulk *)
(* cancellation, which go on.                                              *)
(*                                                                         *)
(* A call on a courier is one step of the server; one on an order is two,  *)
(* the row it loads and checks, and the UPDATE, which for a step of the    *)
(* courier is by id, whatever the row has become (OrderLifecycle).         *)
(***************************************************************************)
EXTENDS StaffUsers, FiniteSets

CONSTANTS
  Orders, Couriers,
  Runs,         \* slots for bulk cancellations under way
  MaxCalls,     \* bound: PATCHes under way
  MaxEvents,    \* bound: requests of others, and cancellations of single orders
  MaxTroubles,  \* bound: answers lost, sessions ended
  Mine          \* the slot of UserRequests that this tab uses

Availability == {"available", "unavailable"}

ASSUME PanelAssumption ==
  /\ NULL \notin Couriers \cup Availability \cup Runs
  /\ Mine \in UserRequests
  /\ MaxCalls \in Nat /\ MaxEvents \in Nat /\ MaxTroubles \in Nat

VARIABLES
  order,      \* order[o]: status of the row of o, as far as it can be cancelled
  was,        \* was[o]: the final statuses o has ever had
  requests,   \* requests on orders that have loaded the row and not written it
  overwritten,\* history: orders whose final status a courier's step overwrote
  courier,    \* courier[c]: status of the row of c
  page,       \* the page the tab is on
  selection,  \* selectedRowKeys
  modal,      \* whether the modal of the bulk bar is open
  run,        \* run[l]: a bulk cancellation
  report,     \* report[l]: its notification
  drawer,     \* the courier drawer
  calls,      \* PATCHes under way
  dialog,     \* what is open on the users page
  lost,       \* orders whose cancellation was not answered
  events, troubles

orderRows == <<order, was, requests, overwritten>>
rows == <<orderRows, courier>>
ordersPage == <<selection, modal, run, report, lost>>
couriersPage == <<drawer, calls>>
usersPage == <<dialog, staff>>
vars == <<rows, page, ordersPage, couriersPage, usersPage, events, troubles>>

NoRun == [pc |-> "idle", orders |-> {}, left |-> {}, failed |-> {}, bar |-> FALSE, home |-> FALSE]
NoReport == [cancelled |-> {}, failed |-> {}]
Closed == [courier |-> NULL, mode |-> "view", shown |-> NULL, form |-> NULL, touched |-> FALSE,
           pick |-> NULL, asking |-> FALSE, fetching |-> FALSE]

Init ==
  /\ order = [o \in Orders |-> "open"]
  /\ was = [o \in Orders |-> {}]
  /\ requests = {}
  /\ overwritten = {}
  /\ courier = [c \in Couriers |-> "unavailable"]
  /\ page \in {"orders", "couriers", "users"}
  /\ selection = {}
  /\ modal = FALSE
  /\ run = [l \in Runs |-> NoRun]
  /\ report = [l \in Runs |-> NoReport]
  /\ drawer = Closed
  /\ calls = {}
  /\ dialog = "none"
  /\ StaffInit
  /\ lost = {}
  /\ events = 0
  /\ troubles = 0

Trouble == troubles < MaxTroubles /\ troubles' = troubles + 1

-----------------------------------------------------------------------------
(***************************************************************************)
(* order-lifecycle.service.ts: cancel, and the steps of couriers, of which *)
(* all but the completion leave the order open to be cancelled.            *)
(***************************************************************************)
OrderStatuses == {"open", "completed", "cancelled"}

Request(o, to, l) == [order |-> o, to |-> to, run |-> l]

\* loadOrder, and the check that the order is not finished.
Load(request) ==
  /\ order[request.order] = "open"
  /\ request \notin requests
  /\ requests' = requests \cup {request}

\* An order has one delivery record: a second completion is rolled back.  The
\* UPDATE of cancel finds no row that is finished.  Mutation: it finds any row.
RefusedByRecord(request) == request.to = "completed" /\ "completed" \in was[request.order]
Refused(request) ==
  \/ request.to = "completed" /\ "completed" \in was[request.order]
  \/ request.to = "cancelled" /\ order[request.order] # "open"

\* catch: the loop goes on.
AfterError(l, o) == run' = [run EXCEPT ![l].left = @ \ {o}, ![l].failed = @ \cup {o}]

\* The UPDATE, and the answer to the run that waits for one.
Write(request) ==
  /\ requests' = requests \ {request}
  /\ IF Refused(request)
     THEN /\ IF request.run = NULL THEN UNCHANGED run ELSE AfterError(request.run, request.order)
          /\ UNCHANGED <<order, was, overwritten>>
     ELSE /\ order' = [order EXCEPT ![request.order] = request.to]
          /\ was' = [was EXCEPT ![request.order] = @ \cup ({request.to} \ {"open"})]
          /\ overwritten' = overwritten \cup
               {o \in {request.order} : order[o] # "open" /\ request.to # "cancelled"}
          /\ run' = IF request.run = NULL THEN run
                    ELSE [run EXCEPT ![request.run].left = @ \ {request.order}]
  /\ UNCHANGED <<courier, page, selection, modal, report, lost, couriersPage, usersPage, events, troubles>>

\* A step of the order's courier, or a cancellation by a partner or other staff.
OrderElsewhere(o, to) ==
  /\ page = "orders"
  /\ events < MaxEvents
  /\ events' = events + 1
  /\ Load(Request(o, to, NULL))
  /\ UNCHANGED <<order, was, overwritten, courier, page, ordersPage, couriersPage, usersPage, troubles>>

-----------------------------------------------------------------------------
(***************************************************************************)
(* OrdersPage, BulkActionBar and BulkConfirmModal                          *)
(***************************************************************************)
\* The bar is there while something is selected; without it, no modal.
SelectOnly(keys, open) ==
  /\ selection' = keys
  /\ modal' = (open /\ keys # {})

\* The runs whose bar goes: nothing shows any longer that they are loading.
WithoutBar == [l \in Runs |-> [run[l] EXCEPT !.bar = FALSE]]

ToggleRow(o) ==
  /\ page = "orders" /\ ~modal
  /\ LET keys == IF o \in selection THEN selection \ {o} ELSE selection \cup {o}
     IN /\ SelectOnly(keys, FALSE)
        /\ run' = IF keys = {} THEN WithoutBar ELSE run
  /\ UNCHANGED <<rows, page, report, lost, couriersPage, usersPage, events, troubles>>

ClearSelection ==
  /\ page = "orders" /\ ~modal /\ selection # {}
  /\ SelectOnly({}, FALSE)
  /\ run' = WithoutBar
  /\ UNCHANGED <<rows, page, report, lost, couriersPage, usersPage, events, troubles>>

\* Cancel Selected, and Go Back, which a run does not notice.
ToggleModal ==
  /\ page = "orders" /\ selection # {}
  /\ SelectOnly(selection, ~modal)
  /\ UNCHANGED <<rows, page, run, report, lost, couriersPage, usersPage, events, troubles>>

\* Confirm Cancel All: a loading button takes no click.
ConfirmBulk(l) ==
  /\ modal
  /\ run[l].pc = "idle"
  /\ \A k \in Runs : ~run[k].bar
  /\ run' = [run EXCEPT ![l] = [pc |-> "loop", orders |-> selection, left |-> selection,
                                failed |-> {}, bar |-> TRUE, home |-> TRUE]]
  /\ report' = [report EXCEPT ![l] = NoReport]
  /\ UNCHANGED <<rows, page, selection, modal, lost, couriersPage, usersPage, events, troubles>>

\* POST orders/:id/cancel: 422 for a finished order.
CancelNext(l, o) ==
  /\ run[l].pc = "loop"
  /\ o \in run[l].left
  /\ \A r \in requests : r.run # l
  /\ IF order[o] = "open"
     THEN Load(Request(o, "cancelled", l)) /\ UNCHANGED run
     ELSE AfterError(l, o) /\ UNCHANGED requests
  /\ UNCHANGED <<order, was, overwritten, courier, page, selection, modal, report, lost,
                 couriersPage, usersPage, events, troubles>>

\* A failure, or no answer in time: the server may yet write.
CancelLost(l, o, alive) ==
  /\ run[l].pc = "loop"
  /\ o \in run[l].left
  /\ \A r \in requests : r.run = l => r.order = o
  /\ requests' = {r \in requests : r.run # l} \cup
                   {Request(o, "cancelled", NULL) : r \in {r \in requests : alive /\ r.run = l}}
  /\ lost' = lost \cup {o}
  /\ AfterError(l, o)
  /\ Trouble
  /\ UNCHANGED <<order, was, overwritten, courier, page, selection, modal, report, couriersPage,
                 usersPage, events>>

\* invalidate, notify, onSuccess: the modal is closed and the selection
\* cleared, if page and bar are still those of the run; the page clears a
\* selection that was made since.
Report(l) ==
  /\ run[l].pc = "loop" /\ run[l].left = {}
  /\ report' = [report EXCEPT ![l] = [cancelled |-> run[l].orders \ run[l].failed,
                                      failed |-> run[l].failed]]
  /\ IF run[l].home
     THEN /\ SelectOnly({}, FALSE)
          /\ run' = [WithoutBar EXCEPT ![l] = NoRun]
     ELSE /\ run' = [run EXCEPT ![l] = NoRun]
          /\ UNCHANGED <<selection, modal>>
  /\ UNCHANGED <<rows, page, lost, couriersPage, usersPage, events, troubles>>

\* OrderDrawer and CancelOrderModal: the button is there for the status that
\* was fetched, the server decides.
CancelOne(o) ==
  /\ page = "orders" /\ ~modal
  /\ events < MaxEvents
  /\ events' = events + 1
  /\ Load(Request(o, "cancelled", NULL))
  /\ UNCHANGED <<order, was, overwritten, courier, page, ordersPage, couriersPage, usersPage, troubles>>

-----------------------------------------------------------------------------
(***************************************************************************)
(* CouriersPage, CourierDrawer and CourierStatusModal.  The form is as     *)
(* much as its status; its other fields are touched or not.                *)
(***************************************************************************)
Opened == drawer.courier # NULL
Front == Opened /\ drawer.pick = NULL /\ ~drawer.asking

DrawerOnly == UNCHANGED <<rows, page, ordersPage, calls, usersPage, events, troubles>>

\* The effect on [courier, mode]: a form in edit mode is filled from the record.
Filled(d) == [d EXCEPT !.form = IF d.mode = "edit" THEN d.shown ELSE NULL]

\* A row, or its edit icon.  A record is shown at once if one is cached or the
\* previous one is kept, and either may be out of date.
OpenDrawer(c, mode, shown) ==
  /\ page = "couriers" /\ ~Opened
  /\ drawer' = Filled([Closed EXCEPT !.courier = c, !.mode = mode, !.shown = shown, !.fetching = TRUE])
  /\ DrawerOnly

\* GET api/v1/couriers/:id
Fetched ==
  /\ Opened /\ drawer.fetching
  /\ drawer' = Filled([drawer EXCEPT !.shown = courier[drawer.courier], !.fetching = FALSE])
  /\ DrawerOnly

\* Edit, and Cancel of the footer.
SwitchMode ==
  /\ Front
  /\ drawer' = Filled([drawer EXCEPT !.mode = IF @ = "edit" THEN "view" ELSE "edit",
                                     !.touched = FALSE])
  /\ DrawerOnly

EditField ==
  /\ Front /\ drawer.form # NULL
  /\ drawer' = [drawer EXCEPT !.touched = TRUE]
  /\ DrawerOnly

\* handleStatusChange: the field goes back to what is shown.  Mutation: it
\* keeps what was picked.
AfterPickKept(status) == status
AfterPick(status) == drawer.shown

PickStatus(status) ==
  /\ Front /\ drawer.form # NULL
  /\ status # drawer.form
  /\ drawer' = [drawer EXCEPT !.touched = TRUE,
                              !.pick = IF status # drawer.shown THEN status ELSE NULL,
                              !.form = IF status # drawer.shown THEN AfterPick(status) ELSE status]
  /\ DrawerOnly

\* Cancel of the modal unmounts it: the call it may have made goes unnoticed.
LeavePick ==
  /\ Opened /\ drawer.pick # NULL
  /\ drawer' = [drawer EXCEPT !.pick = NULL]
  /\ calls' = {[call EXCEPT !.heard = call.heard /\ call.kind # "status"] : call \in calls}
  /\ UNCHANGED <<rows, page, ordersPage, usersPage, events, troubles>>

Call(kind, status) ==
  /\ \A call \in calls : call.heard => call.kind # kind
  /\ Cardinality(calls) < MaxCalls
  /\ calls' = calls \cup {[kind |-> kind, courier |-> drawer.courier, status |-> status, heard |-> TRUE]}
  /\ UNCHANGED <<rows, page, drawer, ordersPage, usersPage, events, troubles>>

\* Confirm: PATCH { status }.
ConfirmStatus ==
  /\ Opened /\ drawer.pick # NULL
  /\ Call("status", drawer.pick)

\* handleSave: PATCH of all the fields of the form, its status included.
Save ==
  /\ Front /\ drawer.form # NULL
  /\ Call("save", drawer.form)

\* onSuccess of either, in whatever courier is open by now.
AfterCall(call) ==
  IF ~call.heard \/ ~Opened THEN drawer
  ELSE IF call.kind = "save"
       THEN Filled([drawer EXCEPT !.mode = "view", !.touched = FALSE, !.fetching = TRUE])
       ELSE [drawer EXCEPT !.pick = NULL, !.fetching = TRUE]

Patched(call) ==
  /\ call \in calls
  /\ calls' = calls \ {call}
  /\ courier' = [courier EXCEPT ![call.courier] = call.status]
  /\ drawer' = AfterCall(call)
  /\ UNCHANGED <<orderRows, page, ordersPage, usersPage, events, troubles>>

\* No answer, or an error: a notification, and nothing else changes.
PatchLost(call, done) ==
  /\ call \in calls
  /\ calls' = calls \ {call}
  /\ courier' = IF done THEN [courier EXCEPT ![call.courier] = call.status] ELSE courier
  /\ Trouble
  /\ UNCHANGED <<orderRows, page, drawer, ordersPage, usersPage, events>>

\* handleClose asks when a field was touched; Discard, or back to the form.
CloseDrawer ==
  /\ Front
  /\ drawer' = IF drawer.mode = "edit" /\ drawer.touched
               THEN [drawer EXCEPT !.asking = TRUE] ELSE Closed
  /\ DrawerOnly

AnswerDiscard(discard) ==
  /\ Opened /\ drawer.asking
  /\ drawer' = IF discard THEN Closed ELSE [drawer EXCEPT !.asking = FALSE]
  /\ DrawerOnly

-----------------------------------------------------------------------------
(***************************************************************************)
(* UsersPage, CreateUserDrawer and UserDrawer.  A call under way keeps its *)
(* button loading; an error leaves what is open as it is.                  *)
(***************************************************************************)
OthersUnchanged == UNCHANGED <<rows, page, ordersPage, couriersPage, events, troubles>>

OpenDialog(kind) ==
  /\ page = "users"
  /\ (dialog = "none") # (kind = "none")
  /\ dialog' = kind
  /\ UNCHANGED staff /\ OthersUnchanged

\* UserDrawer asks for users/:id, which the server does not have: its form is
\* never there, and what it saves is an update without fields.
Submit ==
  /\ \/ dialog = "create" /\ \E e \in Emails : CreateFind(Mine, e)
     \/ dialog = "edit" /\ \E a \in Accounts : UpdateFind(Mine, a)
     \/ dialog = "delete" /\ \E a \in Accounts : RemoveFind(Mine, a, Owner)
  /\ UNCHANGED dialog /\ OthersUnchanged

Answered ==
  /\ Finish(Mine)
  /\ dialog' = IF staffReq[Mine].pc = "ok" THEN "none" ELSE dialog
  /\ OthersUnchanged

StaffElsewhere ==
  /\ page = "users"
  /\ \/ \E q \in UserRequests : Serve(q)
     \/ \E q \in UserRequests \ {Mine} : Ask(q) \/ Finish(q)
  /\ UNCHANGED dialog /\ OthersUnchanged

-----------------------------------------------------------------------------
\* Another page, and back: the state of a page that is left is gone, and the
\* handlers of its calls.  The pages share no state, so a tab that is on one of
\* them for a whole behaviour stands for one that changes between them.
Remount ==
  /\ ~modal /\ ~Opened /\ dialog = "none"
  /\ SelectOnly({}, FALSE)
  /\ run' = [l \in Runs |-> [run[l] EXCEPT !.bar = FALSE, !.home = FALSE]]
  /\ calls' = {[call EXCEPT !.heard = FALSE] : call \in calls}
  /\ UNCHANGED <<rows, page, drawer, report, lost, usersPage, events, troubles>>

\* dataProvider: 401 takes the token and loads /login, which ends every script.
SessionEnds ==
  /\ Trouble
  /\ SelectOnly({}, FALSE)
  /\ run' = [l \in Runs |-> NoRun]
  /\ report' = [l \in Runs |-> NoReport]
  /\ drawer' = Closed
  /\ dialog' = "none"
  /\ calls' = {[call EXCEPT !.heard = FALSE] : call \in calls}
  /\ requests' = {[r EXCEPT !.run = NULL] : r \in requests}
  /\ UNCHANGED <<order, was, overwritten, courier, page, lost, staff, events>>

\* ShiftManagement opens or closes a shift.
ShiftChanges(c) ==
  /\ page = "couriers"
  /\ events < MaxEvents
  /\ \E status \in Availability \ {courier[c]} : courier' = [courier EXCEPT ![c] = status]
  /\ events' = events + 1
  /\ UNCHANGED <<orderRows, page, ordersPage, couriersPage, usersPage, troubles>>

Advance(l) == Report(l) \/ \E o \in Orders : CancelNext(l, o)

OrdersPage ==
  \/ \E o \in Orders : ToggleRow(o) \/ CancelOne(o)
  \/ ClearSelection
  \/ ToggleModal
  \/ \E l \in Runs : ConfirmBulk(l) \/ Advance(l)
  \/ \E l \in Runs, o \in Orders, alive \in BOOLEAN : CancelLost(l, o, alive)
  \/ \E r \in requests : Write(r)
  \/ \E o \in Orders, to \in OrderStatuses : OrderElsewhere(o, to)

CouriersPage ==
  \/ \E c \in Couriers, mode \in {"view", "edit"}, shown \in Availability \cup {NULL} :
       OpenDrawer(c, mode, shown)
  \/ Fetched
  \/ SwitchMode
  \/ EditField
  \/ \E status \in Availability : PickStatus(status)
  \/ LeavePick
  \/ ConfirmStatus
  \/ Save
  \/ \E call \in calls : Patched(call)
  \/ \E call \in calls, done \in BOOLEAN : PatchLost(call, done)
  \/ CloseDrawer
  \/ \E discard \in BOOLEAN : AnswerDiscard(discard)

Next ==
  \/ OrdersPage
  \/ CouriersPage
  \/ \E kind \in {"none", "create", "edit", "delete"} : OpenDialog(kind)
  \/ Submit
  \/ Answered
  \/ StaffElsewhere
  \/ Remount
  \/ SessionEnds
  \/ \E c \in Couriers : ShiftChanges(c)

Spec == Init /\ [][Next]_vars

-----------------------------------------------------------------------------
Run == [pc : {"idle", "loop"}, orders : SUBSET Orders, left : SUBSET Orders,
        failed : SUBSET Orders, bar : BOOLEAN, home : BOOLEAN]
Drawer == [courier : Couriers \cup {NULL}, mode : {"view", "edit"},
           shown : Availability \cup {NULL}, form : Availability \cup {NULL}, touched : BOOLEAN,
           pick : Availability \cup {NULL}, asking : BOOLEAN, fetching : BOOLEAN]
OrderRequest == [order : Orders, to : OrderStatuses, run : Runs \cup {NULL}]
PatchCall == [kind : {"save", "status"}, courier : Couriers, status : Availability, heard : BOOLEAN]

TypeOK ==
  /\ order \in [Orders -> OrderStatuses]
  /\ was \in [Orders -> SUBSET (OrderStatuses \ {"open"})]
  /\ requests \subseteq OrderRequest
  /\ overwritten \subseteq Orders
  /\ courier \in [Couriers -> Availability]
  /\ page \in {"orders", "couriers", "users"}
  /\ selection \subseteq Orders
  /\ modal \in BOOLEAN
  /\ run \in [Runs -> Run]
  /\ report \in [Runs -> [cancelled : SUBSET Orders, failed : SUBSET Orders]]
  /\ drawer \in Drawer
  /\ calls \subseteq PatchCall
  /\ lost \subseteq Orders
  /\ dialog \in {"none", "create", "edit", "delete"}
  /\ StaffTypeOK
  /\ events \in 0..MaxEvents
  /\ troubles \in 0..MaxTroubles

\* An order that has been cancelled, or has been finished in whatever way, and
\* is so still, unless a late step has overwritten it.
Cancelled(o) == "cancelled" \in was[o] /\ (o \notin overwritten => order[o] = "cancelled")
Finished(o) == was[o] # {} /\ (o \notin overwritten => order[o] # "open")

\* Specs/009, FR-008: what a bulk cancellation reports is what happened, also
\* when runs overlap and others work on the same orders: an order it reports
\* cancelled has been, and no other report claims it; one it reports failed has
\* been finished, or its call was lost.  Only a step that a courier's request
\* writes after the order was finished undoes any of it.
BulkReportIsTrue ==
  \A l \in Runs :
    /\ \A o \in report[l].cancelled :
         /\ Cancelled(o)
         /\ \A k \in Runs \ {l} : o \in report[k].cancelled => o \in overwritten
    /\ \A o \in report[l].failed : Finished(o) \/ o \in lost

\* The modal's "This action cannot be undone", taken at its word.
CancelledForGood == \A l \in Runs : \A o \in report[l].cancelled : order[o] = "cancelled"

\* FR-006: a status that is picked in the form is never part of a save; the
\* form, in whatever order it was opened, filled, picked in and refetched,
\* holds the status that is shown.
PickedIsNotSaved == drawer.form # NULL => drawer.form = drawer.shown

\* The inductive invariant: what a run has cancelled so far and what a report
\* claims was cancelled, and claimed once; what failed was finished or lost.
Done(l) == run[l].orders \ (run[l].left \cup run[l].failed)
Claims(l) == Done(l) \cup report[l].cancelled
Failures(l) == run[l].failed \cup report[l].failed

RunsAreWellFormed ==
  \A l \in Runs :
    /\ run[l].left \subseteq run[l].orders
    /\ run[l].left \cap run[l].failed = {}
    /\ run[l].pc = "idle" => run[l].orders = {} /\ run[l].failed = {}

RunsAreSound ==
  \A l \in Runs :
    /\ \A o \in Claims(l) : Cancelled(o)
    /\ \A o \in Failures(l) : Finished(o) \/ o \in lost
    /\ \A k \in Runs \ {l} : Claims(l) \cap Claims(k) \subseteq overwritten

\* A request that a run waits for is for an order still to come.
RequestsAreSound ==
  /\ \A o \in Orders : order[o] # "open" => order[o] \in was[o]
  /\ \A r \in requests :
       r.run # NULL =>
         r.to = "cancelled" /\ r.order \in run[r.run].left /\ run[r.run].pc = "loop"

IInv ==
  TypeOK /\ StaffInv /\ RunsAreWellFormed /\ RunsAreSound /\ RequestsAreSound /\ PickedIsNotSaved
=============================================================================
