-------------------------- MODULE CourierTracking --------------------------
(***************************************************************************)
(* couriers/courier-tracking.service.ts, next to the orders the couriers   *)
(* carry.  A submission is up to five awaits; orders are claimed, finished *)
(* and cancelled between them.  Coordinates are points, and a distance is  *)
(* known from its two ends.                                                *)
(***************************************************************************)
EXTENDS Naturals, Sequences, FiniteSets

CONSTANTS
  Couriers, Orders, Points,
  WithCallback,    \* the orders created with a callback_url
  Requests,        \* slots for submissions handled at the same time
  Readers,         \* slots for reports being read
  PageSize,        \* limit of a page of the list
  MaxSubmissions,  \* bound: locations ever submitted
  MaxFailures,     \* bound: submissions lost half way
  NULL

ASSUME TrackingAssumption ==
  /\ NULL \notin Couriers \cup Orders \cup Points
  /\ WithCallback \subseteq Orders
  /\ PageSize \in Nat \ {0}
  /\ MaxSubmissions \in Nat /\ MaxFailures \in Nat
  /\ IsFiniteSet(Couriers) /\ IsFiniteSet(Orders)

VARIABLES
  orders,     \* orders[o]: status and courier_id of the row
  winner,     \* history: the courier whose claim took o
  position,   \* courier_positions, one row per courier
  history,    \* history[c]: rows of courier_location_history of c, as inserted
  map,        \* map[c]: the point last emitted as courier:location_updated
  req,        \* req[r]: the submission in slot r
  submitted,  \* locations submitted so far
  reader,     \* reader[q]: the report in slot q
  answer,     \* answer[q]: what the report in slot q has answered
  locationJobs,  \* jobs ever added to the location-callback queue
  failures

flow == <<orders, winner>>
track == <<position, history, map>>
reports == <<reader, answer>>
jobs == <<locationJobs, failures>>
vars == <<flow, track, req, submitted, reports, jobs>>

Idle == [pc |-> "idle", courier |-> NULL, point |-> NULL, order |-> NULL, previous |-> NULL]
Closed == [pc |-> "idle", order |-> NULL, courier |-> NULL, offset |-> 0, total |-> 0]
NoAnswer == [kind |-> "none"]

Init ==
  /\ orders = [o \in Orders |-> [status |-> "created", courier |-> NULL]]
  /\ winner = [o \in Orders |-> NULL]
  /\ position = [c \in Couriers |-> NULL]
  /\ history = [c \in Couriers |-> <<>>]
  /\ map = [c \in Couriers |-> NULL]
  /\ req = [r \in Requests |-> Idle]
  /\ submitted = 0
  /\ reader = [q \in Readers |-> Closed]
  /\ answer = [q \in Readers |-> NoAnswer]
  /\ locationJobs = {}
  /\ failures = 0

-----------------------------------------------------------------------------
(***************************************************************************)
(* submitLocation                                                          *)
(***************************************************************************)
ActiveStatuses == {"assigned", "picked_up", "in_delivery"}

\* Mutation: without the condition on courier_id.
ActiveOrdersOfAnyone(c) == {o \in Orders : orders[o].status \in ActiveStatuses}
ActiveOrders(c) ==
  {o \in Orders : orders[o].courier = c /\ orders[o].status \in ActiveStatuses}

InFlight(c) == {r \in Requests : req[r].pc # "idle" /\ req[r].courier = c}

Step(r, pc) == req' = [req EXCEPT ![r].pc = pc]
Return(r) == req' = [req EXCEPT ![r] = Idle]

\* The courier's token is good, and the limits of LocationThrottleGuard, which
\* know nothing of requests under way, let it in; findOne of the active order.
FindActiveOrder(r, c, p, o) ==
  /\ req[r].pc = "idle"
  /\ submitted < MaxSubmissions
  /\ IF ActiveOrders(c) = {} THEN o = NULL ELSE o \in ActiveOrders(c)
  /\ submitted' = submitted + 1
  /\ req' = [req EXCEPT ![r] = [pc |-> "previous", courier |-> c, point |-> p,
                                order |-> o, previous |-> NULL]]
  /\ UNCHANGED <<jobs, flow, track, reports>>

LoadPrevious(r) ==
  /\ req[r].pc = "previous"
  /\ req' = [req EXCEPT ![r].pc = "upsert", ![r].previous = position[req[r].courier]]
  /\ UNCHANGED <<jobs, flow, track, submitted, reports>>

\* INSERT ... ON CONFLICT (courier_id) DO UPDATE, whatever recorded_at is.
UpsertPosition(r) ==
  /\ req[r].pc = "upsert"
  /\ position' = [position EXCEPT ![req[r].courier] = req[r].point]
  /\ Step(r, "insert")
  /\ UNCHANGED <<jobs, flow, history, map, submitted, reports>>

\* The row of courier_location_history.  Mutation: the distance from the
\* position that is stored by then.
EntryReloaded(request) ==
  [order |-> request.order, from |-> position[request.courier], to |-> request.point]
Entry(request) ==
  [order |-> request.order, from |-> request.previous, to |-> request.point]

InsertHistory(r) ==
  /\ req[r].pc = "insert"
  /\ history' = [history EXCEPT ![req[r].courier] = Append(@, Entry(req[r]))]
  /\ Step(r, "emit")
  /\ UNCHANGED <<jobs, flow, position, map, submitted, reports>>

\* The event; the answer, unless the order has a callback_url.
EmitLocationUpdated(r) ==
  /\ req[r].pc = "emit"
  /\ map' = [map EXCEPT ![req[r].courier] = req[r].point]
  /\ IF req[r].order \in WithCallback THEN Step(r, "callback") ELSE Return(r)
  /\ UNCHANGED <<jobs, flow, position, history, submitted, reports>>

LocationJob(request) ==
  [courier |-> request.courier, order |-> request.order, point |-> request.point]

EnqueueLocation(r) ==
  /\ req[r].pc = "callback"
  /\ locationJobs' = locationJobs \cup {LocationJob(req[r])}
  /\ Return(r)
  /\ UNCHANGED <<failures, flow, track, submitted, reports>>

\* The server dies or a statement throws.
Fail(r) ==
  /\ req[r].pc # "idle"
  /\ failures < MaxFailures
  /\ failures' = failures + 1
  /\ Return(r)
  /\ UNCHANGED <<locationJobs, flow, track, submitted, reports>>

-----------------------------------------------------------------------------
(***************************************************************************)
(* getOrderRoute and getRouteHistoryList: two reads each.                  *)
(***************************************************************************)
Open(q, pc, o, c, offset, total) ==
  /\ reader[q].pc = "idle"
  /\ reader' = [reader EXCEPT ![q] = [pc |-> pc, order |-> o, courier |-> c,
                                      offset |-> offset, total |-> total]]
  /\ answer' = [answer EXCEPT ![q] = NoAnswer]
  /\ UNCHANGED <<flow, track, req, submitted, jobs>>

Respond(q, a) ==
  /\ answer' = [answer EXCEPT ![q] = a]
  /\ reader' = [reader EXCEPT ![q] = Closed]
  /\ UNCHANGED <<flow, track, req, submitted, jobs>>

\* The order of the tenant and its courier_id.
RouteLoadOrder(q, o) == Open(q, "points", o, orders[o].courier, 0, 0)

Tracked(c, o) == \E i \in 1..Len(history[c]) : history[c][i].order = o
CouriersOf(o) == {c \in Couriers : Tracked(c, o)}

\* order.courier_id ?? (points[0]?.courier_id ?? ''); points[0] is a row of
\* any courier who has one.
RouteFindPoints(q, first) ==
  /\ reader[q].pc = "points"
  /\ LET by == CouriersOf(reader[q].order)
     IN /\ IF by = {} THEN first = NULL ELSE first \in by
        /\ Respond(q, [kind |-> "route", order |-> reader[q].order, by |-> by,
                       courier |-> IF reader[q].courier # NULL THEN reader[q].courier ELSE first])

\* The pairs (order_id, courier_id) that the filters admit.
Groups(o, c) ==
  {g \in Couriers \X Orders : /\ Tracked(g[1], g[2])
                              /\ o # NULL => g[2] = o
                              /\ c # NULL => g[1] = c}

\* COUNT(DISTINCT (order_id, courier_id)).  Mutation: COUNT(*).
Rows(g) == {i \in 1..Len(history[g[1]]) : history[g[1]][i].order = g[2]}
CountRows(o, c) == Cardinality(UNION {{<<g, i>> : i \in Rows(g)} : g \in Groups(o, c)})
CountGroups(o, c) == Cardinality(Groups(o, c))

ListCount(q, o, c, page) == Open(q, "rows", o, c, (page - 1) * PageSize, CountGroups(o, c))

\* The page, and meta.total_pages as far as it says whether the page exists.
ListFindRows(q, rows) ==
  /\ reader[q].pc = "rows"
  /\ LET all == Groups(reader[q].order, reader[q].courier)
         left == Cardinality(all) - reader[q].offset
     IN /\ rows \subseteq all
        /\ Cardinality(rows) = IF left <= 0 THEN 0 ELSE IF left < PageSize THEN left ELSE PageSize
  /\ Respond(q, [kind |-> "page", listed |-> reader[q].offset < reader[q].total, rows |-> rows])

-----------------------------------------------------------------------------
(***************************************************************************)
(* The order workflow, as far as a submission can see it: a whole request   *)
(* of OrderLifecycle in one step.                                          *)
(***************************************************************************)
Claim(o, c) ==
  /\ orders[o].status = "created"
  /\ orders' = [orders EXCEPT ![o] = [status |-> "assigned", courier |-> c]]
  /\ winner' = [winner EXCEPT ![o] = c]
  /\ UNCHANGED <<jobs, track, req, submitted, reports>>

CourierTransition(status) ==
  CASE status = "assigned" -> "picked_up"
    [] status = "picked_up" -> "in_delivery"
    [] status = "in_delivery" -> "completed"

Advance(o) ==
  /\ orders[o].status \in ActiveStatuses
  /\ orders' = [orders EXCEPT ![o].status = CourierTransition(@)]
  /\ UNCHANGED <<winner, track, req, submitted, reports, jobs>>

Cancel(o) ==
  /\ orders[o].status \notin {"completed", "cancelled"}
  /\ orders' = [orders EXCEPT ![o] = [status |-> "cancelled", courier |-> NULL]]
  /\ UNCHANGED <<winner, track, req, submitted, reports, jobs>>

-----------------------------------------------------------------------------
Continue(r) ==
  \/ LoadPrevious(r)
  \/ UpsertPosition(r)
  \/ InsertHistory(r)
  \/ EmitLocationUpdated(r)
  \/ EnqueueLocation(r)

Next ==
  \/ \E r \in Requests, c \in Couriers, p \in Points, o \in Orders \cup {NULL} :
       FindActiveOrder(r, c, p, o)
  \/ \E r \in Requests : Continue(r)
  \/ \E r \in Requests : Fail(r)
  \/ \E q \in Readers, o \in Orders : RouteLoadOrder(q, o)
  \/ \E q \in Readers, first \in Couriers \cup {NULL} : RouteFindPoints(q, first)
  \/ \E q \in Readers, o \in Orders \cup {NULL}, c \in Couriers \cup {NULL}, page \in 1..2 :
       ListCount(q, o, c, page)
  \/ \E q \in Readers, rows \in SUBSET (Couriers \X Orders) : ListFindRows(q, rows)
  \/ \E o \in Orders, c \in Couriers : Claim(o, c)
  \/ \E o \in Orders : Advance(o)
  \/ \E o \in Orders : Cancel(o)

Spec == Init /\ [][Next]_vars

-----------------------------------------------------------------------------
Statuses == {"created", "assigned", "picked_up", "in_delivery", "completed", "cancelled"}
Somebody == Couriers \cup {NULL}
Somewhere == Points \cup {NULL}
Hops == [order : Orders \cup {NULL}, from : Somewhere, to : Points]
Submission == [pc : {"previous", "upsert", "insert", "emit", "callback"}, courier : Couriers,
               point : Points, order : Orders \cup {NULL}, previous : Somewhere]
Report == [pc : {"points", "rows"}, order : Orders \cup {NULL}, courier : Somebody,
           offset : Nat, total : Nat]
Route == [kind : {"route"}, order : Orders, by : SUBSET Couriers, courier : Somebody]
Page == [kind : {"page"}, listed : BOOLEAN, rows : SUBSET (Couriers \X Orders)]

TypeOK ==
  /\ orders \in [Orders -> [status : Statuses, courier : Somebody]]
  /\ winner \in [Orders -> Somebody]
  /\ position \in [Couriers -> Somewhere]
  /\ history \in [Couriers -> Seq(Hops)]
  /\ map \in [Couriers -> Somewhere]
  /\ req \in [Requests -> Submission \cup {Idle}]
  /\ reader \in [Readers -> Report \cup {Closed}]
  /\ answer \in [Readers -> Route \cup Page \cup {NoAnswer}]
  /\ locationJobs \subseteq [courier : Couriers, order : Orders, point : Points]

\* A report is about one courier and a page that is counted is not empty: the
\* route of an order names the courier whose points it shows, also when the
\* order was claimed or cancelled between the two reads, and a page that
\* total_pages announces has rows, also when routes are added between them.
AnswersAreSound ==
  \A q \in Readers :
    /\ answer[q].kind = "route" /\ answer[q].by # {} => answer[q].by = {answer[q].courier}
    /\ answer[q].kind = "page" /\ answer[q].listed => answer[q].rows # {}

\* What a partner is sent is what was recorded: a location callback repeats an
\* entry of the history of the courier who had won the order.
PartnerSeesTheRoute ==
  \A job \in locationJobs :
    /\ winner[job.order] = job.courier
    /\ \E i \in 1..Len(history[job.courier]) :
         LET e == history[job.courier][i] IN e.order = job.order /\ e.to = job.point

\* Specs/004, FR-005, taken at its word: when none of a courier's submissions
\* is under way and none was lost, the map shows the position on record.
MapShowsPosition ==
  failures = 0 => \A c \in Couriers : InFlight(c) = {} => map[c] = position[c]

(***************************************************************************)
(* The inductive invariant.                                                *)
(***************************************************************************)
Recorded(request) ==
  \E i \in 1..Len(history[request.courier]) :
    LET e == history[request.courier][i] IN e.order = request.order /\ e.to = request.point

OrdersAreSound ==
  \A o \in Orders :
    /\ orders[o].status = "created" => winner[o] = NULL
    /\ orders[o].courier # NULL => winner[o] = orders[o].courier

RequestsAreSound ==
  \A r \in Requests :
    /\ req[r].order # NULL => winner[req[r].order] = req[r].courier
    /\ req[r].pc \in {"emit", "callback"} => Recorded(req[r])
    /\ req[r].pc = "callback" => req[r].order # NULL

HistoryIsSound ==
  \A c \in Couriers :
    \A i \in 1..Len(history[c]) :
      history[c][i].order # NULL => winner[history[c][i].order] = c

ReadersAreSound ==
  \A q \in Readers :
    /\ reader[q].pc = "points" =>
         /\ reader[q].order # NULL
         /\ reader[q].courier # NULL => winner[reader[q].order] = reader[q].courier
    /\ reader[q].pc = "rows" =>
         reader[q].total <= Cardinality(Groups(reader[q].order, reader[q].courier))

IInv ==
  /\ TypeOK
  /\ OrdersAreSound
  /\ RequestsAreSound
  /\ HistoryIsSound
  /\ ReadersAreSound
  /\ AnswersAreSound
  /\ PartnerSeesTheRoute
=============================================================================
