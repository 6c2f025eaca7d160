---------------------------- MODULE OrderOverlaps ----------------------------
(***************************************************************************)
(* OrderLifecycle with two history variables, which remember whose         *)
(* requests have ever overlapped.  They are read by no action and restrict *)
(* no step: the behaviours are those of OrderLifecycle.                    *)
(*                                                                         *)
(* With them one can say what the documents' promises are worth in a       *)
(* server that does not serialize requests: an order is contested once     *)
(* two requests that got past their checks were at work on it at once, a   *)
(* courier is hasty once two requests of theirs were between their checks  *)
(* and their UPDATE at once.  Losing claims contest nothing.               *)
(***************************************************************************)
EXTENDS OrderLifecycle

VARIABLES
  contested,   \* history: the orders that were ever contested
  hasty        \* history: the couriers who were ever hasty

hvars == <<vars, contested, hasty>>

Claiming(r) == req[r].pc \in {"count", "take"}

\* The request has passed the checks that let it change its order.
Engaged(r) == InFlight(r) /\ ~Claiming(r)

\* The request of a courier has passed some checks and written nothing yet.
Deciding(r) == Claiming(r) \/ req[r].pc = "write"

Contested ==
  {o \in Orders : \E q, r \in Requests :
     q # r /\ Engaged(q) /\ Engaged(r) /\ req[q].order = o /\ req[r].order = o}

Hasty ==
  {c \in Couriers : \E q, r \in Requests :
     q # r /\ Deciding(q) /\ Deciding(r) /\ req[q].user = c /\ req[r].user = c}

HInit == Init /\ contested = {} /\ hasty = {}

Remember ==
  /\ contested' = contested \cup Contested'
  /\ hasty' = hasty \cup Hasty'

HNext == Next /\ Remember

HSpec == HInit /\ [][HNext]_hvars
HFairSpec == HSpec /\ Fairness

-----------------------------------------------------------------------------
\* The histories name orders and couriers, and miss no overlap under way.
HistoryOK ==
  /\ contested \subseteq Orders /\ Contested \subseteq contested
  /\ hasty \subseteq Couriers /\ Hasty \subseteq hasty

\* FR-016: a courier who waits for the answer to one request before sending
\* the next has at most one active order, whatever all the others do.
OneActiveUnlessHasty == \A c \in Couriers \ hasty : OneActive(c)

\* FR-010: an order that was never contested is not both cancelled and paid.
NoEarningUnlessContested == \A o \in Orders \ contested : CancelledUnpaid(o)

\* User Story 3 scenario 2: of an order that was never contested, the courier
\* is told of the cancellation.
NotifiedUnlessContested ==
  Quiescent => \A o \in Orders \ contested : WinnerTold(o)

\* FR-012: the last event of an order that was never contested carries the
\* status it has.
StaffSeeUnlessContested ==
  Quiescent => \A o \in Orders \ contested : staffRoom[o] = orders[o].status

\* FR-011: the audit of an order that was never contested is a chain.
ChainedUnlessContested == \A o \in Orders \ contested : Chained(o)

\* The documented lifecycle for the orders never contested; for the others
\* what LifecycleContract still promises of them.
Contract == INSTANCE LifecycleContract
              WITH status <- [o \in Orders |-> orders[o].status],
                   courier <- [o \in Orders |-> orders[o].courier_id],
                   reached <- [o \in Orders |-> orders[o].stamps],
                   paid <- earnings

ContractSpec == Contract!Spec

\* Assumptions of specs/003: an order that was never contested stays completed
\* or cancelled once it is.
FinalUnlessContested ==
  [][\A o \in Orders \ contested : orders[o].status \in Terminal =>
       orders'[o].status = orders[o].status]_hvars

-----------------------------------------------------------------------------
(***************************************************************************)
(* The inductive invariant behind those: while a request is alone with an  *)
(* order, what it has read of the order is still so.                       *)
(***************************************************************************)
\* How far an order has come; every transition of the tables leads further.
Progress ==
  [s \in Statuses |-> CASE s = "created"     -> 0
                       [] s = "assigned"    -> 1
                       [] s = "picked_up"   -> 2
                       [] s = "in_delivery" -> 3
                       [] s \in Terminal    -> 4]

OwesStaff(r, o) ==
  req[r].pc \in {"reload", "audit", "tell", "emit"} /\ req[r].order = o

OwesPush(r, o) ==
  /\ req[r].pc \in {"reload", "audit", "tell"}
  /\ req[r].order = o
  /\ req[r].to = "cancelled"
  /\ req[r].courier = winner[o]

AloneRow(o) ==
  /\ orders[o].courier_id = NULL <=> orders[o].status \in {"created", "cancelled"}
  /\ HasRow(earnings, o) <=> orders[o].status = "completed"
  /\ failures = 0 =>
       /\ staffRoom[o] = orders[o].status \/ \E r \in Requests : OwesStaff(r, o)
       /\ orders[o].status = "cancelled" /\ winner[o] # NULL =>
            \/ [order |-> o, courier |-> winner[o]] \in cancelJobs
            \/ \E r \in Requests : OwesPush(r, o)

AloneAudit(o) ==
  \A e \in audit : e.order = o =>
    /\ Progress[e.from] < Progress[orders[o].status]
    /\ \A f \in audit : f.order = o /\ f.from = e.from => e = f

AloneRequest(r) ==
  LET row == orders[req[r].order] IN
  /\ req[r].pc = "write" => req[r].from = row.status /\ req[r].user = row.courier_id
  /\ req[r].pc = "void" =>
       /\ req[r].from = row.status
       /\ req[r].from \in DOMAIN OperatorTransition
       /\ req[r].courier = row.courier_id
  /\ Moved(r) =>
       req[r].to = row.status /\ Progress[req[r].from] < Progress[req[r].to]
  /\ req[r].pc \in {"audit", "tell", "emit"} => req[r].seen = row.status
  /\ req[r].pc \in {"reload", "audit"} =>
       \A e \in audit : e.order = req[r].order => e.from # req[r].from

\* However stale, a step is one of the tables and its turn has once come.
StepInv(r) ==
  /\ Claiming(r) => req[r].from = "created"
  /\ req[r].pc = "write" =>
       /\ req[r].from \in DOMAIN CourierTransition
       /\ req[r].to = CourierTransition[req[r].from]
       /\ req[r].from \in orders[req[r].order].stamps

\* What a courier's request has found of the courier's orders is still so.
PatientInv(c) ==
  /\ OneActive(c)
  /\ \A r \in Requests : req[r].user = c =>
       /\ req[r].pc = "take" => Active(c) = {}
       /\ req[r].pc = "write" =>
            \/ req[r].order \in Active(c)
            \/ orders[req[r].order].courier_id = NULL

\* An order that is not contested, its audit and whoever is at work on it.
AloneInv(o) ==
  /\ AloneRow(o)
  /\ AloneAudit(o)
  /\ \A r \in Requests : Engaged(r) /\ req[r].order = o => AloneRequest(r)

IInvOverlaps ==
  /\ HistoryOK
  /\ \A r \in Requests : StepInv(r)
  /\ \A o \in Orders \ contested : AloneInv(o)
  /\ \A c \in Couriers \ hasty : PatientInv(c)

=============================================================================
