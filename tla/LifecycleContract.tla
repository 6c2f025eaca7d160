-------------------------- MODULE LifecycleContract -------------------------
(***************************************************************************)
(* The order lifecycle as the documents promise it (specs/003-order-       *)
(* lifecycle/spec.md and Principle I of the constitution), and what is     *)
(* left of it for the orders and couriers whose requests overlapped.       *)
(*                                                                         *)
(* An order that was never contested moves from one status to the next of  *)
(* the documents.  A contested one may be moved late: by a step that was   *)
(* due at some earlier time, whatever has become of the order since.  Even *)
(* so no step is taken before its turn, only an open order is cancelled,   *)
(* only a new one is assigned, and nothing is paid twice.                  *)
(***************************************************************************)
EXTENDS Sequences

CONSTANTS Orders, Couriers, NULL

VARIABLES
  status,     \* status[o]
  courier,    \* courier[o]: who holds o, or NULL
  reached,    \* reached[o]: the statuses o has ever had
  paid,       \* paid[o]: the couriers the fee of o was credited to
  contested,  \* orders that two requests were changing at once
  hasty       \* couriers who sent two requests at once

vars == <<status, courier, reached, paid, contested, hasty>>

Open == {"assigned", "picked_up", "in_delivery"}

Init ==
  /\ status = [o \in Orders |-> "created"]
  /\ courier = [o \in Orders |-> NULL]
  /\ reached = [o \in Orders |-> {}]
  /\ paid = [o \in Orders |-> <<>>]
  /\ contested = {}
  /\ hasty = {}

Busy(c) == \E o \in Orders : courier[o] = c /\ status[o] \in Open

\* The turn of o has come for the step out of the status from.
Due(o, from) ==
  IF o \in contested THEN from \in reached[o] ELSE status[o] = from

Move(o, to) ==
  /\ status' = [status EXCEPT ![o] = to]
  /\ reached' = [reached EXCEPT ![o] = @ \cup {to}]

\* FR-002, FR-003, FR-016.
Assign(o, c) ==
  /\ status[o] = "created"
  /\ Busy(c) => c \in hasty
  /\ Move(o, "assigned")
  /\ courier' = [courier EXCEPT ![o] = c]
  /\ UNCHANGED paid

\* FR-004, FR-005: the steps of the courier, none skipped.
PickUp(o) ==
  /\ Due(o, "assigned")
  /\ Move(o, "picked_up")
  /\ UNCHANGED <<courier, paid>>

StartDelivery(o) ==
  /\ Due(o, "picked_up")
  /\ Move(o, "in_delivery")
  /\ UNCHANGED <<courier, paid>>

\* FR-006: completing pays, in the same step, once.
Complete(o, c) ==
  /\ Due(o, "in_delivery")
  /\ o \notin contested => courier[o] = c
  /\ paid[o] = <<>>
  /\ Move(o, "completed")
  /\ paid' = [paid EXCEPT ![o] = <<c>>]
  /\ UNCHANGED courier

\* FR-007, FR-009, FR-010: cancelling frees the courier, and what is cancelled
\* has not been paid.
Cancel(o) ==
  /\ status[o] \in Open \cup {"created"}
  /\ o \notin contested => paid[o] = <<>>
  /\ Move(o, "cancelled")
  /\ courier' = [courier EXCEPT ![o] = NULL]
  /\ UNCHANGED paid

Change == \E o \in Orders :
  \/ \E c \in Couriers : Assign(o, c) \/ Complete(o, c)
  \/ PickUp(o)
  \/ StartDelivery(o)
  \/ Cancel(o)

\* Requests may start to overlap at any time.
Next ==
  /\ Change \/ UNCHANGED <<status, courier, reached, paid>>
  /\ contested \subseteq contested'
  /\ hasty \subseteq hasty'

Spec == Init /\ [][Next]_vars

=============================================================================
