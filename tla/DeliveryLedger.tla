--------------------------- MODULE DeliveryLedger ---------------------------
(***************************************************************************)
(* What the order workflow promises about money and assignment, whatever   *)
(* order concurrent requests take their steps in:                          *)
(*   - an order is awarded to at most one courier, ever;                   *)
(*   - it is paid for at most once, and to the courier it was awarded to.  *)
(* Nothing here knows of requests, statuses, tables or transactions.       *)
(***************************************************************************)
EXTENDS Sequences

CONSTANTS
  Orders,     \* the orders
  Couriers,   \* the couriers
  NULL        \* no courier

VARIABLES
  awarded,    \* awarded[o]: the courier who won order o, or NULL
  paid        \* paid[o]: the couriers the fee of o was credited to

vars == <<awarded, paid>>

Init ==
  /\ awarded = [o \in Orders |-> NULL]
  /\ paid = [o \in Orders |-> <<>>]

Award(o, c) ==
  /\ awarded[o] = NULL
  /\ awarded' = [awarded EXCEPT ![o] = c]
  /\ UNCHANGED paid

Pay(o) ==
  /\ awarded[o] # NULL
  /\ paid[o] = <<>>
  /\ paid' = [paid EXCEPT ![o] = <<awarded[o]>>]
  /\ UNCHANGED awarded

Next ==
  \/ \E o \in Orders, c \in Couriers : Award(o, c)
  \/ \E o \in Orders : Pay(o)

Spec == Init /\ [][Next]_vars

=============================================================================
