------------------------------ MODULE CashBook ------------------------------
(***************************************************************************)
(* What payout reconciliation promises, without its requests: a period is  *)
(* opened, then closed for good (FR-003 of specs/008), and only then is a  *)
(* courier paid for it, once (FR-005, FR-006, SC-004).                     *)
(***************************************************************************)
EXTENDS Naturals

CONSTANTS Periods, Couriers

VARIABLES
  book,  \* where a period stands
  paid   \* how often a courier has been paid for a period

vars == <<book, paid>>

Init ==
  /\ book = [p \in Periods |-> "none"]
  /\ paid = [p \in Periods |-> [c \in Couriers |-> 0]]

Turn(p, from, to) ==
  /\ book[p] = from
  /\ book' = [book EXCEPT ![p] = to]
  /\ UNCHANGED paid

Pay(p, c) ==
  /\ book[p] = "closed"
  /\ paid[p][c] = 0
  /\ paid' = [paid EXCEPT ![p][c] = 1]
  /\ UNCHANGED book

Next ==
  \E p \in Periods :
    \/ Turn(p, "none", "open")
    \/ Turn(p, "open", "closed")
    \/ \E c \in Couriers : Pay(p, c)

Spec == Init /\ [][Next]_vars

=============================================================================
