----------------------------- MODULE ShiftBoard -----------------------------
(***************************************************************************)
(* What the shift service promises, without its transactions: a courier is *)
(* on shift or not, opening and closing a shift also makes the courier     *)
(* available or not in the same step (FR-013 of specs/007), and every      *)
(* shift ever opened stays on record.  Staff may set the status to either  *)
(* value at any time, and touch nothing else with it.                      *)
(***************************************************************************)
EXTENDS Naturals

CONSTANT Couriers

VARIABLES
  on,         \* couriers with an open shift
  available,  \* couriers whose status is available
  sessions    \* how many shifts each courier has opened so far

vars == <<on, available, sessions>>

Init ==
  /\ on = {}
  /\ available = {}
  /\ sessions = [c \in Couriers |-> 0]

Open(c) ==
  /\ c \notin on
  /\ on' = on \cup {c}
  /\ available' = available \cup {c}
  /\ sessions' = [sessions EXCEPT ![c] = @ + 1]

Close(c) ==
  /\ c \in on
  /\ on' = on \ {c}
  /\ available' = available \ {c}
  /\ UNCHANGED sessions

Edit(c) ==
  /\ available' \in {available \cup {c}, available \ {c}}
  /\ UNCHANGED <<on, sessions>>

Next == \E c \in Couriers : Open(c) \/ Close(c) \/ Edit(c)

Spec == Init /\ [][Next]_vars

=============================================================================
