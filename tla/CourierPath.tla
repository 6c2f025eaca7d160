---------------------------- MODULE CourierPath ----------------------------
(***************************************************************************)
(* What tracking promises of couriers who submit one location at a time:   *)
(* the recorded hops follow each other, a hop is missing only where its    *)
(* submission was lost, and the map shows where the courier is.  Of a      *)
(* courier who has ever submitted two at a time it promises nothing more.  *)
(***************************************************************************)
EXTENDS Sequences

CONSTANTS Couriers, Points, Orders, NULL

VARIABLES
  at,      \* at[c]: where c is
  trail,   \* trail[c]: the recorded hops of c
  shown,   \* shown[c]: where the map shows c
  gone     \* the couriers of whom nothing is promised any more

vars == <<at, trail, shown, gone>>

Init ==
  /\ at = [c \in Couriers |-> NULL]
  /\ trail = [c \in Couriers |-> <<>>]
  /\ shown = [c \in Couriers |-> NULL]
  /\ gone = {}

Arrive(c, p, o) ==
  /\ at' = [at EXCEPT ![c] = p]
  /\ trail' = [trail EXCEPT ![c] = Append(@, [order |-> o, from |-> at[c], to |-> p])]
  /\ UNCHANGED <<shown, gone>>

\* The position was stored and the rest of the submission was lost.
Jump(c, p) ==
  /\ at' = [at EXCEPT ![c] = p]
  /\ UNCHANGED <<trail, shown, gone>>

Show(c) ==
  /\ shown' = [shown EXCEPT ![c] = at[c]]
  /\ UNCHANGED <<at, trail, gone>>

Leave(c) ==
  /\ at' = [at EXCEPT ![c] = NULL]
  /\ trail' = [trail EXCEPT ![c] = <<>>]
  /\ shown' = [shown EXCEPT ![c] = NULL]
  /\ gone' = gone \cup {c}

Next ==
  \E c \in Couriers \ gone :
    \/ \E p \in Points, o \in Orders \cup {NULL} : Arrive(c, p, o)
    \/ \E p \in Points : Jump(c, p)
    \/ Show(c)
    \/ Leave(c)

Spec == Init /\ [][Next]_vars
=============================================================================
