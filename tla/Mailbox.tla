------------------------------ MODULE Mailbox ------------------------------
(***************************************************************************)
(* What a callback queue promises a partner: a message that was put in is  *)
(* handed over at least once before it is settled, again only after a      *)
(* lapse (a refusal, a lost answer, a dead worker), and one lapse does not *)
(* make it be given up.                                                    *)
(***************************************************************************)
EXTENDS Naturals

CONSTANTS Messages, Patience

VARIABLES box, copies, lapses
vars == <<box, copies, lapses>>

Init ==
  /\ box = [m \in Messages |-> "none"]
  /\ copies = [m \in Messages |-> 0]
  /\ lapses = [m \in Messages |-> 0]

Put(m) ==
  /\ box[m] = "none"
  /\ box' = [box EXCEPT ![m] = "kept"]
  /\ UNCHANGED <<copies, lapses>>

\* A copy may arrive late, when its sender has stopped waiting for it.
Hand(m) ==
  /\ box[m] # "none"
  /\ copies[m] <= lapses[m]
  /\ copies' = [copies EXCEPT ![m] = @ + 1]
  /\ UNCHANGED <<box, lapses>>

Settle(m) ==
  /\ box[m] = "kept"
  /\ copies[m] > 0
  /\ box' = [box EXCEPT ![m] = "settled"]
  /\ UNCHANGED <<copies, lapses>>

Lapse(m) ==
  /\ box[m] = "kept"
  /\ lapses' = [lapses EXCEPT ![m] = @ + 1]
  /\ \/ UNCHANGED box
     \/ /\ lapses'[m] >= Patience
        /\ box' = [box EXCEPT ![m] = "abandoned"]
  /\ UNCHANGED copies

Next == \E m \in Messages : Put(m) \/ Hand(m) \/ Settle(m) \/ Lapse(m)

Spec == Init /\ [][Next]_vars
=============================================================================
