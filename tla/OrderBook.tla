----------------------------- MODULE OrderBook ------------------------------
(***************************************************************************)
(* What order ingestion promises, without its transactions: an order       *)
(* number is taken once (FR-004 of specs/002), and every order names the   *)
(* one client record of its phone, which is made for the first of them     *)
(* (FR-002).                                                               *)
(***************************************************************************)
CONSTANTS Numbers, Phones, Ids

VARIABLES
  book,     \* the orders placed so far: their number and their client
  contacts  \* the client records: their phone and their id

vars == <<book, contacts>>

Init == book = {} /\ contacts = {}

Known(p) == {k \in contacts : k.phone = p}

Register(p, i) ==
  \/ /\ [phone |-> p, id |-> i] \in contacts
     /\ UNCHANGED contacts
  \/ /\ Known(p) = {}
     /\ contacts' = contacts \cup {[phone |-> p, id |-> i]}

Place(n, p, i) ==
  /\ \A e \in book : e.number # n
  /\ Register(p, i)
  /\ book' = book \cup {[number |-> n, client |-> i]}

Next == \E n \in Numbers, p \in Phones, i \in Ids : Place(n, p, i)

Spec == Init /\ [][Next]_vars

=============================================================================
