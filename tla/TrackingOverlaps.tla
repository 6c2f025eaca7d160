-------------------------- MODULE TrackingOverlaps --------------------------
(***************************************************************************)
(* CourierTracking with a history variable, which remembers the couriers   *)
(* who have ever had two submissions under way at once.  It is read by no  *)
(* action and restricts no step: the behaviours are those of               *)
(* CourierTracking.                                                        *)
(***************************************************************************)
EXTENDS CourierTracking

VARIABLE
  overlapped   \* history: the couriers two of whose submissions overlapped

hvars == <<vars, overlapped>>

Overlapped == {c \in Couriers : \E q, r \in InFlight(c) : q # r}

HInit == Init /\ overlapped = {}

Remember == overlapped' = overlapped \cup Overlapped'

HNext == Next /\ Remember

HSpec == HInit /\ [][HNext]_hvars

-----------------------------------------------------------------------------
\* The position is ahead of the history while the row is still to be inserted.
At(c) ==
  IF \E r \in InFlight(c) : req[r].pc = "insert"
  THEN req[CHOOSE r \in InFlight(c) : req[r].pc = "insert"].previous
  ELSE position[c]

\* Specs/004, FR-002 to FR-005 and FR-012: a courier who submits one location
\* at a time leaves a path, whatever everybody else does.
Path == INSTANCE CourierPath
          WITH at <- [c \in Couriers |-> IF c \in overlapped THEN NULL ELSE At(c)],
               trail <- [c \in Couriers |-> IF c \in overlapped THEN <<>> ELSE history[c]],
               shown <- [c \in Couriers |-> IF c \in overlapped THEN NULL ELSE map[c]],
               gone <- overlapped

PathSpec == Path!Spec

(***************************************************************************)
(* The inductive invariant: while a submission is the only one of its      *)
(* courier, what it has read of the position, and then written, is so.     *)
(***************************************************************************)
InStep(r) ==
  LET c == req[r].courier IN
  /\ req[r].pc = "upsert" => req[r].previous = position[c]
  /\ req[r].pc \in {"insert", "emit"} => req[r].point = position[c]

AloneIsInStep ==
  \A c \in Couriers \ overlapped :
    \A r \in InFlight(c) : InFlight(c) = {r} /\ InStep(r)

IInvOverlaps ==
  /\ IInv
  /\ overlapped \subseteq Couriers
  /\ AloneIsInStep

=============================================================================
