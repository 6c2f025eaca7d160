---------------------------- MODULE ShiftOverlaps ----------------------------
(***************************************************************************)
(* ShiftManagement with a history variable, which remembers the shift      *)
(* transactions that overlapped one of the opposite kind of the same       *)
(* courier: an opening that was in flight together with a closing.  It is  *)
(* read by no action and restricts no step: the behaviours are those of    *)
(* ShiftManagement.                                                        *)
(*                                                                         *)
(* A courier who taps a button twice contests nothing by it: whatever two  *)
(* openings, or two closings, do to each other, the promises are kept.     *)
(***************************************************************************)
EXTENDS ShiftManagement

VARIABLE
  contested   \* history: the times of the transactions ever contested

hvars == <<vars, contested>>

Shifting(t) == tx[t].kind \in {"open", "close"}

Contested ==
  {tx[t].at : t \in {t \in Requests :
     \E u \in Requests : /\ Shifting(t) /\ Shifting(u)
                         /\ tx[u].kind # tx[t].kind
                         /\ tx[u].courier = tx[t].courier}}

HInit == Init /\ contested = {}

Remember == contested' = contested \cup Contested'

HNext == Next /\ Remember

HSpec == HInit /\ [][HNext]_hvars
HFairSpec == HSpec /\ Fairness

-----------------------------------------------------------------------------
\* Assumptions of specs/007: shifts whose openings overlapped no closing end
\* after they start, and do not overlap one another.
EndsAfterStart(s) == s.ended # NULL => s.started <= s.ended

Uncontested == {s \in shifts : s.started \notin contested}

ShiftsApartUnlessContested ==
  /\ \A s \in Uncontested : EndsAfterStart(s)
  /\ \A s, r \in Uncontested : Apart(s, r)

\* FR-012: a closing that overlapped no opening is told, as the very row it
\* closed, before anybody can see it closed.
AnnouncedUnlessContested ==
  \A s \in shifts : s.ended \notin contested => Announced(s)

-----------------------------------------------------------------------------
(***************************************************************************)
(* The inductive invariant.  An uncontested transaction is later than all  *)
(* that has ended; a closing that will not get its 409 is later than all   *)
(* that it finds, so the row it looks up again is the one it wrote.        *)
(***************************************************************************)
Before(time, s) == s.started < time /\ (s.ended # NULL => s.ended < time)

History(t) == {s \in shifts : s.courier = tx[t].courier}

LatestOpen(t) ==
  tx[t].kind = "open" =>
    \A s \in History(t) : s.ended # NULL => Before(tx[t].at, s)

LatestClose(t) ==
  tx[t].kind = "close" =>
    /\ \/ tx[t].row = NULL /\ \A s \in History(t) : s.ended # NULL
       \/ \A s \in History(t) : Before(tx[t].at, s)
    /\ tx[t].pc \in {"courier", "emit", "commit"} => tx[t].found = tx[t].row
    /\ tx[t].pc = "commit" => tx[t].row \in closed

\* A closing under way is later than every uncontested opening.
ClosesLater(t) ==
  tx[t].kind = "close" =>
    \A s \in Uncontested \cap History(t) : s.started < tx[t].at

OverlapTx(t) ==
  /\ tx[t].at \notin contested => LatestOpen(t) /\ LatestClose(t)
  /\ ClosesLater(t)

IInvOverlaps ==
  /\ IInv
  /\ Contested \subseteq contested
  /\ \A s \in shifts : Before(clock + 1, s)
  /\ \A t \in Requests : OverlapTx(t)
  /\ ShiftsApartUnlessContested
  /\ AnnouncedUnlessContested

=============================================================================
