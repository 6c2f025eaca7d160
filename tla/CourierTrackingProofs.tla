----------------------- MODULE CourierTrackingProofs -----------------------
(***************************************************************************)
(* Proofs about CourierTracking: the inductive invariant, what reports and *)
(* partners are told, and that the tracking of couriers whose submissions  *)
(* never overlapped implements CourierPath.  A step of a request replaces  *)
(* one record of req, so that what a request knows is shown once for any   *)
(* such replacement.                                                       *)
(***************************************************************************)
EXTENDS TrackingOverlaps, FiniteSetTheorems, TLAPS

-----------------------------------------------------------------------------
(***************************************************************************)
(* Helpers                                                                 *)
(***************************************************************************)
\* A winner stays, and rows of the history stay where they are.
WinnersStay == \A o \in Orders : winner[o] # NULL => winner'[o] = winner[o]

HistoryGrows ==
  \A c \in Couriers :
    /\ Len(history[c]) <= Len(history'[c])
    /\ \A i \in 1..Len(history[c]) : history'[c][i] = history[c][i]

\* What the invariants say of one record of req, once the step is done.
SoundNext(request) ==
  /\ request.order # NULL => winner'[request.order] = request.courier
  /\ request.pc \in {"emit", "callback"} =>
       \E i \in 1..Len(history'[request.courier]) :
         /\ history'[request.courier][i].order = request.order
         /\ history'[request.courier][i].to = request.point
  /\ request.pc = "callback" => request.order # NULL

\* A request under way, and what its fields are.
LEMMA UnderWay ==
  ASSUME TypeOK, NEW r \in Requests, req[r].pc # "idle"
  PROVE  /\ req[r] \in Submission
         /\ req[r].pc \in {"previous", "upsert", "insert", "emit", "callback"}
         /\ req[r].courier \in Couriers
         /\ req[r].point \in Points
         /\ req[r].order \in Orders \cup {NULL}
         /\ req[r].previous \in Somewhere
BY DEF TypeOK, Submission, Idle

\* Nothing that is recorded is lost.
LEMMA UnchangedGrows ==
  /\ TypeOK /\ UNCHANGED history => HistoryGrows
  /\ UNCHANGED winner => WinnersStay
BY DEF TypeOK, HistoryGrows, WinnersStay

LEMMA LengthsAreNat ==
  ASSUME TypeOK, NEW c \in Couriers
  PROVE  /\ history[c] \in Seq(Hops)
         /\ Len(history[c]) \in Nat
         /\ \A i \in 1..Len(history[c]) : history[c][i] \in Hops
BY DEF TypeOK

\* An appended row leaves the others where they are.
LEMMA AppendGrows ==
  ASSUME TypeOK, NEW c \in Couriers, NEW e \in Hops,
         history' = [history EXCEPT ![c] = Append(@, e)]
  PROVE  /\ HistoryGrows
         /\ history'[c] \in Seq(Hops)
         /\ Len(history'[c]) = Len(history[c]) + 1
         /\ history'[c][Len(history[c]) + 1] = e
         /\ \A d \in Couriers \ {c} : history'[d] = history[d]
<1>1. history[c] \in Seq(Hops) /\ Len(history[c]) \in Nat
  BY LengthsAreNat
<1>2. history'[c] = Append(history[c], e) /\ \A d \in Couriers \ {c} : history'[d] = history[d]
  BY DEF TypeOK
<1>3. /\ Append(history[c], e) \in Seq(Hops)
      /\ Len(Append(history[c], e)) = Len(history[c]) + 1
      /\ Append(history[c], e)[Len(history[c]) + 1] = e
      /\ \A i \in 1..Len(history[c]) : Append(history[c], e)[i] = history[c][i]
  BY <1>1
<1>4. HistoryGrows
  <2>1. SUFFICES ASSUME NEW d \in Couriers
                 PROVE  /\ Len(history[d]) <= Len(history'[d])
                        /\ \A i \in 1..Len(history[d]) : history'[d][i] = history[d][i]
    BY DEF HistoryGrows
  <2>2. Len(history[d]) \in Nat
    BY LengthsAreNat
  <2>3. CASE d = c
    BY <1>1, <1>2, <1>3, <2>3
  <2>4. CASE d # c
    BY <1>2, <2>2, <2>4
  <2> QED
    BY <2>3, <2>4
<1> QED
  BY <1>2, <1>3, <1>4

\* The pairs of the list are finitely many, and a growing history loses none.
LEMMA GroupsAreFinite ==
  ASSUME NEW o, NEW c
  PROVE  IsFiniteSet(Groups(o, c)) /\ Cardinality(Groups(o, c)) \in Nat
<1>1. IsFiniteSet(Couriers \X Orders)
  BY FS_Product, TrackingAssumption
<1>2. Groups(o, c) \in SUBSET (Couriers \X Orders)
  BY DEF Groups
<1> QED
  BY <1>1, <1>2, FS_Subset, FS_CardinalityType

LEMMA GroupsAreFiniteNext ==
  ASSUME NEW o, NEW c
  PROVE  IsFiniteSet(Groups(o, c)') /\ Cardinality(Groups(o, c)') \in Nat
<1>1. IsFiniteSet(Couriers \X Orders)
  BY FS_Product, TrackingAssumption
<1>2. Groups(o, c)' \in SUBSET (Couriers \X Orders)
  BY DEF Groups
<1> QED
  BY <1>1, <1>2, FS_Subset, FS_CardinalityType

LEMMA GroupsGrow ==
  ASSUME TypeOK, HistoryGrows, TypeOK', NEW o, NEW c
  PROVE  Cardinality(Groups(o, c)) <= Cardinality(Groups(o, c)')
<1>1. \A d \in Couriers, p \in Orders : Tracked(d, p) => Tracked(d, p)'
  <2> SUFFICES ASSUME NEW d \in Couriers, NEW p \in Orders, Tracked(d, p)
               PROVE  Tracked(d, p)'
    OBVIOUS
  <2>1. Len(history[d]) \in Nat /\ Len(history'[d]) \in Nat
    BY LengthsAreNat DEF TypeOK
  <2>2. PICK i \in 1..Len(history[d]) : history[d][i].order = p
    BY DEF Tracked
  <2>3. i \in 1..Len(history'[d]) /\ history'[d][i].order = p
    BY <2>1, <2>2 DEF HistoryGrows
  <2> QED
    BY <2>3 DEF Tracked
<1>2. Groups(o, c) \in SUBSET (Groups(o, c)')
  BY <1>1 DEF Groups
<1>3. IsFiniteSet(Groups(o, c)')
  BY GroupsAreFiniteNext
<1> QED
  BY <1>2, <1>3, FS_Subset

-----------------------------------------------------------------------------
(***************************************************************************)
(* What the parts of the invariant keep                                    *)
(***************************************************************************)
LEMMA KeepOrders == ASSUME OrdersAreSound, UNCHANGED flow PROVE OrdersAreSound'
BY DEF OrdersAreSound, flow

\* The record of one request is replaced by a sound one.
LEMMA KeepRequests ==
  ASSUME TypeOK, TypeOK', RequestsAreSound, WinnersStay, HistoryGrows,
         NEW r \in Requests, NEW new, req' = [req EXCEPT ![r] = new], SoundNext(new)
  PROVE  RequestsAreSound'
<1> SUFFICES ASSUME NEW s \in Requests
             PROVE  /\ req'[s].order # NULL => winner'[req'[s].order] = req'[s].courier
                    /\ req'[s].pc \in {"emit", "callback"} => Recorded(req[s])'
                    /\ req'[s].pc = "callback" => req'[s].order # NULL
  BY DEF RequestsAreSound
<1>1. CASE s = r
  <2>1. req'[s] = new
    BY <1>1 DEF TypeOK
  <2> QED
    BY <2>1 DEF SoundNext, Recorded
<1>2. CASE s # r
  <2>1. req'[s] = req[s]
    BY <1>2 DEF TypeOK
  <2>2. CASE req[s].pc = "idle"
    BY <2>1, <2>2 DEF TypeOK, Idle, Submission
  <2>3. CASE req[s].pc # "idle"
    <3>1. req[s].courier \in Couriers /\ req[s].order \in Orders \cup {NULL}
      BY <2>3, UnderWay
    <3>2. req[s].order # NULL => winner'[req[s].order] = req[s].courier
      BY <3>1, TrackingAssumption DEF RequestsAreSound, WinnersStay
    <3>3. ASSUME req[s].pc \in {"emit", "callback"} PROVE Recorded(req[s])'
      <4>1. PICK i \in 1..Len(history[req[s].courier]) :
              /\ history[req[s].courier][i].order = req[s].order
              /\ history[req[s].courier][i].to = req[s].point
        BY <3>3 DEF RequestsAreSound, Recorded
      <4>2. Len(history[req[s].courier]) \in Nat /\ Len(history'[req[s].courier]) \in Nat
        BY <3>1 DEF TypeOK
      <4>3. i \in 1..Len(history'[req[s].courier])
            /\ history'[req[s].courier][i] = history[req[s].courier][i]
        BY <3>1, <4>2 DEF HistoryGrows
      <4> QED
        BY <2>1, <4>1, <4>3 DEF Recorded
    <3> QED
      BY <2>1, <3>2, <3>3 DEF RequestsAreSound
  <2> QED
    BY <2>2, <2>3
<1> QED
  BY <1>1, <1>2

\* No request changes.
LEMMA KeepIdleRequests ==
  ASSUME TypeOK, RequestsAreSound, WinnersStay, UNCHANGED <<req, history>>
  PROVE  RequestsAreSound'
<1> SUFFICES ASSUME NEW s \in Requests
             PROVE  /\ req[s].order # NULL => winner'[req[s].order] = req[s].courier
                    /\ req[s].pc \in {"emit", "callback"} => Recorded(req[s])
                    /\ req[s].pc = "callback" => req[s].order # NULL
  BY DEF RequestsAreSound, Recorded
<1>1. CASE req[s].pc = "idle"
  <2>1. req[s] = Idle
    BY <1>1 DEF TypeOK, Submission
  <2> QED
    BY <2>1 DEF Idle
<1>2. CASE req[s].pc # "idle"
  <2>1. req[s].courier \in Couriers /\ req[s].order \in Orders \cup {NULL}
    BY <1>2, UnderWay
  <2> QED
    BY <2>1, TrackingAssumption DEF RequestsAreSound, WinnersStay
<1> QED
  BY <1>1, <1>2

LEMMA KeepHistory ==
  ASSUME TypeOK, HistoryIsSound, WinnersStay, UNCHANGED history
  PROVE  HistoryIsSound'
<1> SUFFICES ASSUME NEW c \in Couriers, NEW i \in 1..Len(history[c]), history[c][i].order # NULL
             PROVE  winner'[history[c][i].order] = c
  BY DEF HistoryIsSound
<1>1. history[c][i].order \in Orders
  BY LengthsAreNat DEF Hops
<1> QED
  BY <1>1, TrackingAssumption DEF HistoryIsSound, WinnersStay

LEMMA KeepReader ==
  ASSUME TypeOK, TypeOK', ReadersAreSound, WinnersStay, HistoryGrows,
         NEW q \in Readers, reader'[q] = reader[q]
  PROVE  /\ reader'[q].pc = "points" =>
              /\ reader'[q].order # NULL
              /\ reader'[q].courier # NULL => winner'[reader'[q].order] = reader'[q].courier
         /\ reader'[q].pc = "rows" =>
              reader'[q].total <= Cardinality(Groups(reader[q].order, reader[q].courier))'
<1>1. ASSUME reader[q].pc = "points"
      PROVE  /\ reader[q].order # NULL
             /\ reader[q].courier # NULL => winner'[reader[q].order] = reader[q].courier
  <2>1. reader[q] \in Report
    BY <1>1 DEF TypeOK, Closed
  <2>2. reader[q].order \in Orders
    BY <1>1, <2>1 DEF ReadersAreSound, Report
  <2> QED
    BY <1>1, <2>2 DEF ReadersAreSound, WinnersStay
<1>2. ASSUME reader[q].pc = "rows"
      PROVE  reader[q].total <= Cardinality(Groups(reader[q].order, reader[q].courier))'
  <2>1. PICK o, c : o = reader[q].order /\ c = reader[q].courier
    OBVIOUS
  <2>2. Groups(reader[q].order, reader[q].courier) = Groups(o, c)
    BY <2>1
  <2>3. Groups(reader[q].order, reader[q].courier)' = Groups(o, c)'
    BY <2>1 DEF Groups, Tracked
  <2>4. reader[q] \in Report
    BY <1>2 DEF TypeOK, Closed
  <2>5. reader[q].total \in Nat
    BY <2>4 DEF Report
  <2>6. /\ Cardinality(Groups(o, c)) \in Nat
        /\ Cardinality(Groups(o, c)') \in Nat
        /\ Cardinality(Groups(o, c)) <= Cardinality(Groups(o, c)')
    BY GroupsAreFinite, GroupsAreFiniteNext, GroupsGrow
  <2>7. reader[q].total <= Cardinality(Groups(o, c))
    BY <1>2, <2>2 DEF ReadersAreSound
  <2> QED
    BY <2>3, <2>5, <2>6, <2>7
<1> QED
  BY <1>1, <1>2

LEMMA KeepReaders ==
  ASSUME TypeOK, TypeOK', ReadersAreSound, WinnersStay, HistoryGrows, UNCHANGED reader
  PROVE  ReadersAreSound'
BY KeepReader DEF ReadersAreSound

LEMMA KeepAnswers == ASSUME AnswersAreSound, UNCHANGED answer PROVE AnswersAreSound'
BY DEF AnswersAreSound

LEMMA KeepPartner ==
  ASSUME TypeOK, TypeOK', PartnerSeesTheRoute, WinnersStay, HistoryGrows, UNCHANGED locationJobs
  PROVE  PartnerSeesTheRoute'
<1> SUFFICES ASSUME NEW job \in locationJobs
             PROVE  /\ winner'[job.order] = job.courier
                    /\ \E i \in 1..Len(history'[job.courier]) :
                         /\ history'[job.courier][i].order = job.order
                         /\ history'[job.courier][i].to = job.point
  BY DEF PartnerSeesTheRoute
<1>1. job.courier \in Couriers /\ job.order \in Orders
  BY DEF TypeOK
<1>2. winner'[job.order] = job.courier
  BY <1>1, TrackingAssumption DEF PartnerSeesTheRoute, WinnersStay
<1>3. PICK i \in 1..Len(history[job.courier]) :
        /\ history[job.courier][i].order = job.order
        /\ history[job.courier][i].to = job.point
  BY DEF PartnerSeesTheRoute
<1>4. Len(history[job.courier]) \in Nat /\ Len(history'[job.courier]) \in Nat
  BY <1>1 DEF TypeOK
<1>5. i \in 1..Len(history'[job.courier]) /\ history'[job.courier][i] = history[job.courier][i]
  BY <1>1, <1>4 DEF HistoryGrows
<1> QED
  BY <1>2, <1>3, <1>5

-----------------------------------------------------------------------------
(***************************************************************************)
(* Initially                                                               *)
(***************************************************************************)
LEMMA InitIsSound == Init => IInv
<1> SUFFICES ASSUME Init PROVE IInv
  OBVIOUS
<1>1. \A r \in Requests : req[r] = Idle
  BY DEF Init
<1>2. \A c \in Couriers : history[c] = <<>>
  BY DEF Init
<1>3. TypeOK
  BY DEF Init, TypeOK, Statuses, Somebody, Somewhere
<1>4. OrdersAreSound
  BY DEF Init, OrdersAreSound
<1>5. RequestsAreSound
  BY <1>1 DEF RequestsAreSound, Idle
<1>6. HistoryIsSound
  BY <1>2 DEF HistoryIsSound
<1>7. ReadersAreSound
  BY DEF Init, ReadersAreSound, Closed
<1>8. AnswersAreSound
  BY DEF Init, AnswersAreSound, NoAnswer
<1>9. PartnerSeesTheRoute
  BY DEF Init, PartnerSeesTheRoute
<1> QED
  BY <1>3, <1>4, <1>5, <1>6, <1>7, <1>8, <1>9 DEF IInv

-----------------------------------------------------------------------------
(***************************************************************************)
(* The steps of a submission                                               *)
(***************************************************************************)
\* A submission replaces one record of req; reports and orders rest.
LEMMA FindActiveOrderKeeps ==
  ASSUME IInv, NEW r \in Requests, NEW c \in Couriers, NEW p \in Points,
         NEW o \in Orders \cup {NULL}, FindActiveOrder(r, c, p, o)
  PROVE  IInv'
<1> DEFINE new == [pc |-> "previous", courier |-> c, point |-> p, order |-> o, previous |-> NULL]
<1>1. new \in Submission
  BY DEF Submission, Somewhere
<1>2. /\ UNCHANGED <<orders, winner, position, history, map, reader, answer, locationJobs>>
      /\ req' = [req EXCEPT ![r] = new]
  BY DEF FindActiveOrder, jobs, flow, track, reports
<1>3. o # NULL => winner[o] = c
  <2> SUFFICES ASSUME o # NULL PROVE winner[o] = c
    OBVIOUS
  <2>1. o \in ActiveOrders(c)
    BY DEF FindActiveOrder
  <2> QED
    BY <2>1, TrackingAssumption DEF ActiveOrders, IInv, OrdersAreSound
<1>4. TypeOK'
  BY <1>1, <1>2 DEF IInv, TypeOK
<1>5. WinnersStay /\ HistoryGrows
  BY <1>2, UnchangedGrows DEF IInv
<1>6. SoundNext(new)
  BY <1>2, <1>3 DEF SoundNext
<1> HIDE DEF new
<1> QED
  BY <1>2, <1>4, <1>5, <1>6, KeepOrders, KeepRequests, KeepHistory, KeepReaders,
     KeepAnswers, KeepPartner DEF IInv, flow

\* What the other steps of a submission that leave the history have in common.
LEMMA ContinueKeeps ==
  ASSUME IInv, NEW r \in Requests, req[r].pc # "idle",
         NEW new \in Submission \cup {Idle}, req' = [req EXCEPT ![r] = new],
         SoundNext(new),
         position' \in [Couriers -> Somewhere], map' \in [Couriers -> Somewhere],
         history' \in [Couriers -> Seq(Hops)], HistoryGrows, HistoryIsSound',
         UNCHANGED <<flow, reports>>
  PROVE  /\ locationJobs' \subseteq [courier : Couriers, order : Orders, point : Points] => TypeOK'
         /\ TypeOK' /\ PartnerSeesTheRoute' => IInv'
         /\ TypeOK' /\ UNCHANGED locationJobs => IInv'
<1>1. UNCHANGED <<orders, winner, reader, answer>>
  BY DEF flow, reports
<1>2. locationJobs' \subseteq [courier : Couriers, order : Orders, point : Points] => TypeOK'
  BY <1>1 DEF IInv, TypeOK
<1>3. WinnersStay
  BY <1>1, UnchangedGrows
<1>4. TypeOK' /\ PartnerSeesTheRoute' => IInv'
  BY <1>1, <1>3, KeepOrders, KeepRequests, KeepReaders, KeepAnswers DEF IInv
<1>5. TypeOK' /\ UNCHANGED locationJobs => PartnerSeesTheRoute'
  BY <1>3, KeepPartner DEF IInv
<1> QED
  BY <1>2, <1>4, <1>5

LEMMA LoadPreviousKeeps ==
  ASSUME IInv, NEW r \in Requests, LoadPrevious(r)
  PROVE  IInv'
<1> DEFINE new == [req[r] EXCEPT !.pc = "upsert", !.previous = position[req[r].courier]]
<1>1. /\ req[r].pc = "previous"
      /\ req' = [req EXCEPT ![r] = new]
      /\ UNCHANGED <<flow, position, history, map, reports, locationJobs>>
  BY DEF LoadPrevious, jobs, track
<1>2. req[r] \in Submission /\ req[r].courier \in Couriers
  BY <1>1, UnderWay DEF IInv
<1>3. position[req[r].courier] \in Somewhere
  BY <1>2 DEF IInv, TypeOK
<1>4. /\ new \in Submission /\ new.pc = "upsert" /\ new.courier = req[r].courier
      /\ new.order = req[r].order /\ new.previous = position[req[r].courier]
  BY <1>2, <1>3 DEF Submission
<1>5. WinnersStay /\ HistoryGrows /\ HistoryIsSound'
  BY <1>1, UnchangedGrows, KeepHistory DEF IInv, flow
<1>6. SoundNext(new)
  BY <1>1, <1>4 DEF SoundNext, IInv, RequestsAreSound, flow
<1>7. position' \in [Couriers -> Somewhere] /\ map' \in [Couriers -> Somewhere]
      /\ history' \in [Couriers -> Seq(Hops)]
      /\ locationJobs' \subseteq [courier : Couriers, order : Orders, point : Points]
  BY <1>1 DEF IInv, TypeOK
<1> HIDE DEF new
<1> QED
  BY <1>1, <1>4, <1>5, <1>6, <1>7, ContinueKeeps

LEMMA UpsertPositionKeeps ==
  ASSUME IInv, NEW r \in Requests, UpsertPosition(r)
  PROVE  IInv'
<1> DEFINE new == [req[r] EXCEPT !.pc = "insert"]
<1>1. /\ req[r].pc = "upsert"
      /\ req' = [req EXCEPT ![r] = new]
      /\ position' = [position EXCEPT ![req[r].courier] = req[r].point]
      /\ UNCHANGED <<flow, history, map, reports, locationJobs>>
  BY DEF UpsertPosition, Step, jobs
<1>2. req[r] \in Submission /\ req[r].courier \in Couriers /\ req[r].point \in Points
  BY <1>1, UnderWay DEF IInv
<1>3. /\ new \in Submission /\ new.pc = "insert" /\ new.courier = req[r].courier
      /\ new.order = req[r].order /\ new.point = req[r].point
  BY <1>2 DEF Submission
<1>4. WinnersStay /\ HistoryGrows /\ HistoryIsSound'
  BY <1>1, UnchangedGrows, KeepHistory DEF IInv, flow
<1>5. SoundNext(new)
  BY <1>1, <1>3 DEF SoundNext, IInv, RequestsAreSound, flow
<1>6. position' \in [Couriers -> Somewhere] /\ map' \in [Couriers -> Somewhere]
      /\ history' \in [Couriers -> Seq(Hops)]
      /\ locationJobs' \subseteq [courier : Couriers, order : Orders, point : Points]
  BY <1>1, <1>2 DEF IInv, TypeOK, Somewhere
<1> HIDE DEF new
<1> QED
  BY <1>1, <1>3, <1>4, <1>5, <1>6, ContinueKeeps

\* The row that is inserted is what the request will have recorded, and its
\* order is one that its courier has won.
LEMMA InsertHistoryKeeps ==
  ASSUME IInv, NEW r \in Requests, InsertHistory(r)
  PROVE  IInv'
<1> DEFINE new == [req[r] EXCEPT !.pc = "emit"]
           c == req[r].courier
           e == Entry(req[r])
<1>1. /\ req[r].pc = "insert"
      /\ req' = [req EXCEPT ![r] = new]
      /\ history' = [history EXCEPT ![c] = Append(@, e)]
      /\ UNCHANGED <<flow, position, map, reports, locationJobs>>
  BY DEF InsertHistory, Step, jobs
<1>2. /\ req[r] \in Submission /\ c \in Couriers /\ req[r].point \in Points
      /\ req[r].order \in Orders \cup {NULL} /\ req[r].previous \in Somewhere
  BY <1>1, UnderWay DEF IInv
<1>3. /\ new \in Submission /\ new.pc = "emit" /\ new.courier = c
      /\ new.order = req[r].order /\ new.point = req[r].point
  BY <1>2 DEF Submission
<1>4. e \in Hops /\ e.order = req[r].order /\ e.to = req[r].point
  BY <1>2 DEF Entry, Hops
<1>5. req[r].order # NULL => winner[req[r].order] = c
  BY DEF IInv, RequestsAreSound
<1>6. PICK i : i = Len(history[c]) + 1
  OBVIOUS
<1>7. /\ HistoryGrows
      /\ history'[c] \in Seq(Hops)
      /\ Len(history'[c]) = i
      /\ history'[c][i] = e
      /\ \A d \in Couriers \ {c} : history'[d] = history[d]
  <2>1. IInv => TypeOK
    BY DEF IInv
  <2> HIDE DEF c, e
  <2> QED
    BY <1>1, <1>2, <1>4, <1>6, <2>1, AppendGrows
<1>8. Len(history[c]) \in Nat /\ i \in 1..Len(history'[c]) /\ i - 1 = Len(history[c])
  BY <1>2, <1>6, <1>7, LengthsAreNat DEF IInv
<1>9. WinnersStay /\ winner' = winner
  BY <1>1, UnchangedGrows DEF flow
<1>10. HistoryIsSound'
  <2> SUFFICES ASSUME NEW d \in Couriers, NEW k \in 1..Len(history'[d]),
                      history'[d][k].order # NULL
               PROVE  winner[history'[d][k].order] = d
    BY <1>9 DEF HistoryIsSound
  <2>1. CASE d # c
    BY <1>7, <2>1 DEF IInv, HistoryIsSound
  <2>2. CASE d = c /\ k = i
    BY <1>4, <1>5, <1>7, <2>2
  <2>3. CASE d = c /\ k # i
    <3>1. k \in 1..Len(history[c])
      BY <1>7, <1>8, <2>3
    <3>2. history'[c][k] = history[c][k]
      BY <1>2, <1>7, <3>1 DEF HistoryGrows
    <3> QED
      BY <2>3, <3>1, <3>2 DEF IInv, HistoryIsSound
  <2> QED
    BY <2>1, <2>2, <2>3
<1>11. SoundNext(new)
  BY <1>3, <1>4, <1>5, <1>7, <1>8, <1>9 DEF SoundNext
<1>12. position' \in [Couriers -> Somewhere] /\ map' \in [Couriers -> Somewhere]
       /\ history' \in [Couriers -> Seq(Hops)]
       /\ locationJobs' \subseteq [courier : Couriers, order : Orders, point : Points]
  BY <1>1, <1>2, <1>7 DEF IInv, TypeOK
<1>13. TypeOK'
  BY <1>1, <1>3, <1>12 DEF IInv, TypeOK, flow, reports
<1>14. OrdersAreSound' /\ ReadersAreSound' /\ AnswersAreSound' /\ PartnerSeesTheRoute'
  BY <1>1, <1>7, <1>9, <1>13, KeepOrders, KeepReaders, KeepAnswers, KeepPartner DEF IInv, reports
<1>15. RequestsAreSound'
  <2> HIDE DEF new
  <2> QED
    BY <1>1, <1>7, <1>9, <1>11, <1>13, KeepRequests DEF IInv
<1> QED
  BY <1>10, <1>13, <1>14, <1>15 DEF IInv

LEMMA EmitLocationUpdatedKeeps ==
  ASSUME IInv, NEW r \in Requests, EmitLocationUpdated(r)
  PROVE  IInv'
<1> DEFINE new == IF req[r].order \in WithCallback THEN [req[r] EXCEPT !.pc = "callback"] ELSE Idle
<1>1. /\ req[r].pc = "emit"
      /\ req' = [req EXCEPT ![r] = new]
      /\ map' = [map EXCEPT ![req[r].courier] = req[r].point]
      /\ UNCHANGED <<flow, position, history, reports, locationJobs>>
  BY DEF EmitLocationUpdated, Step, Return, jobs
<1>2. req[r] \in Submission /\ req[r].courier \in Couriers /\ req[r].point \in Points
  BY <1>1, UnderWay DEF IInv
<1>3. \/ new = Idle
      \/ /\ new \in Submission /\ new.pc = "callback" /\ new.courier = req[r].courier
         /\ new.order = req[r].order /\ new.point = req[r].point /\ new.order # NULL
  BY <1>2, TrackingAssumption DEF Submission
<1>4. WinnersStay /\ HistoryGrows /\ HistoryIsSound'
  BY <1>1, UnchangedGrows, KeepHistory DEF IInv, flow
<1>5. SoundNext(new)
  <2>1. CASE new = Idle
    <3> HIDE DEF new
    <3> QED
      BY <2>1 DEF SoundNext, Idle
  <2>2. CASE new # Idle
    <3>1. /\ req[r].order # NULL => winner[req[r].order] = req[r].courier
          /\ Recorded(req[r])
      BY <1>1 DEF IInv, RequestsAreSound
    <3> HIDE DEF new
    <3> QED
      BY <1>1, <1>3, <2>2, <3>1 DEF SoundNext, Recorded, flow
  <2> QED
    BY <2>1, <2>2
<1>6. position' \in [Couriers -> Somewhere] /\ map' \in [Couriers -> Somewhere]
      /\ history' \in [Couriers -> Seq(Hops)]
      /\ locationJobs' \subseteq [courier : Couriers, order : Orders, point : Points]
  BY <1>1, <1>2 DEF IInv, TypeOK, Somewhere
<1> HIDE DEF new
<1> QED
  BY <1>1, <1>3, <1>4, <1>5, <1>6, ContinueKeeps

\* The job repeats what the request has recorded.
LEMMA EnqueueLocationKeeps ==
  ASSUME IInv, NEW r \in Requests, EnqueueLocation(r)
  PROVE  IInv'
<1>1. /\ req[r].pc = "callback"
      /\ req' = [req EXCEPT ![r] = Idle]
      /\ locationJobs' = locationJobs \cup {LocationJob(req[r])}
      /\ UNCHANGED <<flow, position, history, map, reports>>
  BY DEF EnqueueLocation, Return, track
<1>2. /\ req[r].courier \in Couriers /\ req[r].point \in Points
      /\ req[r].order \in Orders /\ winner[req[r].order] = req[r].courier /\ Recorded(req[r])
  BY <1>1, UnderWay DEF IInv, RequestsAreSound
<1>3. WinnersStay /\ HistoryGrows /\ HistoryIsSound'
  BY <1>1, UnchangedGrows, KeepHistory DEF IInv, flow
<1>4. SoundNext(Idle) /\ Idle.pc = "idle"
  BY DEF SoundNext, Idle
<1>5. position' \in [Couriers -> Somewhere] /\ map' \in [Couriers -> Somewhere]
      /\ history' \in [Couriers -> Seq(Hops)]
      /\ locationJobs' \subseteq [courier : Couriers, order : Orders, point : Points]
  BY <1>1, <1>2 DEF IInv, TypeOK, LocationJob
<1>6. PartnerSeesTheRoute'
  BY <1>1, <1>2 DEF IInv, PartnerSeesTheRoute, Recorded, LocationJob, flow
<1> QED
  BY <1>1, <1>3, <1>4, <1>5, <1>6, ContinueKeeps

LEMMA FailKeeps ==
  ASSUME IInv, NEW r \in Requests, Fail(r)
  PROVE  IInv'
<1>1. /\ req[r].pc # "idle"
      /\ req' = [req EXCEPT ![r] = Idle]
      /\ UNCHANGED <<flow, position, history, map, reports, locationJobs>>
  BY DEF Fail, Return, track
<1>2. WinnersStay /\ HistoryGrows /\ HistoryIsSound'
  BY <1>1, UnchangedGrows, KeepHistory DEF IInv, flow
<1>3. SoundNext(Idle) /\ Idle.pc = "idle"
  BY DEF SoundNext, Idle
<1>4. position' \in [Couriers -> Somewhere] /\ map' \in [Couriers -> Somewhere]
      /\ history' \in [Couriers -> Seq(Hops)]
      /\ locationJobs' \subseteq [courier : Couriers, order : Orders, point : Points]
  BY <1>1 DEF IInv, TypeOK
<1> QED
  BY <1>1, <1>2, <1>3, <1>4, ContinueKeeps

-----------------------------------------------------------------------------
(***************************************************************************)
(* The steps of a report                                                   *)
(***************************************************************************)
\* A report changes nothing but what it has read and answered.
LEMMA ReportsKeep ==
  ASSUME IInv, UNCHANGED <<flow, track, req, locationJobs>>,
         reader' \in [Readers -> Report \cup {Closed}],
         answer' \in [Readers -> Route \cup Page \cup {NoAnswer}],
         ReadersAreSound', AnswersAreSound'
  PROVE  IInv'
<1>1. UNCHANGED <<orders, winner, position, history, map>>
  BY DEF flow, track
<1>2. TypeOK'
  BY <1>1 DEF IInv, TypeOK
<1>3. WinnersStay /\ HistoryGrows
  BY <1>1, UnchangedGrows DEF IInv
<1> QED
  BY <1>1, <1>2, <1>3, KeepOrders, KeepIdleRequests, KeepHistory, KeepPartner
     DEF IInv, flow

\* A report that has begun knows the winner, or no more routes than there are.
LEMMA OpenKeeps ==
  ASSUME IInv, NEW q \in Readers, NEW pc \in {"points", "rows"}, NEW o \in Orders \cup {NULL},
         NEW c \in Somebody, NEW offset \in Nat, NEW total \in Nat,
         Open(q, pc, o, c, offset, total),
         pc = "points" => o # NULL /\ (c # NULL => winner[o] = c),
         pc = "rows" => total <= Cardinality(Groups(o, c))
  PROVE  IInv'
<1> DEFINE new == [pc |-> pc, order |-> o, courier |-> c, offset |-> offset, total |-> total]
<1>1. /\ reader' = [reader EXCEPT ![q] = new]
      /\ answer' = [answer EXCEPT ![q] = NoAnswer]
      /\ UNCHANGED <<flow, track, req, locationJobs>>
      /\ UNCHANGED <<winner, history>>
  BY DEF Open, jobs, flow, track
<1>2. new \in Report
  BY DEF Report
<1>3. /\ reader' \in [Readers -> Report \cup {Closed}]
      /\ answer' \in [Readers -> Route \cup Page \cup {NoAnswer}]
  BY <1>1, <1>2 DEF IInv, TypeOK
<1>4. reader'[q] = new /\ \A k \in Readers \ {q} : reader'[k] = reader[k]
  BY <1>1 DEF IInv, TypeOK
<1>5. answer'[q] = NoAnswer /\ \A k \in Readers \ {q} : answer'[k] = answer[k]
  BY <1>1 DEF IInv, TypeOK
<1>6. ReadersAreSound'
  <2> SUFFICES ASSUME NEW k \in Readers
               PROVE  /\ reader'[k].pc = "points" =>
                           /\ reader'[k].order # NULL
                           /\ reader'[k].courier # NULL =>
                                winner[reader'[k].order] = reader'[k].courier
                      /\ reader'[k].pc = "rows" =>
                           reader'[k].total <= Cardinality(Groups(reader'[k].order, reader'[k].courier))
    BY <1>1 DEF ReadersAreSound, Groups, Tracked
  <2>1. CASE k = q
    BY <1>4, <2>1
  <2>2. CASE k # q
    BY <1>4, <2>2 DEF IInv, ReadersAreSound
  <2> QED
    BY <2>1, <2>2
<1>7. AnswersAreSound'
  BY <1>5 DEF IInv, AnswersAreSound, NoAnswer
<1> QED
  BY <1>1, <1>3, <1>6, <1>7, ReportsKeep

LEMMA RespondKeeps ==
  ASSUME IInv, NEW q \in Readers, NEW a \in Route \cup Page, Respond(q, a),
         a.kind = "route" /\ a.by # {} => a.by = {a.courier},
         a.kind = "page" /\ a.listed => a.rows # {}
  PROVE  IInv'
<1>1. /\ reader' = [reader EXCEPT ![q] = Closed]
      /\ answer' = [answer EXCEPT ![q] = a]
      /\ UNCHANGED <<flow, track, req, locationJobs>>
      /\ UNCHANGED <<winner, history>>
  BY DEF Respond, jobs, flow, track
<1>2. /\ reader' \in [Readers -> Report \cup {Closed}]
      /\ answer' \in [Readers -> Route \cup Page \cup {NoAnswer}]
  BY <1>1 DEF IInv, TypeOK
<1>3. reader'[q] = Closed /\ \A k \in Readers \ {q} : reader'[k] = reader[k]
  BY <1>1 DEF IInv, TypeOK
<1>4. answer'[q] = a /\ \A k \in Readers \ {q} : answer'[k] = answer[k]
  BY <1>1 DEF IInv, TypeOK
<1>5. ReadersAreSound'
  <2> SUFFICES ASSUME NEW k \in Readers
               PROVE  /\ reader'[k].pc = "points" =>
                           /\ reader'[k].order # NULL
                           /\ reader'[k].courier # NULL =>
                                winner[reader'[k].order] = reader'[k].courier
                      /\ reader'[k].pc = "rows" =>
                           reader'[k].total <= Cardinality(Groups(reader'[k].order, reader'[k].courier))
    BY <1>1 DEF ReadersAreSound, Groups, Tracked
  <2>1. CASE k = q
    BY <1>3, <2>1 DEF Closed
  <2>2. CASE k # q
    BY <1>3, <2>2 DEF IInv, ReadersAreSound
  <2> QED
    BY <2>1, <2>2
<1>6. AnswersAreSound'
  BY <1>4 DEF IInv, AnswersAreSound
<1> QED
  BY <1>1, <1>2, <1>5, <1>6, ReportsKeep

LEMMA RouteLoadOrderKeeps ==
  ASSUME IInv, NEW q \in Readers, NEW o \in Orders, RouteLoadOrder(q, o)
  PROVE  IInv'
<1>1. orders[o].courier \in Somebody /\ o # NULL
  BY TrackingAssumption DEF IInv, TypeOK
<1>2. orders[o].courier # NULL => winner[o] = orders[o].courier
  BY DEF IInv, OrdersAreSound
<1>3. Open(q, "points", o, orders[o].courier, 0, 0)
  BY DEF RouteLoadOrder
<1> QED
  BY <1>1, <1>2, <1>3, OpenKeeps

LEMMA ListCountKeeps ==
  ASSUME IInv, NEW q \in Readers, NEW o \in Orders \cup {NULL}, NEW c \in Couriers \cup {NULL},
         NEW page \in 1..2, ListCount(q, o, c, page)
  PROVE  IInv'
<1>1. (page - 1) * PageSize \in Nat
  <2>1. page - 1 = 0 \/ page - 1 = 1
    OBVIOUS
  <2> QED
    BY <2>1, TrackingAssumption
<1>2. CountGroups(o, c) \in Nat /\ CountGroups(o, c) <= Cardinality(Groups(o, c))
  BY GroupsAreFinite DEF CountGroups
<1>3. Open(q, "rows", o, c, (page - 1) * PageSize, CountGroups(o, c))
  BY DEF ListCount
<1> QED
  BY <1>1, <1>2, <1>3, OpenKeeps DEF Somebody

\* Whoever has points of an order has won it: they are all of one courier.
LEMMA RouteFindPointsKeeps ==
  ASSUME IInv, NEW q \in Readers, NEW first \in Couriers \cup {NULL}, RouteFindPoints(q, first)
  PROVE  IInv'
<1> DEFINE o == reader[q].order
           by == CouriersOf(o)
           a == [kind |-> "route", order |-> o, by |-> by,
                 courier |-> IF reader[q].courier # NULL THEN reader[q].courier ELSE first]
<1>1. /\ reader[q].pc = "points"
      /\ IF by = {} THEN first = NULL ELSE first \in by
      /\ Respond(q, a)
  BY DEF RouteFindPoints
<1>2. reader[q] \in Report
  BY <1>1 DEF IInv, TypeOK, Closed
<1>3. o \in Orders /\ reader[q].courier \in Somebody
  BY <1>1, <1>2 DEF Report, IInv, ReadersAreSound
<1>4. reader[q].courier # NULL => winner[o] = reader[q].courier
  BY <1>1 DEF IInv, ReadersAreSound
<1>5. \A c \in by : winner[o] = c
  <2> SUFFICES ASSUME NEW c \in by PROVE winner[o] = c
    OBVIOUS
  <2>1. PICK i \in 1..Len(history[c]) : history[c][i].order = o
    BY DEF CouriersOf, Tracked
  <2> QED
    BY <1>3, <2>1, TrackingAssumption DEF IInv, HistoryIsSound, CouriersOf
<1>6. by \in SUBSET Couriers
  BY DEF CouriersOf
<1>7. a \in Route
  BY <1>3, <1>6 DEF Route, Somebody
<1>8. by # {} => by = {a.courier}
  <2> HIDE DEF by, o
  <2> QED
    BY <1>1, <1>4, <1>5
<1>9. a.kind = "route" /\ a.by = by
  OBVIOUS
<1> HIDE DEF a, by, o
<1> QED
  BY <1>1, <1>7, <1>8, <1>9, RespondKeeps

\* A page that was counted has a route at its offset still.
LEMMA ListFindRowsKeeps ==
  ASSUME IInv, NEW q \in Readers, NEW rows \in SUBSET (Couriers \X Orders), ListFindRows(q, rows)
  PROVE  IInv'
<1> DEFINE listed == reader[q].offset < reader[q].total
           a == [kind |-> "page", listed |-> listed, rows |-> rows]
           all == Groups(reader[q].order, reader[q].courier)
           left == Cardinality(all) - reader[q].offset
<1>1. /\ reader[q].pc = "rows"
      /\ Cardinality(rows) = IF left <= 0 THEN 0 ELSE IF left < PageSize THEN left ELSE PageSize
      /\ Respond(q, a)
  BY DEF ListFindRows
<1>2. reader[q] \in Report
  BY <1>1 DEF IInv, TypeOK, Closed
<1>3. reader[q].offset \in Nat /\ reader[q].total \in Nat
  BY <1>2 DEF Report
<1>4. Cardinality(all) \in Nat
  BY GroupsAreFinite
<1>5. reader[q].total <= Cardinality(all)
  BY <1>1 DEF IInv, ReadersAreSound
<1>6. listed => Cardinality(rows) # 0
  <2> HIDE DEF all
  <2> QED
    BY <1>1, <1>3, <1>4, <1>5, TrackingAssumption
<1>7. listed => rows # {}
  BY <1>6, FS_EmptySet
<1>8. a \in Page /\ a.kind = "page" /\ a.listed = listed /\ a.rows = rows
  BY DEF Page
<1> HIDE DEF a, listed
<1> QED
  BY <1>1, <1>7, <1>8, RespondKeeps

-----------------------------------------------------------------------------
(***************************************************************************)
(* The steps of the order workflow                                         *)
(***************************************************************************)
LEMMA FlowKeeps ==
  ASSUME IInv, UNCHANGED <<track, req, reports, locationJobs>>,
         orders' \in [Orders -> [status : Statuses, courier : Somebody]],
         winner' \in [Orders -> Somebody],
         WinnersStay, OrdersAreSound'
  PROVE  IInv'
<1>1. UNCHANGED <<position, history, map, reader, answer>>
  BY DEF track, reports
<1>2. TypeOK'
  BY <1>1 DEF IInv, TypeOK
<1>3. HistoryGrows
  BY <1>1, UnchangedGrows DEF IInv
<1> QED
  BY <1>1, <1>2, <1>3, KeepIdleRequests, KeepHistory, KeepReaders, KeepAnswers, KeepPartner
     DEF IInv

LEMMA ClaimKeeps ==
  ASSUME IInv, NEW o \in Orders, NEW c \in Couriers, Claim(o, c)
  PROVE  IInv'
<1>1. /\ orders[o].status = "created"
      /\ orders' = [orders EXCEPT ![o] = [status |-> "assigned", courier |-> c]]
      /\ winner' = [winner EXCEPT ![o] = c]
      /\ UNCHANGED <<track, req, reports, locationJobs>>
  BY DEF Claim, jobs
<1>2. winner[o] = NULL
  BY <1>1 DEF IInv, OrdersAreSound
<1>3. /\ orders' \in [Orders -> [status : Statuses, courier : Somebody]]
      /\ winner' \in [Orders -> Somebody]
  BY <1>1 DEF IInv, TypeOK, Statuses, Somebody
<1>4. WinnersStay
  BY <1>1, <1>2 DEF WinnersStay, IInv, TypeOK
<1>5. OrdersAreSound'
  BY <1>1 DEF IInv, TypeOK, OrdersAreSound
<1> QED
  BY <1>1, <1>3, <1>4, <1>5, FlowKeeps

LEMMA AdvanceKeeps ==
  ASSUME IInv, NEW o \in Orders, Advance(o)
  PROVE  IInv'
<1>1. /\ orders[o].status \in ActiveStatuses
      /\ orders' = [orders EXCEPT ![o].status = CourierTransition(orders[o].status)]
      /\ UNCHANGED <<winner, track, req, reports, locationJobs>>
  BY DEF Advance, jobs
<1>2. CourierTransition(orders[o].status) \in Statuses \ {"created"}
  BY <1>1 DEF CourierTransition, ActiveStatuses, Statuses
<1>3. /\ orders' \in [Orders -> [status : Statuses, courier : Somebody]]
      /\ winner' \in [Orders -> Somebody]
  BY <1>1, <1>2 DEF IInv, TypeOK
<1>4. WinnersStay
  BY <1>1 DEF WinnersStay
<1>5. OrdersAreSound'
  BY <1>1, <1>2 DEF IInv, TypeOK, OrdersAreSound
<1> QED
  BY <1>1, <1>3, <1>4, <1>5, FlowKeeps

LEMMA CancelKeeps ==
  ASSUME IInv, NEW o \in Orders, Cancel(o)
  PROVE  IInv'
<1>1. /\ orders' = [orders EXCEPT ![o] = [status |-> "cancelled", courier |-> NULL]]
      /\ UNCHANGED <<winner, track, req, reports, locationJobs>>
  BY DEF Cancel, jobs
<1>2. /\ orders' \in [Orders -> [status : Statuses, courier : Somebody]]
      /\ winner' \in [Orders -> Somebody]
  BY <1>1 DEF IInv, TypeOK, Statuses, Somebody
<1>3. WinnersStay
  BY <1>1 DEF WinnersStay
<1>4. OrdersAreSound'
  BY <1>1 DEF IInv, TypeOK, OrdersAreSound
<1> QED
  BY <1>1, <1>2, <1>3, <1>4, FlowKeeps

-----------------------------------------------------------------------------
LEMMA NextIsSound == IInv /\ [Next]_vars => IInv'
<1> SUFFICES ASSUME IInv, [Next]_vars PROVE IInv'
  OBVIOUS
<1>1. ASSUME NEW r \in Requests, NEW c \in Couriers, NEW p \in Points,
             NEW o \in Orders \cup {NULL}, FindActiveOrder(r, c, p, o)
      PROVE  IInv'
  BY <1>1, FindActiveOrderKeeps
<1>2. ASSUME NEW r \in Requests, Continue(r) PROVE IInv'
  BY <1>2, LoadPreviousKeeps, UpsertPositionKeeps, InsertHistoryKeeps, EmitLocationUpdatedKeeps,
     EnqueueLocationKeeps DEF Continue
<1>3. ASSUME NEW r \in Requests, Fail(r) PROVE IInv'
  BY <1>3, FailKeeps
<1>4. ASSUME NEW q \in Readers, NEW o \in Orders, RouteLoadOrder(q, o) PROVE IInv'
  BY <1>4, RouteLoadOrderKeeps
<1>5. ASSUME NEW q \in Readers, NEW first \in Couriers \cup {NULL}, RouteFindPoints(q, first)
      PROVE  IInv'
  BY <1>5, RouteFindPointsKeeps
<1>6. ASSUME NEW q \in Readers, NEW o \in Orders \cup {NULL}, NEW c \in Couriers \cup {NULL},
             NEW page \in 1..2, ListCount(q, o, c, page)
      PROVE  IInv'
  BY <1>6, ListCountKeeps
<1>7. ASSUME NEW q \in Readers, NEW rows \in SUBSET (Couriers \X Orders), ListFindRows(q, rows)
      PROVE  IInv'
  BY <1>7, ListFindRowsKeeps
<1>8. ASSUME NEW o \in Orders, NEW c \in Couriers, Claim(o, c) PROVE IInv'
  BY <1>8, ClaimKeeps
<1>9. ASSUME NEW o \in Orders, Advance(o) \/ Cancel(o) PROVE IInv'
  BY <1>9, AdvanceKeeps, CancelKeeps
<1>10. CASE UNCHANGED vars
  <2>1. UNCHANGED <<flow, track, req, reports, locationJobs>>
        /\ UNCHANGED <<orders, winner, reader, answer, history>>
    BY <1>10 DEF vars, jobs, flow, track, reports
  <2>2. /\ reader' \in [Readers -> Report \cup {Closed}]
        /\ answer' \in [Readers -> Route \cup Page \cup {NoAnswer}]
    BY <2>1 DEF IInv, TypeOK
  <2>3. ReadersAreSound' /\ AnswersAreSound'
    BY <2>1 DEF IInv, ReadersAreSound, AnswersAreSound, Groups, Tracked
  <2> QED
    BY <2>1, <2>2, <2>3, ReportsKeep
<1> QED
  BY <1>1, <1>2, <1>3, <1>4, <1>5, <1>6, <1>7, <1>8, <1>9, <1>10 DEF Next

\* The inductive invariant holds for any couriers, orders, points, submissions
\* and reports.
THEOREM Invariance == Spec => []IInv
BY InitIsSound, NextIsSound, PTL DEF Spec

\* A route is of one courier and an announced page has rows, whatever is
\* claimed, cancelled and tracked between the two reads of a report.
THEOREM AnswersAreSoundHolds == Spec => []AnswersAreSound
<1>1. IInv => AnswersAreSound
  BY DEF IInv
<1> QED
  BY <1>1, Invariance, PTL

\* A partner is sent what was recorded of the courier who had won the order.
THEOREM PartnerSeesTheRouteHolds == Spec => []PartnerSeesTheRoute
<1>1. IInv => PartnerSeesTheRoute
  BY DEF IInv
<1> QED
  BY <1>1, Invariance, PTL

-----------------------------------------------------------------------------
(***************************************************************************)
(* Submissions that are alone                                              *)
(***************************************************************************)
\* What a submission that is alone has read and written, once the step is done.
InStepNext(request) ==
  LET c == request.courier IN
  /\ request.pc = "upsert" => request.previous = position'[c]
  /\ request.pc \in {"insert", "emit"} => request.point = position'[c]

\* Whoever has two submissions under way is remembered.
LEMMA AloneIsOnly ==
  ASSUME Remember, NEW c \in Couriers \ overlapped', NEW r \in InFlight(c)'
  PROVE  InFlight(c)' = {r} /\ c \in Couriers \ overlapped
BY DEF Remember, Overlapped

\* One record of req is replaced, and no position but that of its courier.
LEMMA AloneKeeps ==
  ASSUME TypeOK, AloneIsInStep, Remember,
         NEW r \in Requests, NEW new, req' = [req EXCEPT ![r] = new],
         new.pc # "idle" /\ new.courier \in Couriers \ overlapped => InStepNext(new),
         \/ UNCHANGED position
         \/ /\ new.pc # "idle"
            /\ \A d \in Couriers \ {new.courier} : position'[d] = position[d]
  PROVE  AloneIsInStep'
<1> SUFFICES ASSUME NEW c \in Couriers \ overlapped', NEW s \in InFlight(c)'
             PROVE  InFlight(c)' = {s} /\ InStep(s)'
  BY DEF AloneIsInStep
<1>1. InFlight(c)' = {s} /\ c \in Couriers \ overlapped
  BY AloneIsOnly
<1>2. s \in Requests /\ req'[s].pc # "idle" /\ req'[s].courier = c
  BY DEF InFlight
<1>3. req'[r] = new /\ \A t \in Requests \ {r} : req'[t] = req[t]
  BY DEF TypeOK
<1>4. CASE s = r
  BY <1>1, <1>2, <1>3, <1>4 DEF InStep, InStepNext
<1>5. CASE s # r
  <2>1. req'[s] = req[s] /\ s \in InFlight(c)
    BY <1>2, <1>3, <1>5 DEF InFlight
  <2>2. position'[c] = position[c]
    <3>1. new.pc # "idle" => new.courier # c
      BY <1>1, <1>3, <1>5 DEF InFlight
    <3> QED
      BY <1>1, <3>1
  <2>3. InStep(s)
    BY <1>1, <2>1 DEF AloneIsInStep
  <2> QED
    BY <1>1, <1>2, <2>1, <2>2, <2>3 DEF InStep
<1> QED
  BY <1>4, <1>5

LEMMA AloneRests ==
  ASSUME AloneIsInStep, Remember, UNCHANGED <<req, position>>
  PROVE  AloneIsInStep'
<1> SUFFICES ASSUME NEW c \in Couriers \ overlapped', NEW s \in InFlight(c)'
             PROVE  InFlight(c)' = {s} /\ InStep(s)'
  BY DEF AloneIsInStep
<1>1. InFlight(c)' = {s} /\ c \in Couriers \ overlapped
  BY AloneIsOnly
<1>2. s \in InFlight(c)
  BY DEF InFlight
<1> QED
  BY <1>1, <1>2 DEF AloneIsInStep, InStep

\* What a submission of a courier who is alone knows.
LEMMA AloneKnows ==
  ASSUME AloneIsInStep, NEW r \in Requests, req[r].pc # "idle",
         req[r].courier \in Couriers \ overlapped
  PROVE  InFlight(req[r].courier) = {r} /\ InStep(r)
BY DEF AloneIsInStep, InFlight

LEMMA AloneContinues ==
  ASSUME IInvOverlaps, Remember, NEW r \in Requests, Continue(r)
  PROVE  AloneIsInStep'
<1>1. /\ req[r] \in Submission /\ req[r].courier \in Couriers
      /\ TypeOK /\ AloneIsInStep
  BY UnderWay DEF IInvOverlaps, IInv, Continue, LoadPrevious, UpsertPosition, InsertHistory,
                  EmitLocationUpdated, EnqueueLocation
<1>2. CASE LoadPrevious(r)
  <2> DEFINE new == [req[r] EXCEPT !.pc = "upsert", !.previous = position[req[r].courier]]
  <2>1. req' = [req EXCEPT ![r] = new] /\ UNCHANGED position
    BY <1>2 DEF LoadPrevious, track
  <2>2. InStepNext(new)
    BY <1>1, <2>1 DEF InStepNext, Submission
  <2> HIDE DEF new
  <2> QED
    BY <1>1, <2>1, <2>2, AloneKeeps
<1>3. CASE UpsertPosition(r)
  <2> DEFINE new == [req[r] EXCEPT !.pc = "insert"]
  <2>1. /\ req' = [req EXCEPT ![r] = new]
        /\ position' = [position EXCEPT ![req[r].courier] = req[r].point]
    BY <1>3 DEF UpsertPosition, Step
  <2>2. /\ new.pc = "insert" /\ new.courier = req[r].courier
        /\ new.point = req[r].point
    BY <1>1 DEF Submission
  <2>3. /\ position'[req[r].courier] = req[r].point
        /\ \A d \in Couriers \ {req[r].courier} : position'[d] = position[d]
    BY <1>1, <2>1 DEF TypeOK
  <2>4. InStepNext(new)
    <3> HIDE DEF new
    <3> QED
      BY <2>2, <2>3 DEF InStepNext
  <2> HIDE DEF new
  <2> QED
    BY <1>1, <2>1, <2>2, <2>3, <2>4, AloneKeeps
<1>4. CASE InsertHistory(r)
  <2> DEFINE new == [req[r] EXCEPT !.pc = "emit"]
  <2>1. req[r].pc = "insert" /\ req' = [req EXCEPT ![r] = new] /\ UNCHANGED position
    BY <1>4 DEF InsertHistory, Step
  <2>2. new.pc = "emit" /\ new.courier = req[r].courier /\ new.point = req[r].point
    BY <1>1 DEF Submission
  <2>3. new.courier \in Couriers \ overlapped => InStepNext(new)
    <3> HIDE DEF new
    <3> QED
      BY <1>1, <2>1, <2>2, AloneKnows DEF InStep, InStepNext
  <2> HIDE DEF new
  <2> QED
    BY <1>1, <2>1, <2>3, AloneKeeps
<1>5. CASE EmitLocationUpdated(r)
  <2> DEFINE new == IF req[r].order \in WithCallback THEN [req[r] EXCEPT !.pc = "callback"] ELSE Idle
  <2>1. req' = [req EXCEPT ![r] = new] /\ UNCHANGED position
    BY <1>5 DEF EmitLocationUpdated, Step, Return
  <2>2. new.pc \in {"callback", "idle"}
    BY <1>1 DEF Submission, Idle
  <2> HIDE DEF new
  <2> QED
    BY <1>1, <2>1, <2>2, AloneKeeps DEF InStepNext
<1>6. CASE EnqueueLocation(r)
  <2>1. req' = [req EXCEPT ![r] = Idle] /\ UNCHANGED position
    BY <1>6 DEF EnqueueLocation, Return, track
  <2> QED
    BY <1>1, <2>1, AloneKeeps DEF Idle
<1> QED
  BY <1>2, <1>3, <1>4, <1>5, <1>6 DEF Continue

LEMMA OverlapsNext == IInvOverlaps /\ [HNext]_hvars => IInvOverlaps'
<1> SUFFICES ASSUME IInvOverlaps, [HNext]_hvars PROVE IInvOverlaps'
  OBVIOUS
<1>1. IInv'
  BY NextIsSound DEF IInvOverlaps, HNext, hvars
<1>2. overlapped' \subseteq Couriers
  BY DEF IInvOverlaps, HNext, hvars, Remember, Overlapped
<1>3. CASE UNCHANGED hvars
  <2>1. UNCHANGED <<req, position, overlapped>>
    BY <1>3 DEF hvars, vars, track
  <2> QED
    BY <1>1, <1>2, <2>1 DEF IInvOverlaps, AloneIsInStep, InStep, InFlight
<1>4. CASE HNext
  <2>1. Next /\ Remember /\ TypeOK /\ AloneIsInStep
    BY <1>4 DEF HNext, IInvOverlaps, IInv
  <2>2. ASSUME NEW r \in Requests, NEW c \in Couriers, NEW p \in Points,
               NEW o \in Orders \cup {NULL}, FindActiveOrder(r, c, p, o)
        PROVE  AloneIsInStep'
    <3> DEFINE new == [pc |-> "previous", courier |-> c, point |-> p, order |-> o, previous |-> NULL]
    <3>1. req' = [req EXCEPT ![r] = new] /\ UNCHANGED position /\ InStepNext(new)
      BY <2>2 DEF FindActiveOrder, track, InStepNext
    <3> HIDE DEF new
    <3> QED
      BY <2>1, <3>1, AloneKeeps
  <2>3. ASSUME NEW r \in Requests, Continue(r) PROVE AloneIsInStep'
    BY <2>1, <2>3, AloneContinues
  <2>4. ASSUME NEW r \in Requests, Fail(r) PROVE AloneIsInStep'
    <3>1. req' = [req EXCEPT ![r] = Idle] /\ UNCHANGED position
      BY <2>4 DEF Fail, Return, track
    <3> QED
      BY <2>1, <3>1, AloneKeeps DEF Idle
  <2>5. ASSUME UNCHANGED <<req, track>> PROVE AloneIsInStep'
    BY <2>1, <2>5, AloneRests DEF track
  <2>6. AloneIsInStep'
    BY <2>1, <2>2, <2>3, <2>4, <2>5 DEF Next, RouteLoadOrder, RouteFindPoints, ListCount,
       ListFindRows, Open, Respond, Claim, Advance, Cancel
  <2> QED
    BY <1>1, <1>2, <2>6 DEF IInvOverlaps
<1> QED
  BY <1>3, <1>4

\* While a submission is the only one of its courier, what it has read of the
\* position, and then written, is so, for any couriers, orders and points.
THEOREM OverlapsInvariance == HSpec => []IInvOverlaps
<1>1. HInit => IInvOverlaps
  <2> SUFFICES ASSUME HInit PROVE IInvOverlaps
    OBVIOUS
  <2>1. IInv /\ overlapped = {}
    BY InitIsSound DEF HInit
  <2>2. \A c \in Couriers : InFlight(c) = {}
    BY DEF HInit, Init, InFlight, Idle
  <2> QED
    BY <2>1, <2>2 DEF IInvOverlaps, AloneIsInStep
<1> QED
  BY <1>1, OverlapsNext, PTL DEF HSpec

-----------------------------------------------------------------------------
(***************************************************************************)
(* A courier whose submissions never overlapped leaves a path              *)
(***************************************************************************)
\* Where the path has the courier: before the hop of a position that has been
\* stored and is not yet recorded.
LEMMA AtIs ==
  ASSUME IInvOverlaps, NEW c \in Couriers \ overlapped, NEW r \in InFlight(c)
  PROVE  At(c) = IF req[r].pc = "insert" THEN req[r].previous ELSE position[c]
<1>1. InFlight(c) = {r}
  BY DEF IInvOverlaps, AloneIsInStep
<1>2. CASE req[r].pc = "insert"
  <2>1. (CHOOSE s \in InFlight(c) : req[s].pc = "insert") = r
    BY <1>1, <1>2
  <2> QED
    BY <1>2, <2>1 DEF At
<1>3. CASE req[r].pc # "insert"
  BY <1>1, <1>3 DEF At
<1> QED
  BY <1>2, <1>3

LEMMA AtIsNext ==
  ASSUME IInvOverlaps', NEW c \in Couriers \ overlapped', NEW r \in InFlight(c)'
  PROVE  At(c)' = IF req'[r].pc = "insert" THEN req'[r].previous ELSE position'[c]
<1>1. InFlight(c)' = {r}
  BY DEF IInvOverlaps, AloneIsInStep
<1>2. CASE req'[r].pc = "insert"
  <2>1. (CHOOSE s \in InFlight(c)' : req'[s].pc = "insert") = r
    BY <1>1, <1>2
  <2> QED
    BY <1>2, <2>1 DEF At
<1>3. CASE req'[r].pc # "insert"
  BY <1>1, <1>3 DEF At
<1> QED
  BY <1>2, <1>3

LEMMA AtRest ==
  ASSUME NEW c \in Couriers
  PROVE  /\ InFlight(c) = {} => At(c) = position[c]
         /\ InFlight(c)' = {} => At(c)' = position'[c]
BY DEF At

\* A courier whose submission and position rest is where he was.
LEMMA AtRests ==
  ASSUME IInvOverlaps, IInvOverlaps', NEW c \in Couriers \ overlapped', c \notin overlapped,
         \A s \in Requests : req[s].courier = c \/ req'[s].courier = c => req'[s] = req[s],
         position'[c] = position[c]
  PROVE  At(c)' = At(c)
<1>1. InFlight(c)' = InFlight(c)
  BY DEF InFlight
<1>2. CASE InFlight(c) = {}
  BY <1>1, <1>2, AtRest
<1>3. CASE InFlight(c) # {}
  <2>1. PICK r : r \in InFlight(c)
    BY <1>3
  <2>2. req'[r] = req[r]
    BY <2>1 DEF InFlight
  <2> QED
    BY <1>1, <2>1, <2>2, AtIs, AtIsNext
<1> QED
  BY <1>2, <1>3

\* The three functions of the path.
AtOf == [c \in Couriers |-> IF c \in overlapped THEN NULL ELSE At(c)]
TrailOf == [c \in Couriers |-> IF c \in overlapped THEN <<>> ELSE history[c]]
ShownOf == [c \in Couriers |-> IF c \in overlapped THEN NULL ELSE map[c]]

\* A step that leaves all couriers who are alone, and one that moves one of them.
LEMMA PathRests ==
  ASSUME UNCHANGED overlapped,
         \A c \in Couriers \ overlapped :
           At(c)' = At(c) /\ history'[c] = history[c] /\ map'[c] = map[c]
  PROVE  UNCHANGED Path!vars
<1>1. AtOf' = AtOf /\ TrailOf' = TrailOf /\ ShownOf' = ShownOf
  BY DEF AtOf, TrailOf, ShownOf
<1> QED
  BY <1>1 DEF Path!vars, AtOf, TrailOf, ShownOf

LEMMA PathArrives ==
  ASSUME UNCHANGED overlapped, NEW c \in Couriers \ overlapped,
         NEW p \in Points, NEW o \in Orders \cup {NULL},
         At(c)' = p,
         history'[c] = Append(history[c], [order |-> o, from |-> At(c), to |-> p]),
         \A d \in Couriers \ (overlapped \cup {c}) : At(d)' = At(d) /\ history'[d] = history[d],
         \A d \in Couriers : map'[d] = map[d]
  PROVE  Path!Next
<1>1. AtOf' = [AtOf EXCEPT ![c] = p]
  BY DEF AtOf
<1>2. TrailOf' = [TrailOf EXCEPT ![c] = Append(@, [order |-> o, from |-> AtOf[c], to |-> p])]
  <2>1. AtOf[c] = At(c)
    BY DEF AtOf
  <2> QED
    BY <2>1 DEF TrailOf
<1>3. ShownOf' = ShownOf
  BY DEF ShownOf
<1>4. Path!Arrive(c, p, o)
  BY <1>1, <1>2, <1>3 DEF Path!Arrive, AtOf, TrailOf, ShownOf
<1> QED
  BY <1>4 DEF Path!Next

LEMMA PathJumps ==
  ASSUME UNCHANGED overlapped, NEW c \in Couriers \ overlapped, NEW p \in Points,
         At(c)' = p,
         \A d \in Couriers \ (overlapped \cup {c}) : At(d)' = At(d),
         \A d \in Couriers : history'[d] = history[d] /\ map'[d] = map[d]
  PROVE  Path!Next
<1>1. AtOf' = [AtOf EXCEPT ![c] = p]
  BY DEF AtOf
<1>2. TrailOf' = TrailOf /\ ShownOf' = ShownOf
  BY DEF TrailOf, ShownOf
<1>3. Path!Jump(c, p)
  BY <1>1, <1>2 DEF Path!Jump, AtOf, TrailOf, ShownOf
<1> QED
  BY <1>3 DEF Path!Next

LEMMA PathShows ==
  ASSUME UNCHANGED overlapped, NEW c \in Couriers \ overlapped,
         map'[c] = At(c),
         \A d \in Couriers \ (overlapped \cup {c}) : map'[d] = map[d],
         \A d \in Couriers \ overlapped : At(d)' = At(d),
         \A d \in Couriers : history'[d] = history[d]
  PROVE  Path!Next
<1>1. ShownOf' = [ShownOf EXCEPT ![c] = AtOf[c]]
  <2>1. AtOf[c] = At(c)
    BY DEF AtOf
  <2> QED
    BY <2>1 DEF ShownOf
<1>2. TrailOf' = TrailOf /\ AtOf' = AtOf
  BY DEF TrailOf, AtOf
<1>3. Path!Show(c)
  BY <1>1, <1>2 DEF Path!Show, AtOf, TrailOf, ShownOf
<1> QED
  BY <1>3 DEF Path!Next

\* A courier whose submissions come to overlap is let go.
LEMMA PathLeaves ==
  ASSUME NEW c \in Couriers \ overlapped, overlapped' = overlapped \cup {c},
         \A d \in Couriers \ (overlapped \cup {c}) :
           At(d)' = At(d) /\ history'[d] = history[d] /\ map'[d] = map[d]
  PROVE  Path!Next
<1>1. /\ AtOf' = [AtOf EXCEPT ![c] = NULL]
      /\ TrailOf' = [TrailOf EXCEPT ![c] = <<>>]
      /\ ShownOf' = [ShownOf EXCEPT ![c] = NULL]
  BY DEF AtOf, TrailOf, ShownOf
<1>2. Path!Leave(c)
  BY <1>1 DEF Path!Leave, AtOf, TrailOf, ShownOf
<1> QED
  BY <1>2 DEF Path!Next

\* No overlap begins but with a submission.
LEMMA OverlapsRest ==
  ASSUME IInvOverlaps, Remember, \A c \in Couriers : InFlight(c)' \subseteq InFlight(c)
  PROVE  UNCHANGED overlapped
<1>1. ASSUME NEW c \in Overlapped' PROVE c \in overlapped
  <2>1. c \in Couriers /\ c \in Overlapped
    BY DEF Overlapped
  <2> QED
    BY <2>1 DEF Overlapped, IInvOverlaps, AloneIsInStep
<1> QED
  BY <1>1 DEF Remember

\* A step of a submission: where it has its courier, before and after, and that
\* the others rest.
LEMMA Mover ==
  ASSUME IInvOverlaps, IInvOverlaps', Remember, NEW r \in Requests, req[r].pc # "idle",
         NEW new, req' = [req EXCEPT ![r] = new],
         new = Idle \/ (new.pc # "idle" /\ new.courier = req[r].courier),
         \A d \in Couriers \ {req[r].courier} : position'[d] = position[d]
  PROVE  /\ UNCHANGED overlapped
         /\ req[r].courier \in Couriers \ overlapped =>
              /\ At(req[r].courier) = IF req[r].pc = "insert" THEN req[r].previous
                                      ELSE position[req[r].courier]
              /\ \A c \in {req[r].courier} :
                   At(c)' = IF new.pc = "insert" THEN new.previous ELSE position'[c]
         /\ \A d \in Couriers \ (overlapped \cup {req[r].courier}) : At(d)' = At(d)
<1>1. req'[r] = new /\ \A t \in Requests \ {r} : req'[t] = req[t]
  BY DEF IInvOverlaps, IInv, TypeOK
<1>2. UNCHANGED overlapped
  <2>1. \A c \in Couriers : InFlight(c)' \subseteq InFlight(c)
    BY <1>1 DEF InFlight, Idle
  <2> QED
    BY <2>1, OverlapsRest
<1>3. ASSUME NEW c \in Couriers \ overlapped, c = req[r].courier
      PROVE  /\ At(c) = IF req[r].pc = "insert" THEN req[r].previous ELSE position[c]
             /\ At(c)' = IF new.pc = "insert" THEN new.previous ELSE position'[c]
  <2>1. r \in InFlight(c)
    BY <1>3 DEF InFlight
  <2>2. InFlight(c) = {r}
    BY <2>1 DEF IInvOverlaps, AloneIsInStep
  <2>3. CASE new = Idle
    <3>1. InFlight(c)' = {} /\ new.pc # "insert"
      BY <1>1, <2>2, <2>3 DEF InFlight, Idle
    <3> QED
      BY <2>1, <3>1, AtIs, AtRest
  <2>4. CASE new # Idle
    <3>1. r \in InFlight(c)'
      BY <1>1, <1>3, <2>4 DEF InFlight
    <3> QED
      BY <1>1, <1>2, <2>1, <3>1, AtIs, AtIsNext
  <2> QED
    BY <2>3, <2>4
<1>4. ASSUME NEW d \in Couriers \ (overlapped \cup {req[r].courier}) PROVE At(d)' = At(d)
  <2>1. d # NULL /\ d \in Couriers
    BY TrackingAssumption
  <2>2. \A s \in Requests : req[s].courier = d \/ req'[s].courier = d => req'[s] = req[s]
    BY <1>1, <2>1 DEF Idle
  <2> QED
    BY <1>2, <2>1, <2>2, AtRests
<1> QED
  BY <1>2, <1>3, <1>4

\* A step that leaves submissions and what they have written.
LEMMA OthersRest ==
  ASSUME IInvOverlaps, IInvOverlaps', Remember \/ UNCHANGED overlapped,
         UNCHANGED <<req, position, history, map>>
  PROVE  UNCHANGED Path!vars
<1>1. UNCHANGED overlapped
  BY OverlapsRest DEF InFlight
<1>2. \A c \in Couriers \ overlapped : At(c)' = At(c)
  BY <1>1, AtRests
<1> QED
  BY <1>1, <1>2, PathRests

\* A submission that begins leaves its courier where he was, if it is alone.
LEMMA FindActiveOrderLeaves ==
  ASSUME IInvOverlaps, IInvOverlaps', Remember,
         NEW r \in Requests, NEW c \in Couriers, NEW p \in Points,
         NEW o \in Orders \cup {NULL}, FindActiveOrder(r, c, p, o)
  PROVE  Path!Next \/ UNCHANGED Path!vars
<1> DEFINE new == [pc |-> "previous", courier |-> c, point |-> p, order |-> o, previous |-> NULL]
<1>1. /\ UNCHANGED <<position, history, map>>
      /\ req' = [req EXCEPT ![r] = new]
      /\ req[r].pc = "idle"
  BY DEF FindActiveOrder, track
<1>2. req'[r] = new /\ \A t \in Requests \ {r} : req'[t] = req[t]
  BY <1>1 DEF IInvOverlaps, IInv, TypeOK
<1>3. req[r] = Idle
  BY <1>1 DEF IInvOverlaps, IInv, TypeOK, Submission
<1>4. ASSUME NEW d \in Couriers \ (overlapped \cup {c})
      PROVE  d \notin overlapped' /\ At(d)' = At(d)
  <2>1. d # NULL
    BY TrackingAssumption
  <2>2. \A s \in Requests : req[s].courier = d \/ req'[s].courier = d => req'[s] = req[s]
    BY <1>2, <1>3, <1>4, <2>1 DEF Idle
  <2>3. InFlight(d)' = InFlight(d)
    BY <2>2 DEF InFlight
  <2>4. d \notin overlapped'
    BY <2>3 DEF Remember, Overlapped, IInvOverlaps, AloneIsInStep
  <2> QED
    BY <1>1, <2>2, <2>4, AtRests
<1>5. CASE c \in overlapped'
  <2>1. overlapped' = overlapped \cup {c}
    BY <1>4, <1>5 DEF Remember, IInvOverlaps
  <2>2. CASE c \in overlapped
    BY <1>1, <1>4, <2>1, <2>2, PathRests
  <2>3. CASE c \notin overlapped
    BY <1>1, <1>4, <2>1, <2>3, PathLeaves
  <2> QED
    BY <2>2, <2>3
<1>6. CASE c \notin overlapped'
  <2>1. UNCHANGED overlapped
    BY <1>4, <1>6 DEF Remember, IInvOverlaps
  <2>2. r \in InFlight(c)' /\ req'[r].pc = "previous"
    BY <1>2 DEF InFlight
  <2>3. InFlight(c)' = {r}
    BY <1>6, <2>2, AloneIsOnly
  <2>4. InFlight(c) = {}
    BY <1>1, <1>2, <2>3 DEF InFlight
  <2>5. At(c)' = At(c)
    BY <1>1, <1>6, <2>2, <2>4, AtRest, AtIsNext
  <2> QED
    BY <1>1, <1>4, <2>1, <2>5, PathRests
<1> QED
  BY <1>5, <1>6

\* The position that a submission has read is the one that it replaces, so that
\* the path has the courier where he was.
LEMMA LoadAndUpsertRest ==
  ASSUME IInvOverlaps, IInvOverlaps', Remember,
         NEW r \in Requests, LoadPrevious(r) \/ UpsertPosition(r)
  PROVE  UNCHANGED Path!vars
<1>1. CASE LoadPrevious(r)
  <2> DEFINE new == [req[r] EXCEPT !.pc = "upsert", !.previous = position[req[r].courier]]
  <2>1. /\ req[r].pc = "previous"
        /\ req' = [req EXCEPT ![r] = new]
        /\ UNCHANGED <<position, history, map>>
    BY <1>1 DEF LoadPrevious, track
  <2>2. req[r] \in Submission
    BY <2>1, UnderWay DEF IInvOverlaps, IInv
  <2>3. new.pc = "upsert" /\ new.courier = req[r].courier
    BY <2>2 DEF Submission
  <2> HIDE DEF new
  <2>4. PICK c : c = req[r].courier
    OBVIOUS
  <2>5. /\ UNCHANGED overlapped
        /\ \A d \in Couriers \ (overlapped \cup {c}) : At(d)' = At(d)
        /\ c \in Couriers \ overlapped => At(c) = position[c] /\ At(c)' = position'[c]
    BY <2>1, <2>3, <2>4, Mover
  <2> QED
    BY <2>1, <2>5, PathRests
<1>2. CASE UpsertPosition(r)
  <2> DEFINE new == [req[r] EXCEPT !.pc = "insert"]
  <2>1. /\ req[r].pc = "upsert"
        /\ req' = [req EXCEPT ![r] = new]
        /\ position' = [position EXCEPT ![req[r].courier] = req[r].point]
        /\ UNCHANGED <<history, map>>
    BY <1>2 DEF UpsertPosition, Step
  <2>2. req[r] \in Submission /\ req[r].courier \in Couriers
    BY <2>1, UnderWay DEF IInvOverlaps, IInv
  <2>3. new.pc = "insert" /\ new.courier = req[r].courier /\ new.previous = req[r].previous
    BY <2>2 DEF Submission
  <2>4. \A d \in Couriers \ {req[r].courier} : position'[d] = position[d]
    BY <2>1 DEF IInvOverlaps, IInv, TypeOK
  <2>5. req[r].courier \in Couriers \ overlapped => req[r].previous = position[req[r].courier]
    BY <2>1, AloneKnows DEF IInvOverlaps, InStep
  <2> HIDE DEF new
  <2>6. UNCHANGED overlapped /\ \A d \in Couriers \ overlapped : At(d)' = At(d)
    BY <2>1, <2>3, <2>4, <2>5, Mover
  <2> QED
    BY <2>1, <2>6, PathRests
<1> QED
  BY <1>1, <1>2

LEMMA InsertHistoryArrives ==
  ASSUME IInvOverlaps, IInvOverlaps', Remember, NEW r \in Requests, InsertHistory(r)
  PROVE  Path!Next \/ UNCHANGED Path!vars
<1> DEFINE new == [req[r] EXCEPT !.pc = "emit"]
<1>1. /\ req[r].pc = "insert"
      /\ req' = [req EXCEPT ![r] = new]
      /\ history' = [history EXCEPT ![req[r].courier] = Append(@, Entry(req[r]))]
      /\ UNCHANGED <<position, map>>
  BY DEF InsertHistory, Step
<1>2. /\ req[r] \in Submission /\ req[r].courier \in Couriers /\ req[r].point \in Points
      /\ req[r].order \in Orders \cup {NULL}
  BY <1>1, UnderWay DEF IInvOverlaps, IInv
<1>3. new.pc = "emit" /\ new.courier = req[r].courier
  BY <1>2 DEF Submission
<1> HIDE DEF new
<1>4. PICK c : c = req[r].courier
  OBVIOUS
<1>5. /\ history'[c] = Append(history[c], Entry(req[r]))
      /\ \A d \in Couriers \ {c} : history'[d] = history[d]
  BY <1>1, <1>2, <1>4 DEF IInvOverlaps, IInv, TypeOK
<1>6. UNCHANGED overlapped /\ \A d \in Couriers \ (overlapped \cup {c}) : At(d)' = At(d)
  BY <1>1, <1>3, <1>4, Mover
<1>7. CASE c \in Couriers \ overlapped
  <2>1. At(c) = req[r].previous /\ At(c)' = position[c]
    BY <1>1, <1>3, <1>4, <1>7, Mover
  <2>2. position[c] = req[r].point
    BY <1>1, <1>4, <1>7, AloneKnows DEF IInvOverlaps, InStep
  <2>3. history'[c] = Append(history[c], [order |-> req[r].order, from |-> At(c), to |-> req[r].point])
    BY <1>5, <2>1 DEF Entry
  <2>4. PICK p \in Points, o \in Orders \cup {NULL} : p = req[r].point /\ o = req[r].order
    BY <1>2
  <2> QED
    BY <1>1, <1>5, <1>6, <1>7, <2>1, <2>2, <2>3, <2>4, PathArrives
<1>8. CASE c \notin Couriers \ overlapped
  BY <1>1, <1>5, <1>6, <1>8, PathRests
<1> QED
  BY <1>7, <1>8

LEMMA EmitShows ==
  ASSUME IInvOverlaps, IInvOverlaps', Remember, NEW r \in Requests, EmitLocationUpdated(r)
  PROVE  Path!Next \/ UNCHANGED Path!vars
<1> DEFINE new == IF req[r].order \in WithCallback THEN [req[r] EXCEPT !.pc = "callback"] ELSE Idle
<1>1. /\ req[r].pc = "emit"
      /\ req' = [req EXCEPT ![r] = new]
      /\ map' = [map EXCEPT ![req[r].courier] = req[r].point]
      /\ UNCHANGED <<position, history>>
  BY DEF EmitLocationUpdated, Step, Return
<1>2. req[r] \in Submission /\ req[r].courier \in Couriers
  BY <1>1, UnderWay DEF IInvOverlaps, IInv
<1>3. /\ new = Idle \/ (new.pc # "idle" /\ new.courier = req[r].courier)
      /\ new.pc # "insert"
  BY <1>2 DEF Submission, Idle
<1> HIDE DEF new
<1>4. PICK c : c = req[r].courier
  OBVIOUS
<1>5. /\ map'[c] = req[r].point
      /\ \A d \in Couriers \ {c} : map'[d] = map[d]
  BY <1>1, <1>2, <1>4 DEF IInvOverlaps, IInv, TypeOK
<1>6. UNCHANGED overlapped /\ \A d \in Couriers \ overlapped : At(d)' = At(d)
  BY <1>1, <1>3, Mover
<1>7. CASE c \in Couriers \ overlapped
  <2>1. At(c) = position[c]
    BY <1>1, <1>3, <1>4, <1>7, Mover
  <2>2. position[c] = req[r].point
    BY <1>1, <1>4, <1>7, AloneKnows DEF IInvOverlaps, InStep
  <2> QED
    BY <1>1, <1>5, <1>6, <1>7, <2>1, <2>2, PathShows
<1>8. CASE c \notin Couriers \ overlapped
  BY <1>1, <1>5, <1>6, <1>8, PathRests
<1> QED
  BY <1>7, <1>8

\* A submission that is lost after its position was stored is a hop that is
\* missing; another leaves the courier where he is.
LEMMA EndJumps ==
  ASSUME IInvOverlaps, IInvOverlaps', Remember, NEW r \in Requests, EnqueueLocation(r) \/ Fail(r)
  PROVE  Path!Next \/ UNCHANGED Path!vars
<1>1. /\ req[r].pc # "idle"
      /\ req' = [req EXCEPT ![r] = Idle]
      /\ UNCHANGED <<position, history, map>>
  BY DEF EnqueueLocation, Fail, Return, track
<1>2. PICK c : c = req[r].courier
  OBVIOUS
<1>3. /\ UNCHANGED overlapped
      /\ \A d \in Couriers \ (overlapped \cup {c}) : At(d)' = At(d)
      /\ c \in Couriers \ overlapped =>
           /\ At(c)' = position[c]
           /\ At(c) = IF req[r].pc = "insert" THEN req[r].previous ELSE position[c]
  <2>1. Idle.pc # "insert"
    BY DEF Idle
  <2> QED
    BY <1>1, <1>2, <2>1, Mover
<1>4. CASE c \in Couriers \ overlapped /\ req[r].pc = "insert"
  <2>1. position[c] = req[r].point /\ req[r].point \in Points
    BY <1>1, <1>2, <1>4, UnderWay, AloneKnows DEF IInvOverlaps, IInv, InStep
  <2>2. PICK p \in Points : p = position[c]
    BY <2>1
  <2> QED
    BY <1>1, <1>3, <1>4, <2>2, PathJumps
<1>5. CASE c \notin Couriers \ overlapped \/ req[r].pc # "insert"
  BY <1>1, <1>3, <1>5, PathRests
<1> QED
  BY <1>4, <1>5

LEMMA StepOfPath ==
  ASSUME IInvOverlaps, IInvOverlaps', [HNext]_hvars
  PROVE  Path!Next \/ UNCHANGED Path!vars
<1>1. CASE UNCHANGED hvars
  <2>1. UNCHANGED <<req, position, history, map, overlapped>>
    BY <1>1 DEF hvars, vars, track
  <2> QED
    BY <2>1, OthersRest
<1>2. CASE HNext
  <2>1. Next /\ Remember
    BY <1>2 DEF HNext
  <2>2. ASSUME NEW r \in Requests, NEW c \in Couriers, NEW p \in Points,
               NEW o \in Orders \cup {NULL}, FindActiveOrder(r, c, p, o)
        PROVE  Path!Next \/ UNCHANGED Path!vars
    BY <2>1, <2>2, FindActiveOrderLeaves
  <2>3. ASSUME NEW r \in Requests, Continue(r) \/ Fail(r)
        PROVE  Path!Next \/ UNCHANGED Path!vars
    BY <2>1, <2>3, LoadAndUpsertRest, InsertHistoryArrives, EmitShows, EndJumps DEF Continue
  <2>4. ASSUME UNCHANGED <<req, track>> PROVE UNCHANGED Path!vars
    BY <2>1, <2>4, OthersRest DEF track
  <2> QED
    BY <2>1, <2>2, <2>3, <2>4 DEF Next, RouteLoadOrder, RouteFindPoints, ListCount,
       ListFindRows, Open, Respond, Claim, Advance, Cancel
<1> QED
  BY <1>1, <1>2

\* However submissions, orders and reports overlap, and however the couriers'
\* own do, the tracking implements CourierPath: the hops of a courier whose
\* submissions never overlapped follow each other.
THEOREM ImplementsPath == HSpec => PathSpec
<1>1. HInit => Path!Init
  <2> SUFFICES ASSUME HInit PROVE Path!Init
    OBVIOUS
  <2>1. overlapped = {} /\ \A c \in Couriers : At(c) = NULL /\ history[c] = <<>> /\ map[c] = NULL
    BY DEF HInit, Init, At, InFlight, Idle
  <2> QED
    BY <2>1 DEF Path!Init
<1>2. IInvOverlaps /\ IInvOverlaps' /\ [HNext]_hvars => [Path!Next]_Path!vars
  BY StepOfPath
<1> QED
  BY <1>1, <1>2, OverlapsInvariance, PTL DEF HSpec, PathSpec, Path!Spec
=============================================================================
