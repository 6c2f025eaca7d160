--------------------------- MODULE CourierAuthProofs ---------------------------
(***************************************************************************)
(* Sessions are earned, no code is forgotten and few are active, for any   *)
(* couriers, digits, overlapping requests and bounds.                      *)
(*                                                                         *)
(* The counting: a request that has passed a check (found no code, found   *)
(* one unused) is counted with what it will add, so that its second step   *)
(* moves it from one set of the sum to the other; and when the check       *)
(* passes, the other set is empty.                                         *)
(***************************************************************************)
EXTENDS CourierAuthService, FiniteSetTheorems, TLAPS

-----------------------------------------------------------------------------
(* Sets of requests, rows and sessions *)

\* The part of another set is finite and no larger.
LEMMA PartOf ==
  ASSUME NEW S, NEW T, IsFiniteSet(S), T \subseteq S
  PROVE  /\ IsFiniteSet(T) /\ Cardinality(T) \in Nat
         /\ Cardinality(T) <= Cardinality(S)
BY FS_Subset, FS_CardinalityType

LEMMA OneMore ==
  ASSUME NEW S, NEW T, IsFiniteSet(S), NEW x, T \subseteq S \cup {x}
  PROVE  /\ IsFiniteSet(T) /\ Cardinality(T) \in Nat
         /\ Cardinality(T) <= Cardinality(S) + 1
<1>1. /\ IsFiniteSet(S \cup {x}) /\ Cardinality(S \cup {x}) <= Cardinality(S) + 1
      /\ Cardinality(S) \in Nat
  BY FS_AddElement, FS_CardinalityType
<1> QED
  BY <1>1, PartOf, FS_CardinalityType

LEMMA OneLess ==
  ASSUME NEW S, NEW T, IsFiniteSet(S), NEW x \in S, T \subseteq S \ {x}
  PROVE  /\ IsFiniteSet(T) /\ Cardinality(T) \in Nat
         /\ Cardinality(T) <= Cardinality(S) - 1
<1>1. /\ IsFiniteSet(S \ {x}) /\ Cardinality(S \ {x}) = Cardinality(S) - 1
      /\ Cardinality(S) \in Nat
  BY FS_RemoveElement, FS_CardinalityType
<1> QED
  BY <1>1, PartOf, FS_CardinalityType

LEMMA RequestsAreFinite ==
  IsFiniteSet(Requests) /\ Cardinality(Requests) \in Nat
BY AuthAssumption, FS_CardinalityType

LEMMA SetsAreFinite ==
  /\ \A k \in Codes : /\ IsFiniteSet(OpenedBy(k)) /\ Cardinality(OpenedBy(k)) \in Nat
                      /\ IsFiniteSet(Verifying(k)) /\ Cardinality(Verifying(k)) \in Nat
  /\ \A c \in Couriers : /\ IsFiniteSet(ActiveOf(c)) /\ Cardinality(ActiveOf(c)) \in Nat
                         /\ IsFiniteSet(Inserting(c)) /\ Cardinality(Inserting(c)) \in Nat
<1>1. IsFiniteSet(Sessions) /\ IsFiniteSet(Codes)
  BY AuthAssumption, FS_Interval DEF Sessions, Codes
<1>2. \A k \in Codes : OpenedBy(k) \subseteq Sessions /\ Verifying(k) \subseteq Requests
  BY DEF OpenedBy, Verifying
<1>3. \A c \in Couriers : /\ ActiveOf(c) \subseteq Codes /\ Inserting(c) \subseteq Requests
  BY DEF ActiveOf, Inserting
<1>4. \A k \in Codes : /\ IsFiniteSet(OpenedBy(k)) /\ Cardinality(OpenedBy(k)) \in Nat
                       /\ IsFiniteSet(Verifying(k)) /\ Cardinality(Verifying(k)) \in Nat
  BY <1>1, <1>2, PartOf, RequestsAreFinite
<1> QED
  BY <1>1, <1>3, <1>4, PartOf, RequestsAreFinite

-----------------------------------------------------------------------------
(* Requests *)

RequestTypeOK == req \in [Requests -> Request \cup {Idle}]

OnlyOf(r) == \A q \in Requests \ {r} : req'[q] = req[q]

LEMMA InFlightType ==
  ASSUME RequestTypeOK, NEW r \in Requests, req[r].pc # "idle"
  PROVE  req[r] \in Request
BY DEF RequestTypeOK, Idle

LEMMA BeginIs ==
  ASSUME RequestTypeOK, NEW r \in Requests,
         NEW pc \in {"insert", "enqueue", "use", "issue"},
         NEW c \in Couriers, NEW channel \in {"none", "sms", "telegram"},
         NEW k \in Codes \cup {0}, Begin(r, pc, c, channel, k)
  PROVE  /\ RequestTypeOK' /\ OnlyOf(r) /\ req[r].pc = "idle"
         /\ req'[r].pc = pc /\ req'[r].courier = c /\ req'[r].channel = channel
         /\ req'[r].code = k
<1> DEFINE x == [pc |-> pc, courier |-> c, channel |-> channel, code |-> k]
<1>1. x \in Request
  BY DEF Request
<1>2. req' = [req EXCEPT ![r] = x] /\ req[r].pc = "idle"
  BY DEF Begin
<1>3. RequestTypeOK' /\ OnlyOf(r) /\ req'[r] = x
  BY <1>1, <1>2 DEF RequestTypeOK, OnlyOf
<1> QED
  BY <1>2, <1>3

LEMMA StepIs ==
  ASSUME RequestTypeOK, NEW r \in Requests, req[r].pc # "idle",
         NEW pc \in {"insert", "enqueue", "use", "issue"}, Step(r, pc)
  PROVE  /\ RequestTypeOK' /\ OnlyOf(r)
         /\ req'[r].pc = pc /\ req'[r].courier = req[r].courier
         /\ req'[r].channel = req[r].channel
         /\ req'[r].code = req[r].code
<1> DEFINE x == [req[r] EXCEPT !.pc = pc]
<1>1. req[r] \in Request
  BY InFlightType
<1>2. /\ x \in Request /\ x.pc = pc /\ x.courier = req[r].courier /\ x.channel = req[r].channel
      /\ x.code = req[r].code
  BY <1>1 DEF Request
<1>3. req' = [req EXCEPT ![r] = x]
  BY DEF Step
<1> HIDE DEF x
<1>4. RequestTypeOK' /\ OnlyOf(r) /\ req'[r] = x
  BY <1>2, <1>3 DEF RequestTypeOK, OnlyOf
<1> QED
  BY <1>2, <1>4

LEMMA ReturnIs ==
  ASSUME RequestTypeOK, NEW r \in Requests, Return(r)
  PROVE  RequestTypeOK' /\ OnlyOf(r) /\ req'[r] = Idle /\ req'[r].pc = "idle"
BY DEF RequestTypeOK, OnlyOf, Return, Idle

\* A request that is not at the point a set is about leaves the set.
LEMMA SetsShrink ==
  ASSUME NEW r \in Requests, OnlyOf(r)
  PROVE  /\ req'[r].pc \notin {"use", "issue"} =>
              \A k \in Codes : Verifying(k)' \subseteq Verifying(k)
         /\ req'[r].pc # "insert" => \A c \in Couriers : Inserting(c)' \subseteq Inserting(c)
BY DEF OnlyOf, Verifying, Inserting

LEMMA SetsStay ==
  ASSUME UNCHANGED req
  PROVE  /\ \A k \in Codes : Verifying(k)' \subseteq Verifying(k)
         /\ \A c \in Couriers : Inserting(c)' \subseteq Inserting(c)
BY DEF Verifying, Inserting

-----------------------------------------------------------------------------
(* What keeps each part of the invariant *)

\* What a row that is there may become.
RowsStay ==
  \A k \in Codes : k <= drawn =>
    codes'[k].courier = codes[k].courier /\ (codes[k].used => codes'[k].used)

RequestInv(r) ==
  /\ req[r].pc \in {"insert", "enqueue"} => req[r].channel # "none"
  /\ req[r].pc \in {"enqueue", "use", "issue"} =>
       req[r].code # 0 /\ codes[req[r].code].courier = req[r].courier
  /\ req[r].pc = "issue" => codes[req[r].code].used

\* A row that is there has a number that was drawn.
LEMMA RowIsDrawn ==
  ASSUME TypeOK, RowsAreInserted, NEW k \in Codes, codes[k].courier \in Couriers \/ codes[k].used
  PROVE  k <= drawn
BY AuthAssumption DEF TypeOK, RowsAreInserted, NoCode, Codes

LEMMA RequestKeeps ==
  ASSUME TypeOK, RowsAreInserted, NEW q \in Requests, RequestInv(q),
         req'[q] = req[q], RowsStay
  PROVE  RequestInv(q)'
<1>1. CASE req[q].pc = "idle"
  BY <1>1 DEF RequestInv
<1>2. CASE req[q].pc # "idle"
  <2>1. req[q] \in Request
    BY <1>2, InFlightType DEF TypeOK, RequestTypeOK
  <2>2. ASSUME req[q].code # 0, codes[req[q].code].courier = req[q].courier
        PROVE  /\ codes'[req[q].code].courier = req[q].courier
               /\ codes[req[q].code].used => codes'[req[q].code].used
    <3>1. req[q].code \in Codes /\ req[q].courier \in Couriers
      BY <2>1, <2>2 DEF Request
    <3>2. req[q].code <= drawn
      BY <2>2, <3>1, RowIsDrawn
    <3> QED
      BY <2>2, <3>1, <3>2 DEF RowsStay
  <2> QED
    BY <2>2 DEF RequestInv
<1> QED
  BY <1>1, <1>2

LEMMA RequestsKeep ==
  ASSUME TypeOK, RowsAreInserted, RequestsAreSound, RowsStay,
         UNCHANGED req
  PROVE  RequestsAreSound'
BY RequestKeeps DEF RequestsAreSound, RequestInv

LEMMA RequestsAfter ==
  ASSUME TypeOK, RowsAreInserted, RequestsAreSound, RowsStay,
         NEW r \in Requests, OnlyOf(r), RequestInv(r)'
  PROVE  RequestsAreSound'
<1>1. \A q \in Requests : RequestInv(q)'
  BY RequestKeeps DEF RequestsAreSound, RequestInv, OnlyOf
<1> QED
  BY <1>1 DEF RequestsAreSound, RequestInv

LEMMA SessionsKeep ==
  ASSUME TypeOK, RowsAreInserted, SessionsAreEarned, RowsStay,
         \A s \in Sessions : /\ sessions'[s].courier = sessions[s].courier
                             /\ sessions'[s].code = sessions[s].code,
         \A k \in Codes : Verifying(k)' \subseteq Verifying(k)
  PROVE  SessionsAreEarned'
<1> SUFFICES ASSUME NEW k \in Codes
             PROVE  /\ \A s \in OpenedBy(k)' : codes'[k].used /\ sessions'[s].courier = codes'[k].courier
                    /\ Cardinality(OpenedBy(k)') + Cardinality(Verifying(k)') <= Cardinality(Requests)
  BY DEF SessionsAreEarned
<1>1. OpenedBy(k)' = OpenedBy(k)
  BY DEF OpenedBy
<1>2. \A s \in OpenedBy(k) : codes'[k].used /\ sessions'[s].courier = codes'[k].courier
  <2>1. ASSUME NEW s \in OpenedBy(k) PROVE codes[k].used /\ sessions[s].courier = codes[k].courier
    BY DEF SessionsAreEarned
  <2>2. ASSUME codes[k].used PROVE codes'[k].used /\ codes'[k].courier = codes[k].courier
    BY <2>2, RowIsDrawn DEF RowsStay
  <2>3. \A s \in OpenedBy(k) : sessions'[s].courier = sessions[s].courier
    BY DEF OpenedBy
  <2> QED
    BY <2>1, <2>2, <2>3
<1>3. Cardinality(Verifying(k)') \in Nat /\ Cardinality(Verifying(k)') <= Cardinality(Verifying(k))
  BY PartOf, SetsAreFinite
<1> QED
  BY <1>1, <1>2, <1>3, SetsAreFinite, RequestsAreFinite DEF SessionsAreEarned

LEMMA FewKeep ==
  ASSUME FewActiveCodes,
         \A c \in Couriers : ActiveOf(c)' \subseteq ActiveOf(c),
         \A c \in Couriers : Inserting(c)' \subseteq Inserting(c)
  PROVE  FewActiveCodes'
<1> SUFFICES ASSUME NEW c \in Couriers
             PROVE  Cardinality(ActiveOf(c)') + Cardinality(Inserting(c)') <= Cardinality(Requests)
  BY DEF FewActiveCodes
<1>1. Cardinality(ActiveOf(c)') \in Nat /\ Cardinality(ActiveOf(c)') <= Cardinality(ActiveOf(c))
  BY PartOf, SetsAreFinite
<1>2. Cardinality(Inserting(c)') \in Nat /\ Cardinality(Inserting(c)') <= Cardinality(Inserting(c))
  BY PartOf, SetsAreFinite
<1> QED
  BY <1>1, <1>2, SetsAreFinite, RequestsAreFinite DEF FewActiveCodes

\* The jobs that are there stay, or their code is received.
JobsStay ==
  /\ received \subseteq received' /\ lost \subseteq lost'
  /\ \A k \in Codes : jobs[k].state # "none" => jobs'[k].state # "none" \/ k \in received'

LEMMA CodesKeep ==
  ASSUME TypeOK, NoCodeIsForgotten, drawn' = drawn, JobsStay,
         \A r \in Requests : req[r].pc = "enqueue" =>
           \/ req'[r] = req[r]
           \/ req[r].code \in lost'
           \/ jobs'[req[r].code].state # "none"
  PROVE  NoCodeIsForgotten'
<1> SUFFICES ASSUME NEW k \in 1..drawn
             PROVE  \/ k \in received' \cup lost'
                    \/ jobs'[k].state # "none"
                    \/ \E r \in Requests : req'[r].pc = "enqueue" /\ req'[r].code = k
  BY DEF NoCodeIsForgotten
<1>1. k \in Codes
  BY AuthAssumption DEF TypeOK, Codes
<1>2. \/ k \in received \cup lost
      \/ jobs[k].state # "none"
      \/ \E r \in Requests : req[r].pc = "enqueue" /\ req[r].code = k
  BY DEF NoCodeIsForgotten
<1>3. CASE \E r \in Requests : req[r].pc = "enqueue" /\ req[r].code = k
  BY <1>3
<1> QED
  BY <1>1, <1>2, <1>3 DEF JobsStay

-----------------------------------------------------------------------------
(* Every step *)

LEMMA AfterErrorIs ==
  ASSUME TypeOK, NEW k \in Codes, jobs[k].state = "kept", AfterError(k)
  PROVE  /\ jobs' \in [Codes -> Job \cup {NoJob, FailedJob}]
         /\ \A j \in Codes : jobs[j].state # "none" => jobs'[j].state # "none"
<1> DEFINE y == IF jobs[k].attempts + 1 < Attempts
                THEN [jobs[k] EXCEPT !.attempts = jobs[k].attempts + 1] ELSE FailedJob
<1>1. jobs[k] \in Job
  BY DEF TypeOK, NoJob, FailedJob
<1>2. y \in Job \cup {NoJob, FailedJob} /\ y.state # "none"
  BY <1>1 DEF Job, FailedJob, NoJob
<1>3. jobs' = [jobs EXCEPT ![k] = y]
  BY DEF AfterError
<1> HIDE DEF y
<1> QED
  BY <1>2, <1>3 DEF TypeOK

LEMMA StallIs ==
  ASSUME TypeOK, NEW k \in Codes, Stall(k)
  PROVE  /\ jobs' \in [Codes -> Job \cup {NoJob, FailedJob}]
         /\ \A j \in Codes : jobs[j].state # "none" => jobs'[j].state # "none"
<1> DEFINE y == IF jobs[k].stalls < MaxStalls
                THEN [jobs[k] EXCEPT !.stalls = jobs[k].stalls + 1] ELSE FailedJob
<1>1. jobs[k] \in Job
  BY DEF Stall, TypeOK, NoJob, FailedJob
<1>2. y \in Job \cup {NoJob, FailedJob} /\ y.state # "none"
  BY <1>1 DEF Job, FailedJob, NoJob
<1>3. jobs' = [jobs EXCEPT ![k] = y]
  BY DEF Stall
<1> HIDE DEF y
<1> QED
  BY <1>2, <1>3 DEF TypeOK

LEMMA TroubleIs == TypeOK /\ Trouble => failures' \in 0..MaxFailures
BY AuthAssumption DEF TypeOK, Trouble

\* A step of the delivery queue, or a request that ends: no table changes.
LEMMA TablesStay ==
  ASSUME IInv, UNCHANGED tables,
         RequestTypeOK', failures' \in 0..MaxFailures, lost' \subseteq Codes,
         received' \subseteq Codes, jobs' \in [Codes -> Job \cup {NoJob, FailedJob}],
         req' = req \/ \E r \in Requests : OnlyOf(r) /\ req'[r].pc = "idle",
         NoCodeIsForgotten'
  PROVE  IInv'
<1>1. TypeOK'
  BY DEF IInv, TypeOK, tables, RequestTypeOK
<1>2. RowsAreInserted' /\ RowsStay
  BY DEF IInv, RowsAreInserted, RowsStay, tables
<1>3. RequestsAreSound'
  <2>1. CASE req' = req
    BY <2>1, <1>2, RequestsKeep DEF IInv
  <2>2. ASSUME NEW r \in Requests, OnlyOf(r), req'[r].pc = "idle" PROVE RequestsAreSound'
    <3>1. RequestInv(r)'
      BY <2>2 DEF RequestInv
    <3> QED
      BY <2>2, <3>1, <1>2, RequestsAfter DEF IInv
  <2> QED
    BY <2>1, <2>2
<1>4. /\ \A k \in Codes : Verifying(k)' \subseteq Verifying(k)
      /\ \A c \in Couriers : Inserting(c)' \subseteq Inserting(c)
  BY SetsStay, SetsShrink
<1>5. SessionsAreEarned'
  BY <1>2, <1>4, SessionsKeep DEF IInv, tables
<1>6. FewActiveCodes'
  BY <1>4, FewKeep DEF IInv, ActiveOf, Active, tables
<1> QED
  BY <1>1, <1>2, <1>3, <1>5, <1>6 DEF IInv

LEMMA SendCodeStep ==
  ASSUME IInv, NEW r \in Requests, NEW c \in Couriers, NEW channel \in {"sms", "telegram"},
         NEW k \in Codes \cup {0}, SendCode(r, c, channel, k)
  PROVE  IInv'
<1> DEFINE pc == IF k = 0 THEN "insert" ELSE "enqueue"
<1>1. /\ RequestTypeOK' /\ OnlyOf(r) /\ req[r].pc = "idle"
      /\ req'[r].pc = pc /\ req'[r].courier = c /\ req'[r].channel = channel /\ req'[r].code = k
  BY BeginIs DEF SendCode, IInv, TypeOK, RequestTypeOK
<1>2. UNCHANGED <<codes, drawn, sessions, issued, jobs, received, lost, failures>>
  BY DEF SendCode, tables, delivery
<1>3. TypeOK'
  BY <1>1, <1>2 DEF IInv, TypeOK, RequestTypeOK
<1>4. RowsAreInserted' /\ RowsStay
  BY <1>2 DEF IInv, RowsAreInserted, RowsStay
<1>5. k \in Codes => codes[k].courier = c
  BY DEF SendCode, Finds, ActiveOf, Codes
<1>6. RequestsAreSound'
  <2>1. RequestInv(r)'
    BY <1>1, <1>2, <1>5 DEF RequestInv
  <2> QED
    BY <2>1, <1>1, <1>4, RequestsAfter DEF IInv
<1>7. SessionsAreEarned'
  <2>1. \A j \in Codes : Verifying(j)' \subseteq Verifying(j)
    BY <1>1, SetsShrink
  <2> QED
    BY <2>1, <1>2, <1>4, SessionsKeep DEF IInv
<1>8. NoCodeIsForgotten'
  <2>1. JobsStay
    BY <1>2 DEF JobsStay
  <2>2. \A q \in Requests : req[q].pc = "enqueue" => req'[q] = req[q]
    BY <1>1 DEF OnlyOf
  <2> QED
    BY <2>1, <2>2, <1>2, CodesKeep DEF IInv
<1>9. FewActiveCodes'
  <2>1. \A d \in Couriers : ActiveOf(d)' = ActiveOf(d)
    BY <1>2 DEF ActiveOf, Active
  <2>2. CASE k # 0
    BY <2>1, <2>2, <1>1, SetsShrink, FewKeep DEF IInv
  <2>3. CASE k = 0
    <3> SUFFICES ASSUME NEW d \in Couriers
                 PROVE  Cardinality(ActiveOf(d)') + Cardinality(Inserting(d)') <= Cardinality(Requests)
      BY DEF FewActiveCodes
    <3>1. CASE d = c
      <4>1. ActiveOf(c) = {}
        BY <2>3 DEF SendCode, Finds, ActiveOf, Codes
      <4>2. Inserting(c)' \subseteq Requests
        BY DEF Inserting
      <4>3. Cardinality(Inserting(c)') \in Nat /\ Cardinality(Inserting(c)') <= Cardinality(Requests)
        BY <4>2, PartOf, RequestsAreFinite
      <4>4. Cardinality(ActiveOf(d)') = 0
        BY <2>1, <3>1, <4>1, FS_EmptySet
      <4> QED
        BY <3>1, <4>3, <4>4
    <3>2. CASE d # c
      <4>1. Inserting(d)' = Inserting(d)
        BY <1>1, <3>2 DEF Inserting, OnlyOf
      <4> QED
        BY <2>1, <4>1 DEF IInv, FewActiveCodes
    <3> QED
      BY <3>1, <3>2
  <2> QED
    BY <2>2, <2>3
<1> QED
  BY <1>3, <1>4, <1>6, <1>7, <1>8, <1>9 DEF IInv

LEMMA VerifyCodeStep ==
  ASSUME IInv, NEW r \in Requests, NEW c \in Couriers, NEW d \in Digits, NEW k \in Codes,
         VerifyCode(r, c, d, k)
  PROVE  IInv'
<1>1. /\ RequestTypeOK' /\ OnlyOf(r) /\ req[r].pc = "idle"
      /\ req'[r].pc = "use" /\ req'[r].courier = c /\ req'[r].code = k
  BY BeginIs DEF VerifyCode, IInv, TypeOK, RequestTypeOK
<1>2. UNCHANGED <<codes, drawn, sessions, issued, jobs, received, lost, failures>>
  BY DEF VerifyCode, tables, delivery
<1>3. TypeOK'
  BY <1>1, <1>2 DEF IInv, TypeOK, RequestTypeOK
<1>4. RowsAreInserted' /\ RowsStay
  BY <1>2 DEF IInv, RowsAreInserted, RowsStay
<1>5. codes[k].courier = c /\ ~codes[k].used /\ k # 0
  BY DEF VerifyCode, ActiveOf, Active, Codes
<1>6. RequestsAreSound'
  <2>1. RequestInv(r)'
    BY <1>1, <1>2, <1>5 DEF RequestInv
  <2> QED
    BY <2>1, <1>1, <1>4, RequestsAfter DEF IInv
<1>7. SessionsAreEarned'
  <2> SUFFICES ASSUME NEW j \in Codes
               PROVE  /\ \A s \in OpenedBy(j)' : codes'[j].used /\ sessions'[s].courier = codes'[j].courier
                      /\ Cardinality(OpenedBy(j)') + Cardinality(Verifying(j)') <= Cardinality(Requests)
    BY DEF SessionsAreEarned
  <2>1. OpenedBy(j)' = OpenedBy(j)
    BY <1>2 DEF OpenedBy
  <2>2. \A s \in OpenedBy(j) : codes'[j].used /\ sessions'[s].courier = codes'[j].courier
    BY <1>2 DEF IInv, SessionsAreEarned
  <2>3. CASE j = k
    <3>1. OpenedBy(k) = {}
      BY <1>5 DEF IInv, SessionsAreEarned
    <3>2. Verifying(k)' \subseteq Requests
      BY DEF Verifying
    <3>3. Cardinality(Verifying(k)') \in Nat /\ Cardinality(Verifying(k)') <= Cardinality(Requests)
      BY <3>2, PartOf, RequestsAreFinite
    <3>4. Cardinality(OpenedBy(j)') = 0
      BY <2>1, <2>3, <3>1, FS_EmptySet
    <3> QED
      BY <2>1, <2>2, <2>3, <3>3, <3>4
  <2>4. CASE j # k
    <3>1. Verifying(j)' = Verifying(j)
      BY <1>1, <2>4 DEF Verifying, OnlyOf
    <3> QED
      BY <2>1, <2>2, <3>1 DEF IInv, SessionsAreEarned
  <2> QED
    BY <2>3, <2>4
<1>8. NoCodeIsForgotten'
  <2>1. JobsStay
    BY <1>2 DEF JobsStay
  <2>2. \A q \in Requests : req[q].pc = "enqueue" => req'[q] = req[q]
    BY <1>1 DEF OnlyOf
  <2> QED
    BY <2>1, <2>2, <1>2, CodesKeep DEF IInv
<1>9. FewActiveCodes'
  <2>1. \A e \in Couriers : ActiveOf(e)' \subseteq ActiveOf(e)
    BY <1>2 DEF ActiveOf, Active
  <2>2. \A e \in Couriers : Inserting(e)' \subseteq Inserting(e)
    BY <1>1, SetsShrink
  <2> QED
    BY <2>1, <2>2, FewKeep DEF IInv
<1> QED
  BY <1>3, <1>4, <1>6, <1>7, <1>8, <1>9 DEF IInv

LEMMA InsertCodeStep ==
  ASSUME IInv, NEW r \in Requests, NEW d \in Digits, InsertCode(r, d) PROVE IInv'
<1> DEFINE row == [courier |-> req[r].courier, digits |-> d, used |-> FALSE, live |-> TRUE]
           x == [req[r] EXCEPT !.pc = "enqueue", !.code = drawn + 1]
<1>1. /\ req[r].pc = "insert" /\ drawn < MaxCodes /\ drawn' = drawn + 1
      /\ codes' = [codes EXCEPT ![drawn + 1] = row]
      /\ req' = [req EXCEPT ![r] = x]
      /\ UNCHANGED <<sessions, issued, jobs, received, lost, failures>>
  BY DEF InsertCode, delivery
<1>2. req[r] \in Request
  BY <1>1, InFlightType DEF IInv, TypeOK, RequestTypeOK
<1>3. drawn \in Nat /\ drawn + 1 \in Codes /\ drawn + 1 # 0 /\ drawn' \in 0..MaxCodes
  BY <1>1, AuthAssumption DEF IInv, TypeOK, Codes
<1>4. row \in Row /\ row.courier = req[r].courier /\ row.courier \in Couriers
      /\ ~row.used
  BY <1>2 DEF Request, Row
<1>5. /\ x \in Request /\ x.pc = "enqueue" /\ x.code = drawn + 1
      /\ x.courier = req[r].courier /\ x.channel = req[r].channel
  BY <1>2, <1>3 DEF Request
<1> HIDE DEF row, x
<1>6. /\ codes' \in [Codes -> Row \cup {NoCode}] /\ codes'[drawn + 1] = row
      /\ \A k \in Codes : k # drawn + 1 => codes'[k] = codes[k]
  BY <1>1, <1>3, <1>4 DEF IInv, TypeOK
<1>7. RequestTypeOK' /\ OnlyOf(r) /\ req'[r] = x
  BY <1>1, <1>5 DEF IInv, TypeOK, RequestTypeOK, OnlyOf
<1>8. TypeOK'
  BY <1>1, <1>3, <1>6, <1>7 DEF IInv, TypeOK, RequestTypeOK
<1>9. codes[drawn + 1] = NoCode
  BY <1>3 DEF IInv, RowsAreInserted
<1>10. row # NoCode
  BY <1>4, AuthAssumption DEF NoCode
<1>11. RowsAreInserted'
  <2>1. ASSUME NEW k \in Codes PROVE codes'[k] = NoCode <=> k > drawn'
    <3>1. codes[k] = NoCode <=> k > drawn
      BY DEF IInv, RowsAreInserted
    <3> QED
      BY <3>1, <1>1, <1>3, <1>6, <1>10 DEF Codes
  <2> QED
    BY <2>1, <1>1 DEF IInv, RowsAreInserted
<1>12. RowsStay
  BY <1>3, <1>6 DEF RowsStay, Codes
<1>13. RequestsAreSound'
  <2>1. RequestInv(r)'
    BY <1>1, <1>3, <1>4, <1>5, <1>6, <1>7 DEF RequestInv, IInv, RequestsAreSound
  <2> QED
    BY <2>1, <1>7, <1>12, RequestsAfter DEF IInv
<1>14. SessionsAreEarned'
  <2>1. \A k \in Codes : Verifying(k)' \subseteq Verifying(k)
    BY <1>5, <1>7, SetsShrink
  <2> QED
    BY <2>1, <1>1, <1>12, SessionsKeep DEF IInv
<1>15. NoCodeIsForgotten'
  <2> SUFFICES ASSUME NEW k \in 1..drawn'
               PROVE  \/ k \in received' \cup lost'
                      \/ jobs'[k].state # "none"
                      \/ \E q \in Requests : req'[q].pc = "enqueue" /\ req'[q].code = k
    BY DEF NoCodeIsForgotten
  <2>1. CASE k = drawn + 1
    BY <2>1, <1>5, <1>7
  <2>2. CASE k # drawn + 1
    <3>1. k \in 1..drawn
      BY <2>2, <1>1, <1>3
    <3>2. \A q \in Requests : req[q].pc = "enqueue" => req'[q] = req[q]
      BY <1>1, <1>7 DEF OnlyOf
    <3> QED
      BY <3>1, <3>2, <1>1 DEF IInv, NoCodeIsForgotten
  <2> QED
    BY <2>1, <2>2
<1>16. FewActiveCodes'
  <2> SUFFICES ASSUME NEW c \in Couriers
               PROVE  Cardinality(ActiveOf(c)') + Cardinality(Inserting(c)') <= Cardinality(Requests)
    BY DEF FewActiveCodes
  <2>1. Cardinality(ActiveOf(c)) + Cardinality(Inserting(c)) <= Cardinality(Requests)
    BY DEF IInv, FewActiveCodes
  <2>2. CASE c = req[r].courier
    <3>1. ActiveOf(c)' \subseteq ActiveOf(c) \cup {drawn + 1}
      BY <1>6 DEF ActiveOf, Active
    <3>2. r \in Inserting(c) /\ Inserting(c)' \subseteq Inserting(c) \ {r}
      BY <2>2, <1>1, <1>5, <1>7 DEF Inserting, OnlyOf
    <3>3. /\ Cardinality(ActiveOf(c)') \in Nat
          /\ Cardinality(ActiveOf(c)') <= Cardinality(ActiveOf(c)) + 1
      BY <3>1, OneMore, SetsAreFinite
    <3>4. /\ Cardinality(Inserting(c)') \in Nat
          /\ Cardinality(Inserting(c)') <= Cardinality(Inserting(c)) - 1
      BY <3>2, OneLess, SetsAreFinite
    <3> QED
      BY <2>1, <3>3, <3>4, SetsAreFinite, RequestsAreFinite
  <2>3. CASE c # req[r].courier
    <3>1. ActiveOf(c)' \subseteq ActiveOf(c)
      BY <2>3, <1>4, <1>6 DEF ActiveOf, Active
    <3>2. Inserting(c)' \subseteq Inserting(c)
      BY <1>5, <1>7, SetsShrink
    <3>3. /\ Cardinality(ActiveOf(c)') \in Nat
          /\ Cardinality(ActiveOf(c)') <= Cardinality(ActiveOf(c))
      BY <3>1, PartOf, SetsAreFinite
    <3>4. /\ Cardinality(Inserting(c)') \in Nat
          /\ Cardinality(Inserting(c)') <= Cardinality(Inserting(c))
      BY <3>2, PartOf, SetsAreFinite
    <3> QED
      BY <2>1, <3>3, <3>4, SetsAreFinite, RequestsAreFinite
  <2> QED
    BY <2>2, <2>3
<1> QED
  BY <1>8, <1>11, <1>13, <1>14, <1>15, <1>16 DEF IInv

LEMMA EnqueueDeliveryStep ==
  ASSUME IInv, NEW r \in Requests, EnqueueDelivery(r) PROVE IInv'
<1> DEFINE k == req[r].code
           y == [NoJob EXCEPT !.state = "kept", !.channel = req[r].channel]
<1>1. req[r].pc = "enqueue" /\ Return(r) /\ UNCHANGED <<tables, received, lost, failures>>
  BY DEF EnqueueDelivery
<1>2. req[r] \in Request /\ k \in Codes /\ req[r].channel \in {"sms", "telegram"}
  <2>1. req[r] \in Request
    BY <1>1, InFlightType DEF IInv, TypeOK, RequestTypeOK
  <2> QED
    BY <2>1, <1>1 DEF Request, IInv, RequestsAreSound
<1>3. y \in Job /\ y.state = "kept"
  BY <1>2 DEF Job, NoJob
<1>4. jobs' = IF jobs[k].state # "none" THEN jobs ELSE [jobs EXCEPT ![k] = y]
  BY DEF EnqueueDelivery
<1> HIDE DEF y
<1>5. /\ jobs' \in [Codes -> Job \cup {NoJob, FailedJob}]
      /\ jobs'[k].state # "none"
      /\ \A j \in Codes : jobs[j].state # "none" => jobs'[j].state # "none"
  BY <1>2, <1>3, <1>4 DEF IInv, TypeOK
<1>6. RequestTypeOK' /\ OnlyOf(r) /\ req'[r].pc = "idle"
  BY <1>1, ReturnIs DEF IInv, TypeOK, RequestTypeOK
<1>7. NoCodeIsForgotten'
  <2>1. JobsStay
    BY <1>1, <1>5 DEF JobsStay
  <2>2. \A q \in Requests : req[q].pc = "enqueue" => req'[q] = req[q] \/ jobs'[req[q].code].state # "none"
    BY <1>5, <1>6 DEF OnlyOf
  <2> QED
    BY <2>1, <2>2, <1>1, CodesKeep DEF IInv, tables
<1> QED
  BY <1>1, <1>5, <1>6, <1>7, TablesStay DEF IInv, TypeOK

LEMMA FailStep ==
  ASSUME IInv, NEW r \in Requests, Fail(r) PROVE IInv'
<1>1. /\ req[r].pc # "idle" /\ Return(r) /\ UNCHANGED <<tables, jobs, received>>
      /\ lost' = IF req[r].pc = "enqueue" THEN lost \cup {req[r].code} ELSE lost
  BY DEF Fail, delivery
<1>2. req[r] \in Request
  BY <1>1, InFlightType DEF IInv, TypeOK, RequestTypeOK
<1>3. lost' \subseteq Codes /\ failures' \in 0..MaxFailures
  BY <1>1, <1>2, TroubleIs DEF IInv, TypeOK, Request, RequestsAreSound, Fail
<1>4. RequestTypeOK' /\ OnlyOf(r) /\ req'[r].pc = "idle"
  BY <1>1, ReturnIs DEF IInv, TypeOK, RequestTypeOK
<1>5. NoCodeIsForgotten'
  <2>1. JobsStay
    BY <1>1 DEF JobsStay
  <2>2. \A q \in Requests : req[q].pc = "enqueue" => req'[q] = req[q] \/ req[q].code \in lost'
    BY <1>1, <1>4 DEF OnlyOf
  <2> QED
    BY <2>1, <2>2, <1>1, CodesKeep DEF IInv, tables
<1> QED
  BY <1>1, <1>3, <1>4, <1>5, TablesStay DEF IInv, TypeOK

\* A step of the delivery queue.
LEMMA QueueStep ==
  ASSUME IInv, UNCHANGED <<tables, lost, req>>, received \subseteq received', received' \subseteq Codes,
         failures' \in 0..MaxFailures, jobs' \in [Codes -> Job \cup {NoJob, FailedJob}],
         \A k \in Codes : jobs[k].state # "none" => jobs'[k].state # "none" \/ k \in received'
  PROVE  IInv'
<1>1. NoCodeIsForgotten'
  BY CodesKeep DEF IInv, JobsStay, tables
<1> QED
  BY <1>1, TablesStay DEF IInv, TypeOK, RequestTypeOK

LEMMA DeliverViaTelegramStep ==
  ASSUME IInv, NEW k \in Codes, DeliverViaTelegram(k) PROVE IInv'
<1>1. /\ received' = received \cup {k} /\ jobs' = [jobs EXCEPT ![k] = NoJob]
      /\ UNCHANGED <<tables, lost, req, failures>>
  BY DEF DeliverViaTelegram
<1>2. /\ jobs' \in [Codes -> Job \cup {NoJob, FailedJob}]
      /\ \A j \in Codes : j # k => jobs'[j] = jobs[j]
  BY <1>1 DEF IInv, TypeOK
<1> QED
  BY <1>1, <1>2, QueueStep DEF IInv, TypeOK

LEMMA TelegramFailsStep ==
  ASSUME IInv, NEW k \in Codes, NEW taken \in BOOLEAN, TelegramFails(k, taken) PROVE IInv'
<1>1. /\ received \subseteq received' /\ received' \subseteq Codes
      /\ UNCHANGED <<tables, lost, req>>
  BY DEF TelegramFails, IInv, TypeOK
<1>2. failures' \in 0..MaxFailures
  BY TroubleIs DEF TelegramFails, IInv
<1> QED
  BY <1>1, <1>2, AfterErrorIs, QueueStep DEF TelegramFails, IsKept, IInv

LEMMA DeliverViaSmsStep ==
  ASSUME IInv, NEW k \in Codes, DeliverViaSms(k) PROVE IInv'
BY AfterErrorIs, QueueStep DEF DeliverViaSms, SmsFails, IsKept, IInv, TypeOK

LEMMA StallStep ==
  ASSUME IInv, NEW k \in Codes, Stall(k) PROVE IInv'
<1>1. failures' \in 0..MaxFailures /\ UNCHANGED <<tables, lost, req, received>>
  BY TroubleIs DEF Stall, IInv
<1> QED
  BY <1>1, StallIs, QueueStep DEF IInv, TypeOK

LEMMA ExpireStep ==
  ASSUME IInv, NEW k \in Codes, Expire(k) PROVE IInv'
<1> DEFINE row == [codes[k] EXCEPT !.live = FALSE]
<1>1. /\ codes[k].live /\ ~codes[k].used
      /\ codes' = [codes EXCEPT ![k] = row]
      /\ UNCHANGED <<drawn, sessions, issued, jobs, received, lost, req, failures>>
  BY DEF Expire, Active, delivery
<1>2. codes[k] \in Row
  BY <1>1 DEF IInv, TypeOK, NoCode
<1>3. row \in Row /\ row.courier = codes[k].courier /\ row.used = codes[k].used /\ row.live = FALSE
  BY <1>2 DEF Row
<1> HIDE DEF row
<1>4. /\ codes' \in [Codes -> Row \cup {NoCode}] /\ codes'[k] = row
      /\ \A j \in Codes : j # k => codes'[j] = codes[j]
  BY <1>1, <1>3 DEF IInv, TypeOK
<1>5. TypeOK'
  BY <1>1, <1>4 DEF IInv, TypeOK
<1>6. codes[k] # NoCode /\ row # NoCode
  BY <1>2, <1>3, AuthAssumption DEF Row, NoCode
<1>7. RowsAreInserted' /\ RowsStay
  BY <1>1, <1>3, <1>4, <1>6 DEF IInv, RowsAreInserted, RowsStay
<1>8. RequestsAreSound'
  BY <1>1, <1>7, RequestsKeep DEF IInv
<1>9. SessionsAreEarned'
  BY <1>1, <1>7, SetsStay, SessionsKeep DEF IInv
<1>10. NoCodeIsForgotten'
  BY <1>1 DEF IInv, NoCodeIsForgotten
<1>11. FewActiveCodes'
  <2>1. \A c \in Couriers : ActiveOf(c)' \subseteq ActiveOf(c)
    BY <1>3, <1>4 DEF ActiveOf, Active
  <2> QED
    BY <2>1, <1>1, SetsStay, FewKeep DEF IInv
<1> QED
  BY <1>5, <1>7, <1>8, <1>9, <1>10, <1>11 DEF IInv

LEMMA MarkUsedStep ==
  ASSUME IInv, NEW r \in Requests, MarkUsed(r) PROVE IInv'
<1>0. req[r].pc = "use" /\ req[r] \in Request /\ req[r].code \in Codes
      /\ codes[req[r].code].courier = req[r].courier
  <2>1. req[r].pc = "use"
    BY DEF MarkUsed
  <2>2. req[r] \in Request
    BY <2>1, InFlightType DEF IInv, TypeOK, RequestTypeOK
  <2> QED
    BY <2>1, <2>2 DEF Request, IInv, RequestsAreSound
<1>1. PICK k \in Codes : k = req[r].code
  BY <1>0
<1> DEFINE row == [codes[k] EXCEPT !.used = TRUE]
<1>2. /\ codes' = [codes EXCEPT ![k] = row] /\ Step(r, "issue")
      /\ UNCHANGED <<drawn, sessions, issued, jobs, received, lost, failures>>
  BY <1>1 DEF MarkUsed, delivery
<1>3. codes[k] \in Row
  BY <1>0, <1>1, AuthAssumption DEF IInv, TypeOK, NoCode, Request
<1>4. row \in Row /\ row.courier = codes[k].courier /\ row.used = TRUE
  BY <1>3 DEF Row
<1> HIDE DEF row
<1>5. /\ codes' \in [Codes -> Row \cup {NoCode}] /\ codes'[k] = row
      /\ \A j \in Codes : j # k => codes'[j] = codes[j]
  BY <1>2, <1>4 DEF IInv, TypeOK
<1>6. /\ RequestTypeOK' /\ OnlyOf(r) /\ req'[r].pc = "issue"
      /\ req'[r].courier = req[r].courier /\ req'[r].code = k
  BY <1>0, <1>1, <1>2, StepIs DEF IInv, TypeOK, RequestTypeOK
<1>7. TypeOK'
  BY <1>2, <1>5, <1>6 DEF IInv, TypeOK, RequestTypeOK
<1>8. codes[k] # NoCode /\ row # NoCode
  BY <1>3, <1>4, AuthAssumption DEF Row, NoCode
<1>9. RowsAreInserted' /\ RowsStay
  BY <1>2, <1>4, <1>5, <1>8 DEF IInv, RowsAreInserted, RowsStay
<1>10. RequestsAreSound'
  <2>1. RequestInv(r)'
    BY <1>0, <1>1, <1>4, <1>5, <1>6 DEF RequestInv, Codes
  <2> QED
    BY <2>1, <1>6, <1>9, RequestsAfter DEF IInv
<1>11. SessionsAreEarned'
  <2>1. \A j \in Codes : Verifying(j)' \subseteq Verifying(j)
    BY <1>0, <1>1, <1>6 DEF Verifying, OnlyOf
  <2> QED
    BY <2>1, <1>2, <1>9, SessionsKeep DEF IInv
<1>12. NoCodeIsForgotten'
  <2>1. JobsStay
    BY <1>2 DEF JobsStay
  <2>2. \A q \in Requests : req[q].pc = "enqueue" => req'[q] = req[q]
    BY <1>0, <1>6 DEF OnlyOf
  <2> QED
    BY <2>1, <2>2, <1>2, CodesKeep DEF IInv
<1>13. FewActiveCodes'
  <2>1. \A c \in Couriers : ActiveOf(c)' \subseteq ActiveOf(c)
    BY <1>4, <1>5 DEF ActiveOf, Active
  <2>2. \A c \in Couriers : Inserting(c)' \subseteq Inserting(c)
    BY <1>6, SetsShrink
  <2> QED
    BY <2>1, <2>2, FewKeep DEF IInv
<1> QED
  BY <1>7, <1>9, <1>10, <1>11, <1>12, <1>13 DEF IInv

LEMMA IssueTokensStep ==
  ASSUME IInv, NEW r \in Requests, IssueTokens(r) PROVE IInv'
<1> DEFINE k == req[r].code
           new == [courier |-> req[r].courier, code |-> k, revoked |-> FALSE]
<1>1. /\ req[r].pc = "issue" /\ issued < MaxSessions /\ issued' = issued + 1
      /\ sessions' = [sessions EXCEPT ![issued + 1] = new] /\ Return(r)
      /\ UNCHANGED <<codes, drawn, jobs, received, lost, failures>>
  BY DEF IssueTokens, delivery
<1>2. req[r] \in Request
  BY <1>1, InFlightType DEF IInv, TypeOK, RequestTypeOK
<1>3. k \in Codes /\ codes[k].courier = req[r].courier /\ codes[k].used /\ req[r].courier \in Couriers
  BY <1>1, <1>2 DEF Request, IInv, RequestsAreSound
<1>4. issued \in Nat /\ issued + 1 \in Sessions /\ issued' \in 0..MaxSessions
  BY <1>1, AuthAssumption DEF IInv, TypeOK, Sessions
<1>5. new \in Session /\ new.courier = req[r].courier /\ new.code = k /\ new # NoSession
  BY <1>3, AuthAssumption DEF Session, NoSession
<1> HIDE DEF new
<1>6. /\ sessions' \in [Sessions -> Session \cup {NoSession}] /\ sessions'[issued + 1] = new
      /\ \A s \in Sessions : s # issued + 1 => sessions'[s] = sessions[s]
  BY <1>1, <1>4, <1>5 DEF IInv, TypeOK
<1>7. RequestTypeOK' /\ OnlyOf(r) /\ req'[r].pc = "idle"
  BY <1>1, ReturnIs DEF IInv, TypeOK, RequestTypeOK
<1>8. TypeOK'
  BY <1>1, <1>4, <1>6, <1>7 DEF IInv, TypeOK, RequestTypeOK
<1>9. RowsAreInserted'
  <2>1. ASSUME NEW s \in Sessions PROVE sessions'[s] = NoSession <=> s > issued'
    <3>1. sessions[s] = NoSession <=> s > issued
      BY DEF IInv, RowsAreInserted
    <3> QED
      BY <3>1, <1>1, <1>4, <1>5, <1>6 DEF Sessions
  <2> QED
    BY <2>1, <1>1 DEF IInv, RowsAreInserted
<1>10. RowsStay
  BY <1>1 DEF RowsStay
<1>11. RequestsAreSound'
  <2>1. RequestInv(r)'
    BY <1>7 DEF RequestInv
  <2> QED
    BY <2>1, <1>7, <1>10, RequestsAfter DEF IInv
<1>12. sessions[issued + 1] = NoSession
  BY <1>4 DEF IInv, RowsAreInserted
<1>13. SessionsAreEarned'
  <2> SUFFICES ASSUME NEW j \in Codes
               PROVE  /\ \A s \in OpenedBy(j)' : codes'[j].used /\ sessions'[s].courier = codes'[j].courier
                      /\ Cardinality(OpenedBy(j)') + Cardinality(Verifying(j)') <= Cardinality(Requests)
    BY DEF SessionsAreEarned
  <2>1. Cardinality(OpenedBy(j)) + Cardinality(Verifying(j)) <= Cardinality(Requests)
    BY DEF IInv, SessionsAreEarned
  <2>2. \A s \in OpenedBy(j) : codes[j].used /\ sessions[s].courier = codes[j].courier
    BY DEF IInv, SessionsAreEarned
  <2>3. CASE j = k
    <3>1. OpenedBy(j)' \subseteq OpenedBy(j) \cup {issued + 1}
      BY <1>6 DEF OpenedBy
    <3>2. r \in Verifying(j) /\ Verifying(j)' \subseteq Verifying(j) \ {r}
      BY <2>3, <1>1, <1>7 DEF Verifying, OnlyOf
    <3>3. \A s \in OpenedBy(j)' : codes'[j].used /\ sessions'[s].courier = codes'[j].courier
      <4>1. issued + 1 \notin OpenedBy(j)
        BY <1>12 DEF OpenedBy, NoSession
      <4>2. \A s \in OpenedBy(j) : s \in Sessions
        BY DEF OpenedBy
      <4> QED
        BY <2>2, <2>3, <3>1, <4>1, <4>2, <1>1, <1>3, <1>5, <1>6
    <3>4. /\ Cardinality(OpenedBy(j)') \in Nat
          /\ Cardinality(OpenedBy(j)') <= Cardinality(OpenedBy(j)) + 1
      BY <3>1, OneMore, SetsAreFinite
    <3>5. /\ Cardinality(Verifying(j)') \in Nat
          /\ Cardinality(Verifying(j)') <= Cardinality(Verifying(j)) - 1
      BY <3>2, OneLess, SetsAreFinite
    <3> QED
      BY <2>1, <3>3, <3>4, <3>5, SetsAreFinite, RequestsAreFinite
  <2>4. CASE j # k
    <3>1. OpenedBy(j)' = OpenedBy(j)
      BY <2>4, <1>5, <1>6, <1>12 DEF OpenedBy, NoSession
    <3>2. Verifying(j)' \subseteq Verifying(j)
      BY <1>7, SetsShrink
    <3>3. \A s \in OpenedBy(j) : codes'[j].used /\ sessions'[s].courier = codes'[j].courier
      BY <2>2, <2>4, <3>1, <1>1, <1>6, <1>5 DEF OpenedBy
    <3>4. /\ Cardinality(Verifying(j)') \in Nat
          /\ Cardinality(Verifying(j)') <= Cardinality(Verifying(j))
      BY <3>2, PartOf, SetsAreFinite
    <3> QED
      BY <2>1, <3>1, <3>3, <3>4, SetsAreFinite, RequestsAreFinite
  <2> QED
    BY <2>3, <2>4
<1>14. NoCodeIsForgotten'
  <2>1. JobsStay
    BY <1>1 DEF JobsStay
  <2>2. \A q \in Requests : req[q].pc = "enqueue" => req'[q] = req[q]
    BY <1>1, <1>7 DEF OnlyOf
  <2> QED
    BY <2>1, <2>2, <1>1, CodesKeep DEF IInv
<1>15. FewActiveCodes'
  <2>1. \A c \in Couriers : ActiveOf(c)' \subseteq ActiveOf(c)
    BY <1>1 DEF ActiveOf, Active
  <2>2. \A c \in Couriers : Inserting(c)' \subseteq Inserting(c)
    BY <1>7, SetsShrink
  <2> QED
    BY <2>1, <2>2, FewKeep DEF IInv
<1> QED
  BY <1>8, <1>9, <1>11, <1>13, <1>14, <1>15 DEF IInv

LEMMA LogoutStep ==
  ASSUME IInv, NEW c \in Couriers, NEW s \in Sessions, Logout(c, s) PROVE IInv'
<1> DEFINE new == [sessions[s] EXCEPT !.revoked = TRUE]
<1>1. /\ sessions[s].courier = c /\ sessions' = [sessions EXCEPT ![s] = new]
      /\ UNCHANGED <<codes, drawn, issued, jobs, received, lost, req, failures>>
  BY DEF Logout, delivery
<1>2. sessions[s] \in Session
  BY <1>1, AuthAssumption DEF IInv, TypeOK, NoSession
<1>3. new \in Session /\ new.courier = sessions[s].courier /\ new.code = sessions[s].code
  BY <1>2 DEF Session
<1> HIDE DEF new
<1>4. /\ sessions' \in [Sessions -> Session \cup {NoSession}] /\ sessions'[s] = new
      /\ \A j \in Sessions : j # s => sessions'[j] = sessions[j]
  BY <1>1, <1>3 DEF IInv, TypeOK
<1>5. sessions[s] # NoSession /\ new # NoSession
  BY <1>2, <1>3, AuthAssumption DEF Session, NoSession
<1>6. TypeOK' /\ RowsAreInserted' /\ RowsStay
  <2>1. RowsAreInserted'
    BY <1>1, <1>4, <1>5 DEF IInv, RowsAreInserted
  <2> QED
    BY <2>1, <1>1, <1>4 DEF IInv, TypeOK, RowsStay
<1>7. RequestsAreSound'
  BY <1>1, <1>6, RequestsKeep DEF IInv
<1>8. SessionsAreEarned'
  BY <1>1, <1>3, <1>4, <1>6, SetsStay, SessionsKeep DEF IInv
<1>9. NoCodeIsForgotten' /\ FewActiveCodes'
  BY <1>1 DEF IInv, NoCodeIsForgotten, FewActiveCodes, ActiveOf, Active, Inserting
<1> QED
  BY <1>6, <1>7, <1>8, <1>9 DEF IInv

LEMMA InitIsSound == Init => IInv
<1> SUFFICES ASSUME Init PROVE IInv
  OBVIOUS
<1>1. TypeOK
  BY AuthAssumption DEF Init, TypeOK
<1>2. RowsAreInserted
  BY DEF Init, RowsAreInserted, Codes, Sessions
<1>3. RequestsAreSound
  BY DEF Init, RequestsAreSound, Idle
<1>4. SessionsAreEarned
  <2>1. \A k \in Codes : OpenedBy(k) = {} /\ Verifying(k) = {}
    BY DEF Init, OpenedBy, Verifying, NoSession, Idle
  <2> QED
    BY <2>1, FS_EmptySet, RequestsAreFinite DEF SessionsAreEarned
<1>5. FewActiveCodes
  <2>1. \A c \in Couriers : ActiveOf(c) = {} /\ Inserting(c) = {}
    BY DEF Init, ActiveOf, Active, Inserting, NoCode, Idle
  <2> QED
    BY <2>1, FS_EmptySet, RequestsAreFinite DEF FewActiveCodes
<1>6. NoCodeIsForgotten
  BY DEF Init, NoCodeIsForgotten
<1> QED
  BY <1>1, <1>2, <1>3, <1>4, <1>5, <1>6 DEF IInv

LEMMA NextIsSound == IInv /\ [Next]_vars => IInv'
<1> SUFFICES ASSUME IInv, [Next]_vars PROVE IInv'
  OBVIOUS
<1>1. CASE \E r \in Requests, c \in Couriers, channel \in {"sms", "telegram"}, k \in Codes \cup {0} :
             SendCode(r, c, channel, k)
  BY <1>1, SendCodeStep
<1>2. CASE \E r \in Requests, c \in Couriers, d \in Digits, k \in Codes : VerifyCode(r, c, d, k)
  BY <1>2, VerifyCodeStep
<1>3. CASE \E c \in Couriers, s \in Sessions : Logout(c, s)
  BY <1>3, LogoutStep
<1>4. CASE \E r \in Requests : Continue(r)
  BY <1>4, InsertCodeStep, EnqueueDeliveryStep, MarkUsedStep, IssueTokensStep DEF Continue
<1>5. CASE \E r \in Requests : Fail(r)
  BY <1>5, FailStep
<1>6. CASE \E k \in Codes : Expire(k)
  BY <1>6, ExpireStep
<1>7. CASE \E k \in Codes : Deliver(k)
  BY <1>7, DeliverViaTelegramStep, DeliverViaSmsStep DEF Deliver
<1>8. CASE \E k \in Codes, taken \in BOOLEAN : TelegramFails(k, taken)
  BY <1>8, TelegramFailsStep
<1>9. CASE \E k \in Codes : Stall(k)
  BY <1>9, StallStep
<1>10. CASE UNCHANGED vars
  BY <1>10, QueueStep DEF vars, tables, delivery, IInv, TypeOK
<1> QED
  BY <1>1, <1>2, <1>3, <1>4, <1>5, <1>6, <1>7, <1>8, <1>9, <1>10 DEF Next

\* The inductive invariant: rows, requests, jobs and what is counted of them.
THEOREM Invariance == Spec => []IInv
BY InitIsSound, NextIsSound, PTL DEF Spec

\* A session is its courier's, for a code that is used, and a code opens no
\* more of them than there are requests verifying it (verifyCode, issueTokens).
THEOREM SessionsAreEarnedHolds == Spec => []SessionsAreEarned
<1>1. IInv => SessionsAreEarned
  BY DEF IInv
<1> QED
  BY <1>1, Invariance, PTL

\* A code that is inserted is sent, kept in a job, or its request was lost
\* (sendCode, CodeDeliveryProcessor).
THEOREM NoCodeIsForgottenHolds == Spec => []NoCodeIsForgotten
<1>1. IInv => NoCodeIsForgotten
  BY DEF IInv
<1> QED
  BY <1>1, Invariance, PTL

\* A courier's active codes and the requests about to insert one are no more
\* than the requests (sendCode).
THEOREM FewActiveCodesHolds == Spec => []FewActiveCodes
<1>1. IInv => FewActiveCodes
  BY DEF IInv
<1> QED
  BY <1>1, Invariance, PTL

-----------------------------------------------------------------------------
(* Logins with a password.  One that has passed the check is counted with   *)
(* the failures, so that recording its failure leaves the sum as it is.     *)

LoginTypeOK ==
  /\ store \in [Keys -> Nat]
  /\ logins \in [Logins -> [pc : {"idle", "compare", "issue"}, key : Keys \cup {NULL}]]

\* The failures of a key, and those that may still be recorded.
Tried(k) == store[k] + Cardinality(Tracker!Comparing(k))

\* The instance counts as this module does.
LEMMA SameCount == \A S : Tracker!Cardinality(S) = Cardinality(S)
BY Zenon DEF Cardinality, Tracker!Cardinality

LEMMA SlotsAreFinite ==
  /\ Cardinality(Logins) \in Nat /\ Cardinality(Logins) > 0
  /\ Limit \in Nat /\ Tracker!Ceiling \in Nat /\ Tracker!Ceiling > 0
<1>1. Cardinality(Logins) \in Nat /\ Cardinality(Logins) # 0
  BY LoginsAssumption, FS_CardinalityType, FS_EmptySet
<1>. QED
  BY <1>1, LoginsAssumption DEF Tracker!Ceiling

LEMMA ComparingIsFinite ==
  ASSUME NEW k \in Keys
  PROVE  /\ IsFiniteSet(Tracker!Comparing(k))
         /\ Cardinality(Tracker!Comparing(k)) \in Nat
         /\ Cardinality(Tracker!Comparing(k)) <= Cardinality(Logins)
<1>1. Tracker!Comparing(k) \subseteq Logins
  BY DEF Tracker!Comparing
<1>. QED
  BY <1>1, LoginsAssumption, PartOf

\* A key for which nothing is added stays under the bound.
LEMMA TriedKeeps ==
  ASSUME LoginTypeOK, LoginTypeOK', NEW k \in Keys,
         store'[k] <= store[k], Tracker!Comparing(k)' \subseteq Tracker!Comparing(k),
         Tried(k) < Tracker!Ceiling + Cardinality(Logins)
  PROVE  Tried(k)' < Tracker!Ceiling + Cardinality(Logins)
<1>1. Cardinality(Tracker!Comparing(k)') <= Cardinality(Tracker!Comparing(k))
  BY ComparingIsFinite, PartOf
<1>2. Cardinality(Tracker!Comparing(k)') \in Nat /\ Cardinality(Tracker!Comparing(k)) \in Nat
  BY ComparingIsFinite, PartOf
<1>3. store[k] \in Nat /\ store'[k] \in Nat
  BY DEF LoginTypeOK
<1>. QED
  BY <1>1, <1>2, <1>3, SlotsAreFinite DEF Tried

\* The failure of a login that has been comparing takes its place in the sum.
LEMMA RecordKeeps ==
  ASSUME LoginTypeOK, NEW k \in Keys, NEW r \in Tracker!Comparing(k),
         store'[k] = store[k] + 1,
         Tracker!Comparing(k)' \subseteq Tracker!Comparing(k) \ {r},
         Tried(k) < Tracker!Ceiling + Cardinality(Logins)
  PROVE  Tried(k)' < Tracker!Ceiling + Cardinality(Logins)
<1>1. /\ Cardinality(Tracker!Comparing(k)') <= Cardinality(Tracker!Comparing(k)) - 1
      /\ Cardinality(Tracker!Comparing(k)') \in Nat
      /\ Cardinality(Tracker!Comparing(k)) \in Nat
  BY ComparingIsFinite, OneLess
<1>2. store[k] \in Nat
  BY DEF LoginTypeOK
<1>. QED
  BY <1>1, <1>2, SlotsAreFinite DEF Tried

\* While a key is not blocked all the slots may come to compare for it.
LEMMA UnblockedHasRoom ==
  ASSUME NEW k \in Keys, store'[k] \in Nat, store'[k] < Tracker!Ceiling
  PROVE  Tried(k)' < Tracker!Ceiling + Cardinality(Logins)
<1>1. Tracker!Comparing(k)' \subseteq Logins
  BY DEF Tracker!Comparing
<1>2. /\ Cardinality(Tracker!Comparing(k)') \in Nat
      /\ Cardinality(Tracker!Comparing(k)') <= Cardinality(Logins)
  BY <1>1, LoginsAssumption, PartOf
<1>. QED
  BY <1>2, SlotsAreFinite DEF Tried

\* Nothing recorded and nobody comparing.
LEMMA EmptyHasRoom ==
  ASSUME NEW k \in Keys, store[k] = 0, Tracker!Comparing(k) = {}
  PROVE  Tried(k) < Tracker!Ceiling + Cardinality(Logins)
<1>1. Cardinality(Tracker!Comparing(k)) = 0
  BY FS_EmptySet
<1>. QED
  BY <1>1, SlotsAreFinite DEF Tried

LEMMA LoginInit == Tracker!Init => LoginInv
<1>. SUFFICES ASSUME Tracker!Init PROVE LoginInv
  OBVIOUS
<1>1. \A k \in Keys : Tried(k) < Tracker!Ceiling + Cardinality(Logins)
  BY EmptyHasRoom DEF Tracker!Init, Tracker!Idle, Tracker!Comparing
<1>. QED
  BY <1>1, SameCount DEF Tracker!Init, Tracker!Idle, LoginInv, FailuresAreBounded,
              Tracker!FailuresAreBounded, Tried

LEMMA LoginNext == LoginInv /\ [Tracker!Next]_Tracker!vars => LoginInv'
<1>. SUFFICES ASSUME LoginInv, [Tracker!Next]_Tracker!vars PROVE LoginInv'
  OBVIOUS
<1>. DEFINE Keyed == \A r \in Logins : logins[r].pc = "compare" => logins[r].key \in Keys
            Bounded == \A k \in Keys : Tried(k) < Tracker!Ceiling + Cardinality(Logins)
<1>0. LoginTypeOK /\ Keyed /\ Bounded
  BY SameCount
     DEF LoginInv, LoginTypeOK, FailuresAreBounded, Tracker!FailuresAreBounded, Tried
<1>. SUFFICES LoginTypeOK' /\ Keyed' /\ Bounded'
  BY SameCount
     DEF LoginInv, LoginTypeOK, FailuresAreBounded, Tracker!FailuresAreBounded, Tried
<1>. HIDE DEF Keyed, Bounded
<1>1. ASSUME NEW r \in Logins, NEW k \in Keys, Tracker!LoginWithPassword(r, k)
      PROVE  LoginTypeOK' /\ Keyed' /\ Bounded'
  <2>1. /\ store' = store /\ store[k] < Tracker!Ceiling
        /\ logins' = [logins EXCEPT ![r] = [pc |-> "compare", key |-> k]]
    BY <1>0, <1>1, SlotsAreFinite
       DEF Tracker!LoginWithPassword, Tracker!IsBlocked, Tracker!Ceiling, LoginTypeOK
  <2>2. LoginTypeOK' /\ Keyed'
    BY <1>0, <2>1 DEF LoginTypeOK, Keyed
  <2>3. ASSUME NEW j \in Keys PROVE Tried(j)' < Tracker!Ceiling + Cardinality(Logins)
    <3>1. CASE j = k
      BY <1>0, <2>1, <3>1, UnblockedHasRoom DEF LoginTypeOK
    <3>2. CASE j # k
      <4>1. Tracker!Comparing(j)' \subseteq Tracker!Comparing(j)
        BY <1>0, <2>1, <3>2 DEF LoginTypeOK, Tracker!Comparing
      <4>2. Tried(j) < Tracker!Ceiling + Cardinality(Logins) /\ store'[j] <= store[j]
        BY <1>0, <2>1 DEF Bounded, LoginTypeOK
      <4>. QED
        BY <1>0, <2>2, <4>1, <4>2, TriedKeeps
    <3>. QED
      BY <3>1, <3>2
  <2>. QED
    BY <2>2, <2>3 DEF Bounded
<1>2. ASSUME NEW r \in Logins, Tracker!RecordFailure(r)
      PROVE  LoginTypeOK' /\ Keyed' /\ Bounded'
  <2>1. PICK k \in Keys : k = logins[r].key
    BY <1>0, <1>2 DEF Tracker!RecordFailure, Keyed
  <2>2. /\ logins[r].pc = "compare"
        /\ store' = [store EXCEPT ![k] = @ + 1]
        /\ logins' = [logins EXCEPT ![r] = [pc |-> "idle", key |-> NULL]]
    BY <1>2, <2>1 DEF Tracker!RecordFailure, Tracker!Return, Tracker!Idle
  <2>3. LoginTypeOK' /\ Keyed'
    BY <1>0, <2>2 DEF LoginTypeOK, Keyed
  <2>4. ASSUME NEW j \in Keys PROVE Tried(j)' < Tracker!Ceiling + Cardinality(Logins)
    <3>1. Tried(j) < Tracker!Ceiling + Cardinality(Logins)
      BY <1>0 DEF Bounded
    <3>2. Tracker!Comparing(j)' \subseteq Tracker!Comparing(j) \ {r}
      BY <1>0, <2>2 DEF LoginTypeOK, Tracker!Comparing
    <3>3. CASE j = k
      <4>1. r \in Tracker!Comparing(k) /\ store'[k] = store[k] + 1
        BY <1>0, <2>1, <2>2 DEF Tracker!Comparing, LoginTypeOK
      <4>. QED
        BY <1>0, <3>1, <3>2, <3>3, <4>1, RecordKeeps
    <3>4. CASE j # k
      <4>1. store'[j] <= store[j]
        BY <1>0, <2>2, <3>4 DEF LoginTypeOK
      <4>. QED
        BY <1>0, <2>3, <3>1, <3>2, <4>1, TriedKeeps
    <3>. QED
      BY <3>3, <3>4
  <2>. QED
    BY <2>3, <2>4 DEF Bounded
<1>3. ASSUME LoginTypeOK' /\ Keyed',
             \A k \in Keys : /\ store'[k] <= store[k]
                             /\ Tracker!Comparing(k)' \subseteq Tracker!Comparing(k)
      PROVE  LoginTypeOK' /\ Keyed' /\ Bounded'
  <2>1. ASSUME NEW k \in Keys PROVE Tried(k)' < Tracker!Ceiling + Cardinality(Logins)
    BY <1>0, <1>3, TriedKeeps DEF Bounded
  <2>. QED
    BY <1>3, <2>1 DEF Bounded
<1>4. ASSUME NEW r \in Logins, Tracker!Reset(r)
      PROVE  LoginTypeOK' /\ Keyed' /\ Bounded'
  <2>1. /\ store' = [store EXCEPT ![logins[r].key] = 0]
        /\ logins' = [logins EXCEPT ![r].pc = "issue"]
    BY <1>4 DEF Tracker!Reset, Tracker!Step
  <2>2. LoginTypeOK' /\ Keyed'
    BY <1>0, <2>1 DEF LoginTypeOK, Keyed
  <2>3. \A k \in Keys : /\ store'[k] <= store[k]
                        /\ Tracker!Comparing(k)' \subseteq Tracker!Comparing(k)
    BY <1>0, <2>1 DEF LoginTypeOK, Tracker!Comparing
  <2>. QED
    BY <1>3, <2>2, <2>3
<1>5. ASSUME NEW r \in Logins, Tracker!IssueTokens(r) \/ Tracker!Fail(r)
      PROVE  LoginTypeOK' /\ Keyed' /\ Bounded'
  <2>1. /\ store' = store
        /\ logins' = [logins EXCEPT ![r] = [pc |-> "idle", key |-> NULL]]
    BY <1>5 DEF Tracker!IssueTokens, Tracker!Fail, Tracker!Return, Tracker!Idle
  <2>2. LoginTypeOK' /\ Keyed'
    BY <1>0, <2>1 DEF LoginTypeOK, Keyed
  <2>3. \A k \in Keys : /\ store'[k] <= store[k]
                        /\ Tracker!Comparing(k)' \subseteq Tracker!Comparing(k)
    BY <1>0, <2>1 DEF LoginTypeOK, Tracker!Comparing
  <2>. QED
    BY <1>3, <2>2, <2>3
<1>6. ASSUME NEW j \in Keys, Tracker!WindowEnds(j)
      PROVE  LoginTypeOK' /\ Keyed' /\ Bounded'
  <2>1. store' = [store EXCEPT ![j] = 0] /\ logins' = logins
    BY <1>6 DEF Tracker!WindowEnds
  <2>2. LoginTypeOK' /\ Keyed'
    BY <1>0, <2>1 DEF LoginTypeOK, Keyed
  <2>3. \A k \in Keys : /\ store'[k] <= store[k]
                        /\ Tracker!Comparing(k)' \subseteq Tracker!Comparing(k)
    BY <1>0, <2>1 DEF LoginTypeOK, Tracker!Comparing
  <2>. QED
    BY <1>3, <2>2, <2>3
<1>7. CASE Tracker!Restart
  <2>1. /\ store' = [k \in Keys |-> 0]
        /\ logins' = [r \in Logins |-> [pc |-> "idle", key |-> NULL]]
    BY <1>7 DEF Tracker!Restart, Tracker!Idle
  <2>2. LoginTypeOK' /\ Keyed'
    BY <2>1 DEF LoginTypeOK, Keyed
  <2>3. \A k \in Keys : /\ store'[k] <= store[k]
                        /\ Tracker!Comparing(k)' \subseteq Tracker!Comparing(k)
    BY <1>0, <2>1 DEF LoginTypeOK, Tracker!Comparing
  <2>. QED
    BY <1>3, <2>2, <2>3
<1>8. CASE UNCHANGED Tracker!vars
  <2>1. LoginTypeOK' /\ Keyed'
    BY <1>0, <1>8 DEF LoginTypeOK, Keyed, Tracker!vars
  <2>2. \A k \in Keys : /\ store'[k] <= store[k]
                        /\ Tracker!Comparing(k)' \subseteq Tracker!Comparing(k)
    BY <1>0, <1>8 DEF LoginTypeOK, Tracker!Comparing, Tracker!vars
  <2>. QED
    BY <1>3, <2>1, <2>2
<1>. QED
  BY <1>1, <1>2, <1>4, <1>5, <1>6, <1>7, <1>8 DEF Tracker!Next

\* However many logins overlap and however often windows end or the server
\* restarts, the failures of a key exceed the limit by no more than the logins
\* that had passed the check (loginWithPassword, LoginAttemptTracker).
THEOREM FailuresAreBoundedHolds == LoginSpec => []FailuresAreBounded
<1>1. LoginInv => FailuresAreBounded
  BY DEF LoginInv
<1>. QED
  BY <1>1, LoginInit, LoginNext, PTL DEF LoginSpec, Tracker!Spec
=============================================================================
