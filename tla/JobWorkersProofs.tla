--------------------------- MODULE JobWorkersProofs ---------------------------
(***************************************************************************)
(* The queues implement the mailbox, for any number of jobs, any attempts  *)
(* of two or more and any troubles.                                        *)
(*                                                                         *)
(* The copies of a callback are counted with the requests that are still   *)
(* under way: their sum never exceeds the takes, so a copy that arrives    *)
(* late has a lapse that pays for it; and a callback fails only when the   *)
(* takes that did not stall, or the stalls, leave at least two takes.      *)
(***************************************************************************)
EXTENDS JobWorkers, FiniteSetTheorems, TLAPS

-----------------------------------------------------------------------------
(* The invariant *)

Status == {"waiting"} \cup Working \cup Done

LEMMA InHandType ==
  ASSUME TypeOK, NEW j \in Jobs, jobs[j].state # "none" \/ jobs[j].queue # "none"
  PROVE  /\ jobs[j] \in Job /\ jobs[j] # NoJob
         /\ jobs[j].takes \in Nat /\ jobs[j].stalls \in Nat
         /\ jobs[j].queue \in Queues /\ jobs[j].state \in Status
BY DEF TypeOK, NoJob, Job, Status

LEMMA WireIsFinite ==
  ASSUME IInv, NEW j \in Jobs
  PROVE  IsFiniteSet(wire[j]) /\ Cardinality(wire[j]) \in Nat
<1>1. wire[j] \subseteq 1..jobs[j].takes /\ jobs[j].takes \in Nat
  BY DEF IInv, TypeOK, JobInv, Job, NoJob
<1>2. IsFiniteSet(1..jobs[j].takes)
  BY <1>1, FS_Interval
<1>3. IsFiniteSet(wire[j])
  BY <1>1, <1>2, FS_Subset
<1> QED
  BY <1>3, FS_CardinalityType

\* A step of one job: what the others have is not touched.
LEMMA OneJob ==
  ASSUME IInv, NEW j \in Jobs, NEW x \in Job, jobs' = [jobs EXCEPT ![j] = x],
         NEW w \in SUBSET Nat, wire' = [wire EXCEPT ![j] = w],
         NEW n \in Nat, inbox' = [inbox EXCEPT ![j] = n],
         added' = added, jobs[j] # NoJob,
         excused' \subseteq Jobs, troubles' \in 0..MaxTroubles,
         JobInv(j)'
  PROVE  IInv'
<1>1. TypeOK'
  BY DEF IInv, TypeOK
<1>2. ASSUME NEW k \in Jobs, k # j PROVE JobInv(k)'
  <2>1. jobs'[k] = jobs[k] /\ wire'[k] = wire[k] /\ inbox'[k] = inbox[k]
    BY <1>2 DEF IInv, TypeOK
  <2>2. JobInv(k)
    BY DEF IInv
  <2> QED
    BY <2>1, <2>2 DEF JobInv
<1> QED
  BY <1>1, <1>2 DEF IInv

\* The same, of the state of the job only.
LEMMA GotoStep ==
  ASSUME IInv, NEW j \in Jobs, NEW state \in Status, Goto(j, state),
         jobs[j].state # "none",
         state \in Working => jobs[j].state \in Working,
         state # "active",
         state = "answered" => inbox[j] > 0,
         UNCHANGED <<added, wire, inbox>>,
         excused' \subseteq Jobs, troubles' \in 0..MaxTroubles
  PROVE  IInv'
<1> DEFINE x == [jobs[j] EXCEPT !.state = state]
<1>1. jobs[j] \in Job /\ jobs[j] # NoJob
  BY InHandType DEF IInv
<1>2. /\ x \in Job /\ x.queue = jobs[j].queue /\ x.takes = jobs[j].takes
      /\ x.stalls = jobs[j].stalls /\ x.state = state /\ x # NoJob
  BY <1>1 DEF Job, Status, Working, Done, NoJob
<1>3. jobs' = [jobs EXCEPT ![j] = x]
  BY DEF Goto
<1> HIDE DEF x
<1>4. jobs'[j] = x
  BY <1>3 DEF IInv, TypeOK
<1>5. JobInv(j)
  BY DEF IInv
<1>6. JobInv(j)'
  BY <1>1, <1>2, <1>4, <1>5 DEF JobInv, IsMessage
<1>7. /\ wire' = [wire EXCEPT ![j] = wire[j]] /\ inbox' = [inbox EXCEPT ![j] = inbox[j]]
      /\ wire[j] \in SUBSET Nat /\ inbox[j] \in Nat
  BY DEF IInv, TypeOK
<1> QED
  BY <1>1, <1>2, <1>3, <1>6, <1>7, OneJob

LEMMA TroubleIs == TypeOK /\ Trouble => troubles' \in 0..MaxTroubles
BY QueueAssumption DEF TypeOK, Trouble

LEMMA AfterErrorIs == \A j \in Jobs : AfterError(j) \in {"waiting", "failed"}
BY DEF AfterError

LEMMA AddStep ==
  ASSUME IInv, NEW q \in Queues, Add(q) PROVE IInv'
<1> DEFINE x == [NoJob EXCEPT !.queue = q, !.state = "waiting"]
<1>1. added + 1 \in Jobs /\ added' = added + 1 /\ added' \in 0..MaxJobs /\ added \in Nat
  BY QueueAssumption DEF Add, IInv, TypeOK, Jobs
<1>2. /\ x \in Job /\ x.queue = q /\ x.state = "waiting" /\ x.takes = 0 /\ x.stalls = 0
      /\ x # NoJob
  BY DEF Job, NoJob
<1>3. jobs' = [jobs EXCEPT ![added + 1] = x] /\ UNCHANGED <<wire, inbox, excused, troubles>>
  BY DEF Add
<1> HIDE DEF x
<1>4. /\ jobs' \in [Jobs -> Job \cup {NoJob}] /\ jobs'[added + 1] = x
      /\ \A k \in Jobs : k # added + 1 => jobs'[k] = jobs[k]
  BY <1>1, <1>2, <1>3 DEF IInv, TypeOK
<1>5. TypeOK'
  BY <1>1, <1>3, <1>4 DEF IInv, TypeOK
<1>6. ASSUME NEW k \in Jobs PROVE JobInv(k)'
  <2>1. JobInv(k)
    BY DEF IInv
  <2>2. CASE k = added + 1
    <3>1. jobs[k] = NoJob /\ wire[k] = {} /\ inbox[k] = 0
      BY <2>1, <2>2, <1>1 DEF JobInv
    <3>2. jobs'[k] = x /\ wire'[k] = {} /\ inbox'[k] = 0 /\ k <= added'
      BY <3>1, <2>2, <1>1, <1>3, <1>4
    <3> QED
      BY <3>2, <1>1, <1>2, FS_EmptySet DEF JobInv, Working, IsMessage, Jobs
  <2>3. CASE k # added + 1
    <3>1. jobs'[k] = jobs[k] /\ (k > added' <=> k > added)
      BY <2>3, <1>1, <1>4 DEF Jobs
    <3> QED
      BY <2>1, <3>1, <1>3 DEF JobInv
  <2> QED
    BY <2>2, <2>3
<1> QED
  BY <1>5, <1>6 DEF IInv

LEMMA TakeJobStep ==
  ASSUME IInv, NEW j \in Jobs, TakeJob(j) PROVE IInv'
<1> DEFINE x == [jobs[j] EXCEPT !.state = "active", !.takes = jobs[j].takes + 1]
<1>1. jobs[j].state = "waiting" /\ jobs' = [jobs EXCEPT ![j] = x]
      /\ UNCHANGED <<added, wire, inbox, excused, troubles>>
  BY DEF TakeJob
<1>2. jobs[j] \in Job /\ jobs[j] # NoJob /\ jobs[j].takes \in Nat /\ jobs[j].stalls \in Nat
  BY <1>1, InHandType DEF IInv
<1>3. /\ x \in Job /\ x.queue = jobs[j].queue /\ x.takes = jobs[j].takes + 1
      /\ x.stalls = jobs[j].stalls /\ x.state = "active" /\ x # NoJob
  <2>0. jobs[j].takes + 1 \in Nat
    BY <1>2
  <2>1. x \in Job
    BY <1>2, <2>0 DEF Job, Working
  <2>2. /\ x.queue = jobs[j].queue /\ x.takes = jobs[j].takes + 1
        /\ x.stalls = jobs[j].stalls /\ x.state = "active"
    BY <1>2 DEF Job
  <2> HIDE DEF x
  <2> QED
    BY <2>1, <2>2 DEF NoJob
<1> HIDE DEF x
<1>4. jobs'[j] = x
  BY <1>1 DEF IInv, TypeOK
<1>5. JobInv(j) /\ inbox[j] \in Nat /\ wire[j] \in SUBSET Nat
  BY DEF IInv, TypeOK
<1>6. JobInv(j)'
  BY <1>1, <1>2, <1>3, <1>4, <1>5, WireIsFinite DEF JobInv, IsMessage
<1>7. wire' = [wire EXCEPT ![j] = wire[j]] /\ inbox' = [inbox EXCEPT ![j] = inbox[j]]
  BY <1>1 DEF IInv, TypeOK
<1> QED
  BY <1>1, <1>2, <1>3, <1>5, <1>6, <1>7, OneJob DEF IInv, TypeOK

LEMMA FetchStep ==
  ASSUME IInv, NEW j \in Jobs, Fetch(j) PROVE IInv'
<1> DEFINE x == [jobs[j] EXCEPT !.state = "sent"]
           w == wire[j] \cup {jobs[j].takes}
<1>1. /\ IsMessage(jobs[j]) /\ jobs[j].state = "active"
      /\ jobs' = [jobs EXCEPT ![j] = x] /\ wire' = [wire EXCEPT ![j] = w]
      /\ UNCHANGED <<added, inbox, excused, troubles>>
  BY DEF Fetch, IsIn, Goto, IsMessage
<1>2. jobs[j] \in Job /\ jobs[j] # NoJob /\ jobs[j].takes \in Nat /\ jobs[j].stalls \in Nat
  BY <1>1, InHandType DEF IInv
<1>3. /\ x \in Job /\ x.queue = jobs[j].queue /\ x.takes = jobs[j].takes
      /\ x.stalls = jobs[j].stalls /\ x.state = "sent" /\ x # NoJob
  BY <1>2 DEF Job, Working, NoJob
<1> HIDE DEF x
<1>4. jobs'[j] = x /\ wire'[j] = w
  BY <1>1 DEF IInv, TypeOK
<1>5. JobInv(j) /\ inbox[j] \in Nat
  BY DEF IInv, TypeOK
<1>6. /\ w \subseteq 1..jobs[j].takes /\ w \in SUBSET Nat
      /\ Cardinality(w) = Cardinality(wire[j]) + 1
  <2>1. jobs[j].takes \notin wire[j] /\ wire[j] \subseteq 1..jobs[j].takes
    BY <1>1, <1>5 DEF JobInv
  <2>2. jobs[j].takes >= 1
    BY <1>1, <1>2, <1>5 DEF JobInv, Working
  <2>3. Cardinality(w) = Cardinality(wire[j]) + 1
    BY <2>1, WireIsFinite, FS_AddElement
  <2> QED
    BY <2>1, <2>2, <2>3, <1>2
<1> HIDE DEF w
<1>7. JobInv(j)'
  <2>1. /\ inbox'[j] = inbox[j]
        /\ inbox[j] + Cardinality(w) <= x.takes
    BY <1>1, <1>2, <1>3, <1>5, <1>6, WireIsFinite DEF JobInv
  <2>2. jobs[j].stalls < jobs[j].takes /\ ~(j > added)
    BY <1>1, <1>2, <1>5 DEF JobInv, Working
  <2>3. /\ x.stalls <= x.takes /\ x.stalls < x.takes
        /\ x # NoJob /\ ~(j > added')
        /\ w \subseteq 1..x.takes /\ IsMessage(x)
        /\ x.state \notin {"active", "answered"}
    BY <2>2, <1>1, <1>2, <1>3, <1>6 DEF IsMessage
  <2> QED
    BY <2>1, <2>3, <1>4 DEF JobInv
<1>8. inbox' = [inbox EXCEPT ![j] = inbox[j]]
  BY <1>1 DEF IInv, TypeOK
<1> QED
  BY <1>1, <1>2, <1>3, <1>5, <1>6, <1>7, <1>8, OneJob DEF IInv, TypeOK

LEMMA PartnerAcceptsStep ==
  ASSUME IInv, NEW j \in Jobs, NEW take \in wire[j], PartnerAccepts(j, take) PROVE IInv'
<1> DEFINE x == IF Awaits(j, take) THEN [jobs[j] EXCEPT !.state = "answered"] ELSE jobs[j]
           w == wire[j] \ {take}
<1>1. JobInv(j) /\ inbox[j] \in Nat /\ wire[j] \in SUBSET Nat
  BY DEF IInv, TypeOK
<1>2. IsMessage(jobs[j]) /\ jobs[j] \in Job /\ jobs[j] # NoJob /\ jobs[j].takes \in Nat
  <2>1. IsMessage(jobs[j])
    BY <1>1 DEF JobInv
  <2> QED
    BY <2>1, InHandType DEF IInv, IsMessage, CallbackQueues
<1>3. /\ jobs' = [jobs EXCEPT ![j] = x] /\ wire' = [wire EXCEPT ![j] = w]
      /\ inbox' = [inbox EXCEPT ![j] = inbox[j] + 1]
      /\ UNCHANGED <<added, excused, troubles>>
  BY DEF PartnerAccepts, Goto, IInv, TypeOK
<1>4. /\ x \in Job /\ x.queue = jobs[j].queue /\ x.takes = jobs[j].takes
      /\ x.stalls = jobs[j].stalls /\ x # NoJob
      /\ x.state = jobs[j].state \/ (x.state = "answered" /\ jobs[j].state = "sent")
  BY <1>2 DEF Job, Working, NoJob, Awaits
<1> HIDE DEF x
<1>5. Cardinality(w) = Cardinality(wire[j]) - 1 /\ w \subseteq wire[j]
  BY WireIsFinite, FS_RemoveElement
<1>6. jobs'[j] = x /\ wire'[j] = w /\ inbox'[j] = inbox[j] + 1
  BY <1>3 DEF IInv, TypeOK
<1> HIDE DEF w
<1>7. JobInv(j)'
  BY <1>1, <1>2, <1>3, <1>4, <1>5, <1>6, WireIsFinite DEF JobInv, IsMessage, Working
<1>8. inbox[j] + 1 \in Nat /\ w \in SUBSET Nat
  BY <1>1, <1>5
<1> QED
  BY <1>2, <1>3, <1>4, <1>7, <1>8, OneJob DEF IInv, TypeOK

LEMMA PartnerRefusesStep ==
  ASSUME IInv, NEW j \in Jobs, NEW take \in wire[j], PartnerRefuses(j, take) PROVE IInv'
<1> DEFINE x == IF Awaits(j, take) THEN [jobs[j] EXCEPT !.state = AfterError(j)] ELSE jobs[j]
           w == wire[j] \ {take}
<1>1. JobInv(j) /\ inbox[j] \in Nat /\ wire[j] \in SUBSET Nat
  BY DEF IInv, TypeOK
<1>2. IsMessage(jobs[j]) /\ jobs[j] \in Job /\ jobs[j] # NoJob /\ jobs[j].takes \in Nat
  <2>1. IsMessage(jobs[j])
    BY <1>1 DEF JobInv
  <2> QED
    BY <2>1, InHandType DEF IInv, IsMessage, CallbackQueues
<1>3. /\ jobs' = [jobs EXCEPT ![j] = x] /\ wire' = [wire EXCEPT ![j] = w]
      /\ UNCHANGED <<added, inbox, excused>> /\ troubles' \in 0..MaxTroubles
  BY TroubleIs DEF PartnerRefuses, Goto, IInv, TypeOK
<1>4. /\ x \in Job /\ x.queue = jobs[j].queue /\ x.takes = jobs[j].takes
      /\ x.stalls = jobs[j].stalls /\ x # NoJob
      /\ x.state = jobs[j].state \/ x.state \in {"waiting", "failed"}
  BY <1>2, AfterErrorIs DEF Job, Done, NoJob
<1> HIDE DEF x
<1>5. Cardinality(w) = Cardinality(wire[j]) - 1 /\ w \subseteq wire[j]
  BY WireIsFinite, FS_RemoveElement
<1>6. jobs'[j] = x /\ wire'[j] = w /\ inbox'[j] = inbox[j]
  BY <1>3 DEF IInv, TypeOK
<1> HIDE DEF w
<1>7. JobInv(j)'
  BY <1>1, <1>2, <1>3, <1>4, <1>5, <1>6, WireIsFinite DEF JobInv, IsMessage, Working
<1>8. inbox' = [inbox EXCEPT ![j] = inbox[j]]
  BY <1>3 DEF IInv, TypeOK
<1> QED
  BY <1>1, <1>2, <1>3, <1>4, <1>5, <1>7, <1>8, OneJob DEF IInv, TypeOK

LEMMA DeliveredStep ==
  ASSUME IInv, NEW j \in Jobs, Delivered(j) PROVE IInv'
BY GotoStep DEF Delivered, IsIn, Status, Working, Done, IInv, TypeOK

LEMMA FetchTimesOutStep ==
  ASSUME IInv, NEW j \in Jobs, FetchTimesOut(j) PROVE IInv'
BY GotoStep, AfterErrorIs, TroubleIs DEF FetchTimesOut, Status, Working, Done, IInv, TypeOK

LEMMA LoadFailsStep ==
  ASSUME IInv, NEW j \in Jobs, LoadFails(j) PROVE IInv'
BY GotoStep, AfterErrorIs, TroubleIs DEF LoadFails, IsIn, Status, Working, Done, IInv, TypeOK

LEMMA LoadCourierStep ==
  ASSUME IInv, NEW j \in Jobs, NEW reachable \in BOOLEAN, LoadCourier(j, reachable) PROVE IInv'
<1>1. PICK state \in {"sending", "completed"} : Goto(j, state)
  BY DEF LoadCourier
<1>2. /\ jobs[j].state = "active" /\ excused' \subseteq Jobs /\ troubles' \in 0..MaxTroubles
      /\ UNCHANGED <<added, wire, inbox>>
  BY DEF LoadCourier, IsIn, IInv, TypeOK
<1> QED
  BY <1>1, <1>2, GotoStep DEF Status, Working, Done

LEMMA PushRefusedStep ==
  ASSUME IInv, NEW j \in Jobs, PushRefused(j) PROVE IInv'
<1>1. excused' \subseteq Jobs /\ troubles' \in 0..MaxTroubles
  BY TroubleIs DEF PushRefused, IInv, TypeOK
<1> QED
  BY <1>1, GotoStep DEF PushRefused, IsIn, Status, Working, Done

LEMMA PushStep ==
  ASSUME IInv, NEW j \in Jobs, Push(j) PROVE IInv'
<1> DEFINE x == [jobs[j] EXCEPT !.state = "completed"]
<1>1. /\ jobs[j].queue = "cancel-notify" /\ jobs[j].state = "sending"
      /\ jobs' = [jobs EXCEPT ![j] = x] /\ inbox' = [inbox EXCEPT ![j] = inbox[j] + 1]
      /\ UNCHANGED <<added, wire, excused, troubles>>
  BY DEF Push, IsIn, Goto
<1>2. jobs[j] \in Job /\ jobs[j] # NoJob
  BY <1>1, InHandType DEF IInv
<1>3. /\ x \in Job /\ x.queue = jobs[j].queue /\ x.takes = jobs[j].takes
      /\ x.stalls = jobs[j].stalls /\ x.state = "completed" /\ x # NoJob
  BY <1>2 DEF Job, Working, Done, NoJob
<1> HIDE DEF x
<1>4. JobInv(j) /\ inbox[j] \in Nat /\ wire[j] \in SUBSET Nat
  BY DEF IInv, TypeOK
<1>5. jobs'[j] = x /\ wire' = [wire EXCEPT ![j] = wire[j]]
  BY <1>1 DEF IInv, TypeOK
<1>6. JobInv(j)'
  BY <1>1, <1>2, <1>3, <1>4, <1>5 DEF JobInv, IsMessage, CallbackQueues, Working
<1>7. inbox[j] + 1 \in Nat
  BY <1>4
<1> QED
  BY <1>1, <1>2, <1>3, <1>4, <1>5, <1>6, <1>7, OneJob DEF IInv, TypeOK

LEMMA StallStep ==
  ASSUME IInv, NEW j \in Jobs, Stall(j) PROVE IInv'
<1> DEFINE x == [jobs[j] EXCEPT !.state = IF jobs[j].stalls >= MaxStalls THEN "failed" ELSE "waiting",
                                !.stalls = jobs[j].stalls + 1]
<1>1. /\ jobs[j].state \in Working /\ jobs' = [jobs EXCEPT ![j] = x]
      /\ UNCHANGED <<added, wire, inbox, excused>> /\ troubles' \in 0..MaxTroubles
  BY TroubleIs DEF Stall, IInv
<1>2. jobs[j] \in Job /\ jobs[j] # NoJob /\ jobs[j].takes \in Nat /\ jobs[j].stalls \in Nat
  BY <1>1, InHandType DEF IInv, Working
<1>3. /\ x \in Job /\ x.queue = jobs[j].queue /\ x.takes = jobs[j].takes
      /\ x.stalls = jobs[j].stalls + 1 /\ x.state \in {"waiting", "failed"} /\ x # NoJob
  <2>0. jobs[j].stalls + 1 \in Nat /\ x.state \in {"waiting", "failed"}
    BY <1>2 DEF Job
  <2>1. x \in Job
    BY <1>2, <2>0 DEF Job, Done
  <2>2. /\ x.queue = jobs[j].queue /\ x.takes = jobs[j].takes
        /\ x.stalls = jobs[j].stalls + 1 /\ x.state \in {"waiting", "failed"}
    BY <1>2 DEF Job
  <2> HIDE DEF x
  <2> QED
    BY <2>1, <2>2 DEF NoJob
<1> HIDE DEF x
<1>4. JobInv(j) /\ inbox[j] \in Nat /\ wire[j] \in SUBSET Nat
  BY DEF IInv, TypeOK
<1>5. jobs'[j] = x
  BY <1>1 DEF IInv, TypeOK
<1>6. JobInv(j)'
  BY <1>1, <1>2, <1>3, <1>4, <1>5 DEF JobInv, IsMessage, Working
<1>7. wire' = [wire EXCEPT ![j] = wire[j]] /\ inbox' = [inbox EXCEPT ![j] = inbox[j]]
  BY <1>1 DEF IInv, TypeOK
<1> QED
  BY <1>1, <1>2, <1>3, <1>4, <1>6, <1>7, OneJob DEF IInv, TypeOK

LEMMA InitIsSound == Init => IInv
BY QueueAssumption, FS_EmptySet DEF Init, IInv, TypeOK, JobInv, NoJob, IsMessage, CallbackQueues, Working, Jobs

LEMMA NextIsSound == IInv /\ [Next]_vars => IInv'
<1> SUFFICES ASSUME IInv, [Next]_vars PROVE IInv'
  OBVIOUS
<1>1. CASE \E q \in Queues : Add(q)
  BY <1>1, AddStep
<1>2. CASE \E j \in Jobs : Work(j)
  BY <1>2, TakeJobStep, FetchStep, DeliveredStep, LoadCourierStep, PushStep DEF Work
<1>3. CASE \E j \in Jobs : Answer(j)
  BY <1>3, PartnerAcceptsStep DEF Answer
<1>4. CASE \E j \in Jobs : Troubled(j)
  BY <1>4, PartnerRefusesStep, FetchTimesOutStep, LoadCourierStep, LoadFailsStep, PushRefusedStep,
     StallStep DEF Troubled
<1>5. CASE UNCHANGED vars
  BY <1>5 DEF vars, IInv, TypeOK, JobInv
<1> QED
  BY <1>1, <1>2, <1>3, <1>4, <1>5 DEF Next

\* The inductive invariant of the queues.
THEOREM Invariance == Spec => []IInv
BY InitIsSound, NextIsSound, PTL DEF Spec

-----------------------------------------------------------------------------
(* The refinement *)

CopiesOf(job, n) == IF IsMessage(job) THEN n ELSE 0

Boxes == [j \in Jobs |-> BoxOf(jobs[j])]
Copies == [j \in Jobs |-> CopiesOf(jobs[j], inbox[j])]
Lapses == [j \in Jobs |-> LapsesOf(jobs[j])]

LEMMA BoxIs ==
  /\ Boxes = [j \in Jobs |-> BoxOf(jobs[j])]
  /\ Copies = [j \in Jobs |-> IF IsMessage(jobs[j]) THEN inbox[j] ELSE 0]
  /\ Lapses = [j \in Jobs |-> LapsesOf(jobs[j])]
BY DEF Boxes, Copies, Lapses, CopiesOf

LEMMA BoxIsNext ==
  /\ Boxes' = [j \in Jobs |-> BoxOf(jobs'[j])]
  /\ Copies' = [j \in Jobs |-> IF IsMessage(jobs'[j]) THEN inbox'[j] ELSE 0]
  /\ Lapses' = [j \in Jobs |-> LapsesOf(jobs'[j])]
BY DEF Boxes, Copies, Lapses, CopiesOf, BoxOf, LapsesOf, InHand, IsMessage

\* What a step of one job does to the mailbox.
LEMMA OneMessage ==
  ASSUME NEW j \in Jobs,
         \A k \in Jobs \ {j} : jobs'[k] = jobs[k] /\ inbox'[k] = inbox[k]
  PROVE  /\ Boxes' = [Boxes EXCEPT ![j] = BoxOf(jobs'[j])]
         /\ Copies' = [Copies EXCEPT ![j] = CopiesOf(jobs'[j], inbox'[j])]
         /\ Lapses' = [Lapses EXCEPT ![j] = LapsesOf(jobs'[j])]
<1>1. /\ Boxes' = [k \in Jobs |-> IF k = j THEN BoxOf(jobs'[j]) ELSE Boxes[k]]
      /\ Lapses' = [k \in Jobs |-> IF k = j THEN LapsesOf(jobs'[j]) ELSE Lapses[k]]
  BY BoxIsNext DEF Boxes, Lapses
<1>2. Copies' = [k \in Jobs |-> IF k = j THEN CopiesOf(jobs'[j], inbox'[j]) ELSE Copies[k]]
  BY BoxIsNext DEF Copies, CopiesOf
<1> QED
  BY <1>1, <1>2 DEF Boxes, Copies, Lapses

At(j) == /\ Boxes[j] = BoxOf(jobs[j])
         /\ Copies[j] = CopiesOf(jobs[j], inbox[j])
         /\ Lapses[j] = LapsesOf(jobs[j])

LEMMA AtIs == \A j \in Jobs : At(j)
BY DEF At, Boxes, Copies, Lapses

\* Nothing that a partner could tell has changed.
LEMMA Unnoticed ==
  ASSUME NEW j \in Jobs,
         \A k \in Jobs \ {j} : jobs'[k] = jobs[k] /\ inbox'[k] = inbox[k],
         BoxOf(jobs'[j]) = BoxOf(jobs[j]),
         CopiesOf(jobs'[j], inbox'[j]) = CopiesOf(jobs[j], inbox[j]),
         LapsesOf(jobs'[j]) = LapsesOf(jobs[j])
  PROVE  UNCHANGED <<Boxes, Copies, Lapses>>
<1>1. /\ Boxes' = [Boxes EXCEPT ![j] = Boxes[j]]
      /\ Copies' = [Copies EXCEPT ![j] = Copies[j]]
      /\ Lapses' = [Lapses EXCEPT ![j] = Lapses[j]]
  BY OneMessage, AtIs DEF At
<1> QED
  BY <1>1 DEF Boxes, Copies, Lapses

LEMMA BoxVars ==
  UNCHANGED <<Boxes, Copies, Lapses>> => UNCHANGED Box!vars
BY BoxIs, BoxIsNext DEF Box!vars

\* A take that ends without an answer.
LEMMA LapseOf ==
  ASSUME NEW j \in Jobs, NEW state \in {"waiting", "failed"}, NEW x \in Job, jobs[j] \in Job,
         \A k \in Jobs \ {j} : jobs'[k] = jobs[k] /\ inbox'[k] = inbox[k],
         jobs'[j] = x, inbox'[j] = inbox[j],
         jobs[j].state \in Working,
         x.queue = jobs[j].queue, x.takes = jobs[j].takes, x.state = state,
         state = "failed" => jobs[j].takes >= 2
  PROVE  Box!Lapse(j) \/ UNCHANGED Box!vars
<1>1. jobs[j].takes \in Nat /\ jobs[j].takes - 1 + 1 = jobs[j].takes
  BY DEF Job
<1>2. CASE ~IsMessage(jobs[j])
  <2>1. UNCHANGED <<Boxes, Copies, Lapses>>
    BY <1>2, Unnoticed DEF BoxOf, CopiesOf, LapsesOf, IsMessage
  <2> QED
    BY <2>1, BoxVars
<1>3. CASE IsMessage(jobs[j])
  <2>1. /\ BoxOf(jobs[j]) = "kept" /\ LapsesOf(jobs[j]) = jobs[j].takes - 1
    BY <1>3 DEF BoxOf, LapsesOf, InHand, Working
  <2>2. /\ BoxOf(x) = IF state = "failed" THEN "abandoned" ELSE "kept"
        /\ LapsesOf(x) = jobs[j].takes
        /\ CopiesOf(x, inbox[j]) = CopiesOf(jobs[j], inbox[j])
    BY <1>3 DEF BoxOf, LapsesOf, CopiesOf, InHand, IsMessage, Working
  <2>3. /\ Boxes' = [Boxes EXCEPT ![j] = IF state = "failed" THEN "abandoned" ELSE "kept"]
        /\ Lapses' = [Lapses EXCEPT ![j] = jobs[j].takes]
        /\ Copies' = [Copies EXCEPT ![j] = Copies[j]]
    BY <2>2, OneMessage, AtIs DEF At
  <2>4. /\ Boxes[j] = "kept" /\ Lapses[j] + 1 = jobs[j].takes /\ Copies' = Copies
        /\ Lapses'[j] = jobs[j].takes
        /\ Lapses' = [Lapses EXCEPT ![j] = Lapses[j] + 1]
    BY <1>1, <2>1, <2>3, AtIs DEF At, Copies, Lapses
  <2>5. Boxes' = Boxes \/ (jobs[j].takes >= 2 /\ Boxes' = [Boxes EXCEPT ![j] = "abandoned"])
    BY <2>3, <2>4 DEF Boxes
  <2>6. /\ Boxes[j] = "kept"
        /\ Lapses' = [Lapses EXCEPT ![j] = @ + 1]
        /\ \/ Boxes' = Boxes
           \/ Lapses'[j] >= 2 /\ Boxes' = [Boxes EXCEPT ![j] = "abandoned"]
        /\ Copies' = Copies
    BY <2>4, <2>5
  <2>7. Box!Lapse(j)
    BY <2>6, BoxIs, BoxIsNext DEF Box!Lapse
  <2> QED
    BY <2>7
<1> QED
  BY <1>2, <1>3

\* The new record of a job whose state alone changes.
LEMMA GotoIs ==
  ASSUME IInv, NEW j \in Jobs, NEW state \in Status, jobs[j].state # "none", Goto(j, state)
  PROVE  /\ jobs[j] \in Job /\ jobs'[j] \in Job
         /\ jobs'[j].queue = jobs[j].queue /\ jobs'[j].takes = jobs[j].takes
         /\ jobs'[j].stalls = jobs[j].stalls /\ jobs'[j].state = state
         /\ \A k \in Jobs \ {j} : jobs'[k] = jobs[k]
<1> DEFINE x == [jobs[j] EXCEPT !.state = state]
<1>1. jobs[j] \in Job
  BY InHandType DEF IInv
<1>2. /\ x \in Job /\ x.queue = jobs[j].queue /\ x.takes = jobs[j].takes
      /\ x.stalls = jobs[j].stalls /\ x.state = state
  BY <1>1 DEF Job, Status
<1>3. jobs' = [jobs EXCEPT ![j] = x]
  BY DEF Goto
<1> HIDE DEF x
<1> QED
  BY <1>1, <1>2, <1>3 DEF IInv, TypeOK

\* The attempts of every queue are two at least.
LEMMA FailedIsSecond ==
  ASSUME IInv, NEW j \in Jobs, jobs[j] \in Job, AfterError(j) = "failed"
  PROVE  jobs[j].takes >= 2
<1>1. jobs[j].takes - jobs[j].stalls >= Attempts[jobs[j].queue]
  BY DEF AfterError
<1>2. Attempts[jobs[j].queue] \in Nat /\ Attempts[jobs[j].queue] >= 2
  BY QueueAssumption DEF Job
<1> QED
  BY <1>1, <1>2 DEF Job

LEMMA ErrorLapses ==
  ASSUME IInv, NEW j \in Jobs, jobs[j].state \in Working, Goto(j, AfterError(j)), inbox' = inbox
  PROVE  Box!Lapse(j) \/ UNCHANGED Box!vars
<1>1. AfterError(j) \in {"waiting", "failed"} /\ AfterError(j) \in Status
  BY AfterErrorIs DEF Status, Done
<1>2. /\ jobs[j] \in Job /\ jobs'[j] \in Job
      /\ jobs'[j].queue = jobs[j].queue /\ jobs'[j].takes = jobs[j].takes
      /\ jobs'[j].state = AfterError(j)
      /\ \A k \in Jobs \ {j} : jobs'[k] = jobs[k]
  BY <1>1, GotoIs DEF Working
<1>3. AfterError(j) = "failed" => jobs[j].takes >= 2
  BY <1>2, FailedIsSecond
<1> QED
  BY <1>1, <1>2, <1>3, LapseOf

LEMMA AddPuts ==
  ASSUME IInv, NEW q \in Queues, Add(q)
  PROVE  Box!Next \/ UNCHANGED Box!vars
<1> DEFINE j == added + 1
           x == [NoJob EXCEPT !.queue = q, !.state = "waiting"]
<1>1. j \in Jobs /\ j > added
  BY QueueAssumption DEF Add, IInv, TypeOK, Jobs
<1>2. x.queue = q /\ x.state = "waiting" /\ x.takes = 0
  BY DEF NoJob
<1>3. jobs' = [jobs EXCEPT ![j] = x] /\ inbox' = inbox
  BY DEF Add
<1> HIDE DEF x, j
<1>4. /\ jobs'[j] = x /\ inbox'[j] = inbox[j]
      /\ \A k \in Jobs \ {j} : jobs'[k] = jobs[k] /\ inbox'[k] = inbox[k]
  BY <1>1, <1>3 DEF IInv, TypeOK
<1>5. jobs[j] = NoJob /\ inbox[j] = 0
  BY <1>1 DEF IInv, JobInv
<1>6. BoxOf(jobs[j]) = "none" /\ CopiesOf(jobs[j], inbox[j]) = 0 /\ LapsesOf(jobs[j]) = 0
  BY <1>5 DEF BoxOf, CopiesOf, LapsesOf, IsMessage, NoJob, CallbackQueues
<1>7. /\ BoxOf(x) = IF q \in CallbackQueues THEN "kept" ELSE "none"
      /\ CopiesOf(x, inbox[j]) = 0 /\ LapsesOf(x) = 0
  BY <1>2, <1>5 DEF BoxOf, CopiesOf, LapsesOf, IsMessage, InHand, Working
<1>8. CASE q \notin CallbackQueues
  <2>1. UNCHANGED <<Boxes, Copies, Lapses>>
    BY <1>1, <1>4, <1>6, <1>7, <1>8, Unnoticed
  <2> QED
    BY <2>1, BoxVars
<1>9. CASE q \in CallbackQueues
  <2>1. /\ Boxes' = [Boxes EXCEPT ![j] = "kept"]
        /\ Copies' = [Copies EXCEPT ![j] = Copies[j]]
        /\ Lapses' = [Lapses EXCEPT ![j] = Lapses[j]]
        /\ Boxes[j] = "none"
    BY <1>1, <1>4, <1>6, <1>7, <1>9, OneMessage, AtIs DEF At
  <2>2. Copies' = Copies /\ Lapses' = Lapses
    BY <2>1 DEF Copies, Lapses
  <2>3. Box!Put(j)
    BY <2>1, <2>2, BoxIs, BoxIsNext DEF Box!Put
  <2> QED
    BY <2>3, <1>1 DEF Box!Next
<1> QED
  BY <1>8, <1>9

LEMMA AcceptHands ==
  ASSUME IInv, NEW j \in Jobs, NEW take \in wire[j], PartnerAccepts(j, take)
  PROVE  Box!Hand(j)
<1>1. JobInv(j) /\ inbox[j] \in Nat
  BY DEF IInv, TypeOK
<1>2. IsMessage(jobs[j]) /\ jobs[j] \in Job /\ jobs[j].takes \in Nat
  <2>1. IsMessage(jobs[j])
    BY <1>1 DEF JobInv
  <2> QED
    BY <2>1, InHandType DEF IInv, IsMessage, CallbackQueues
<1>3. Cardinality(wire[j]) \in Nat /\ Cardinality(wire[j]) # 0
  BY WireIsFinite, FS_EmptySet
<1>4. inbox[j] <= jobs[j].takes - 1
  BY <1>1, <1>2, <1>3 DEF JobInv
<1>5. inbox' = [inbox EXCEPT ![j] = inbox[j] + 1]
  BY DEF PartnerAccepts
<1>6. /\ \A k \in Jobs \ {j} : jobs'[k] = jobs[k]
      /\ jobs'[j].queue = jobs[j].queue /\ jobs'[j].takes = jobs[j].takes
      /\ jobs'[j].state = jobs[j].state \/ (jobs'[j].state = "answered" /\ jobs[j].state = "sent")
  <2>1. CASE Awaits(j, take)
    BY <2>1, GotoIs DEF PartnerAccepts, Awaits, Status, Working
  <2>2. CASE ~Awaits(j, take)
    BY <2>2 DEF PartnerAccepts
  <2> QED
    BY <2>1, <2>2
<1>7. /\ BoxOf(jobs'[j]) = BoxOf(jobs[j]) /\ LapsesOf(jobs'[j]) = LapsesOf(jobs[j])
      /\ CopiesOf(jobs'[j], inbox'[j]) = inbox'[j] /\ CopiesOf(jobs[j], inbox[j]) = inbox[j]
      /\ BoxOf(jobs[j]) # "none"
  BY <1>2, <1>6 DEF BoxOf, LapsesOf, CopiesOf, InHand, Working, IsMessage
<1>8. LapsesOf(jobs[j]) \in Int /\ inbox[j] <= LapsesOf(jobs[j])
  BY <1>1, <1>2, <1>4 DEF LapsesOf
<1>9. inbox'[j] = inbox[j] + 1 /\ \A k \in Jobs \ {j} : inbox'[k] = inbox[k]
  BY <1>5 DEF IInv, TypeOK
<1>10. /\ Boxes' = [Boxes EXCEPT ![j] = Boxes[j]]
       /\ Copies' = [Copies EXCEPT ![j] = Copies[j] + 1]
       /\ Lapses' = [Lapses EXCEPT ![j] = Lapses[j]]
       /\ Boxes[j] # "none" /\ Copies[j] <= Lapses[j]
  BY <1>6, <1>7, <1>8, <1>9, OneMessage, AtIs DEF At
<1>11. Boxes' = Boxes /\ Lapses' = Lapses /\ Copies' = [Copies EXCEPT ![j] = @ + 1]
  BY <1>10 DEF Boxes, Lapses
<1> QED
  BY <1>10, <1>11, BoxIs, BoxIsNext DEF Box!Hand

LEMMA DeliveredSettles ==
  ASSUME IInv, NEW j \in Jobs, Delivered(j)
  PROVE  Box!Settle(j)
<1>1. JobInv(j) /\ inbox[j] \in Nat
  BY DEF IInv, TypeOK
<1>2. IsMessage(jobs[j]) /\ jobs[j].state = "answered" /\ inbox' = inbox
  BY DEF Delivered, IsIn, IsMessage
<1>3. /\ jobs'[j].queue = jobs[j].queue /\ jobs'[j].takes = jobs[j].takes
      /\ jobs'[j].state = "completed"
      /\ \A k \in Jobs \ {j} : jobs'[k] = jobs[k]
  BY <1>2, GotoIs DEF Delivered, Status, Done
<1>4. /\ BoxOf(jobs[j]) = "kept" /\ BoxOf(jobs'[j]) = "settled"
      /\ LapsesOf(jobs'[j]) = LapsesOf(jobs[j])
      /\ CopiesOf(jobs'[j], inbox'[j]) = inbox[j] /\ CopiesOf(jobs[j], inbox[j]) = inbox[j]
  BY <1>2, <1>3 DEF BoxOf, LapsesOf, CopiesOf, InHand, Working, IsMessage
<1>5. inbox[j] > 0
  BY <1>1, <1>2 DEF JobInv
<1>6. /\ Boxes' = [Boxes EXCEPT ![j] = "settled"]
      /\ Copies' = [Copies EXCEPT ![j] = Copies[j]]
      /\ Lapses' = [Lapses EXCEPT ![j] = Lapses[j]]
      /\ Boxes[j] = "kept" /\ Copies[j] > 0
  BY <1>2, <1>3, <1>4, <1>5, OneMessage, AtIs DEF At
<1>7. Copies' = Copies /\ Lapses' = Lapses
  BY <1>6 DEF Copies, Lapses
<1> QED
  BY <1>6, <1>7, BoxIs, BoxIsNext DEF Box!Settle

LEMMA StallLapses ==
  ASSUME IInv, NEW j \in Jobs, Stall(j)
  PROVE  Box!Lapse(j) \/ UNCHANGED Box!vars
<1> DEFINE state == IF jobs[j].stalls >= MaxStalls THEN "failed" ELSE "waiting"
           x == [jobs[j] EXCEPT !.state = state, !.stalls = jobs[j].stalls + 1]
<1>1. jobs[j].state \in Working /\ jobs' = [jobs EXCEPT ![j] = x] /\ inbox' = inbox
  BY DEF Stall
<1>2. jobs[j] \in Job /\ jobs[j].takes \in Nat /\ jobs[j].stalls \in Nat
  BY <1>1, InHandType DEF IInv, Working
<1>3. state \in {"waiting", "failed"} /\ jobs[j].stalls + 1 \in Nat
  BY <1>2
<1>4. x \in Job /\ x.queue = jobs[j].queue /\ x.takes = jobs[j].takes /\ x.state = state
  BY <1>2, <1>3 DEF Job, Done
<1>5. state = "failed" => jobs[j].takes >= 2
  BY <1>1, <1>2, QueueAssumption DEF IInv, JobInv
<1> HIDE DEF x, state
<1>6. jobs'[j] = x /\ inbox'[j] = inbox[j]
      /\ \A k \in Jobs \ {j} : jobs'[k] = jobs[k] /\ inbox'[k] = inbox[k]
  BY <1>1 DEF IInv, TypeOK
<1> QED
  BY <1>1, <1>2, <1>3, <1>4, <1>5, <1>6, LapseOf

\* A step that goes on with a job, or that is of a job the partner has no part in.
LEMMA GoesOn ==
  ASSUME IInv, NEW j \in Jobs, NEW state \in Status, Goto(j, state), jobs[j].state # "none",
         \A k \in Jobs \ {j} : inbox'[k] = inbox[k],
         \/ ~IsMessage(jobs[j])
         \/ state \in Working /\ jobs[j].state \in Working /\ inbox'[j] = inbox[j]
  PROVE  UNCHANGED Box!vars
<1>1. /\ jobs'[j].queue = jobs[j].queue /\ jobs'[j].takes = jobs[j].takes
      /\ jobs'[j].state = state
      /\ \A k \in Jobs \ {j} : jobs'[k] = jobs[k]
  BY GotoIs
<1>2. /\ BoxOf(jobs'[j]) = BoxOf(jobs[j]) /\ LapsesOf(jobs'[j]) = LapsesOf(jobs[j])
      /\ CopiesOf(jobs'[j], inbox'[j]) = CopiesOf(jobs[j], inbox[j])
  BY <1>1 DEF BoxOf, LapsesOf, CopiesOf, InHand, IsMessage, Working
<1>3. UNCHANGED <<Boxes, Copies, Lapses>>
  BY <1>1, <1>2, Unnoticed
<1> QED
  BY <1>3, BoxVars

LEMMA TakeGoesOn ==
  ASSUME IInv, NEW j \in Jobs, TakeJob(j)
  PROVE  UNCHANGED Box!vars
<1> DEFINE x == [jobs[j] EXCEPT !.state = "active", !.takes = jobs[j].takes + 1]
<1>1. jobs[j].state = "waiting" /\ jobs' = [jobs EXCEPT ![j] = x] /\ inbox' = inbox
  BY DEF TakeJob
<1>2. jobs[j] \in Job /\ jobs[j].takes \in Nat
  BY <1>1, InHandType DEF IInv
<1>3. x.queue = jobs[j].queue /\ x.takes = jobs[j].takes + 1 /\ x.state = "active"
  BY <1>2 DEF Job
<1> HIDE DEF x
<1>4. jobs'[j] = x /\ \A k \in Jobs \ {j} : jobs'[k] = jobs[k] /\ inbox'[k] = inbox[k]
  BY <1>1 DEF IInv, TypeOK
<1>5. /\ BoxOf(x) = BoxOf(jobs[j]) /\ LapsesOf(x) = LapsesOf(jobs[j])
      /\ CopiesOf(x, inbox'[j]) = CopiesOf(jobs[j], inbox[j])
  BY <1>1, <1>2, <1>3 DEF BoxOf, LapsesOf, CopiesOf, InHand, IsMessage, Working
<1>6. UNCHANGED <<Boxes, Copies, Lapses>>
  BY <1>4, <1>5, Unnoticed
<1> QED
  BY <1>6, BoxVars

LEMMA WorkRefines ==
  ASSUME IInv, NEW j \in Jobs, Work(j)
  PROVE  Box!Next \/ UNCHANGED Box!vars
<1>1. CASE TakeJob(j)
  BY <1>1, TakeGoesOn
<1>2. CASE Fetch(j)
  BY <1>2, GoesOn DEF Fetch, IsIn, Status, Working
<1>3. CASE Delivered(j)
  BY <1>3, DeliveredSettles DEF Box!Next
<1>4. CASE LoadCourier(j, TRUE)
  BY <1>4, GoesOn DEF LoadCourier, IsIn, Status, Working, IsMessage
<1>5. CASE Push(j)
  <2>1. ~IsMessage(jobs[j]) /\ jobs[j].state = "sending" /\ Goto(j, "completed")
    BY <1>5 DEF Push, IsIn, IsMessage, CallbackQueues
  <2>2. \A k \in Jobs \ {j} : inbox'[k] = inbox[k]
    BY <1>5 DEF Push, IInv, TypeOK
  <2> QED
    BY <2>1, <2>2, GoesOn DEF Status, Done
<1> QED
  BY <1>1, <1>2, <1>3, <1>4, <1>5 DEF Work

LEMMA TroubleRefines ==
  ASSUME IInv, NEW j \in Jobs, Troubled(j)
  PROVE  Box!Next \/ UNCHANGED Box!vars
<1>1. CASE \E take \in wire[j] : PartnerRefuses(j, take)
  <2>1. PICK take \in wire[j] : PartnerRefuses(j, take)
    BY <1>1
  <2>2. CASE Awaits(j, take)
    BY <2>1, <2>2, ErrorLapses DEF PartnerRefuses, Awaits, Working, Box!Next
  <2>3. CASE ~Awaits(j, take)
    <3>1. jobs' = jobs /\ inbox' = inbox
      BY <2>1, <2>3 DEF PartnerRefuses
    <3>2. UNCHANGED <<Boxes, Copies, Lapses>>
      BY <3>1 DEF Boxes, Copies, Lapses
    <3> QED
      BY <3>2, BoxVars
  <2> QED
    BY <2>2, <2>3
<1>2. CASE FetchTimesOut(j)
  BY <1>2, ErrorLapses DEF FetchTimesOut, Working, Box!Next
<1>3. CASE LoadCourier(j, FALSE)
  <2>1. ~IsMessage(jobs[j]) /\ jobs[j].state = "active" /\ Goto(j, "completed") /\ inbox' = inbox
    BY <1>3 DEF LoadCourier, IsIn, IsMessage, CallbackQueues
  <2> QED
    BY <2>1, GoesOn DEF Status, Done
<1>4. CASE LoadFails(j)
  BY <1>4, ErrorLapses DEF LoadFails, IsIn, Working, Box!Next
<1>5. CASE PushRefused(j)
  <2>1. ~IsMessage(jobs[j]) /\ jobs[j].state = "sending" /\ Goto(j, "completed") /\ inbox' = inbox
    BY <1>5 DEF PushRefused, IsIn, IsMessage, CallbackQueues
  <2> QED
    BY <2>1, GoesOn DEF Status, Done
<1>6. CASE Stall(j)
  BY <1>6, StallLapses DEF Box!Next
<1> QED
  BY <1>1, <1>2, <1>3, <1>4, <1>5, <1>6 DEF Troubled

\* The two callback queues are a mailbox: a callback is settled only when the
\* partner has it, comes again only after a lapse, and is not given up for one
\* (OrderCallbackProcessor, LocationCallbackProcessor and their job options).
THEOREM ImplementsMailbox == Spec => MailboxSpec
<1>1. Init => Box!Init
  <2> SUFFICES ASSUME Init PROVE Box!Init
    OBVIOUS
  <2>1. \A j \in Jobs : BoxOf(jobs[j]) = "none" /\ LapsesOf(jobs[j]) = 0 /\ ~IsMessage(jobs[j])
    BY DEF Init, NoJob, BoxOf, LapsesOf, IsMessage, CallbackQueues
  <2> QED
    BY <2>1 DEF Box!Init
<1>2. IInv /\ [Next]_vars => [Box!Next]_Box!vars
  <2> SUFFICES ASSUME IInv, [Next]_vars PROVE Box!Next \/ UNCHANGED Box!vars
    OBVIOUS
  <2>1. CASE \E q \in Queues : Add(q)
    BY <2>1, AddPuts
  <2>2. CASE \E j \in Jobs : Work(j)
    BY <2>2, WorkRefines
  <2>3. CASE \E j \in Jobs : Answer(j)
    BY <2>3, AcceptHands DEF Answer, Box!Next
  <2>4. CASE \E j \in Jobs : Troubled(j)
    BY <2>4, TroubleRefines
  <2>5. CASE UNCHANGED vars
    <3>1. UNCHANGED <<Boxes, Copies, Lapses>>
      BY <2>5 DEF vars, Boxes, Copies, Lapses
    <3> QED
      BY <3>1, BoxVars
  <2> QED
    BY <2>1, <2>2, <2>3, <2>4, <2>5 DEF Next
<1> QED
  BY <1>1, <1>2, Invariance, PTL DEF Spec, MailboxSpec, Box!Spec
=============================================================================
