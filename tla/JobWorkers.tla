----------------------------- MODULE JobWorkers -----------------------------
(***************************************************************************)
(* The BullMQ queues order-callback, location-callback and cancel-notify   *)
(* and the processors that work them off.  Every job is taken by any       *)
(* worker of any instance, so jobs do not wait for each other.  A callback *)
(* is an HTTP request with a timeout: it may be refused, its answer may be *)
(* lost, and it may arrive when the worker has stopped waiting for it.     *)
(***************************************************************************)
EXTENDS Naturals, FiniteSets

CONSTANTS
  MaxJobs,     \* bound: jobs ever added
  Attempts,    \* Attempts[queue]: its attempts, 3 or 5 in the code
  MaxStalls,   \* stalls of a job before it fails, BullMQ's maxStalledCount
  MaxTroubles  \* bound: refusals, lost answers, dead workers

CallbackQueues == {"order-callback", "location-callback"}
Queues == CallbackQueues \cup {"cancel-notify"}
Jobs == 1..MaxJobs

ASSUME QueueAssumption ==
  /\ MaxJobs \in Nat
  /\ MaxTroubles \in Nat
  /\ MaxStalls \in Nat \ {0}
  /\ Attempts \in [Queues -> Nat]
  /\ \A q \in Queues : Attempts[q] >= 2

VARIABLES
  jobs,     \* jobs[j]: the job, with the number of times it was taken
  added,    \* the jobs added so far are 1..added
  wire,     \* wire[j]: the requests of job j under way, by the take they are of
  inbox,    \* inbox[j]: how often the partner, or the courier's phone, has it
  excused,  \* cancel-notify jobs whose push FCM refused or that found no token
  troubles

vars == <<jobs, added, wire, inbox, excused, troubles>>

NoJob == [queue |-> "none", state |-> "none", takes |-> 0, stalls |-> 0]

Init ==
  /\ jobs = [j \in Jobs |-> NoJob]
  /\ added = 0
  /\ wire = [j \in Jobs |-> {}]
  /\ inbox = [j \in Jobs |-> 0]
  /\ excused = {}
  /\ troubles = 0

\* queue.add, by a request of another component; payloads are left out.
Add(queue) ==
  /\ added < MaxJobs
  /\ added' = added + 1
  /\ jobs' = [jobs EXCEPT ![added + 1] = [NoJob EXCEPT !.queue = queue, !.state = "waiting"]]
  /\ UNCHANGED <<wire, inbox, excused, troubles>>

-----------------------------------------------------------------------------
Working == {"active", "sent", "answered", "sending"}

IsIn(j, queues, state) == jobs[j].queue \in queues /\ jobs[j].state = state

Goto(j, state) == jobs' = [jobs EXCEPT ![j].state = state]

TakeJob(j) ==
  /\ jobs[j].state = "waiting"
  /\ jobs' = [jobs EXCEPT ![j].state = "active", ![j].takes = @ + 1]
  /\ UNCHANGED <<added, wire, inbox, excused, troubles>>

\* An attempt is a take that did not end in a stall.  Mutations: the attempts
\* are not configured, so there is one; an error is swallowed.
AfterErrorOnce(j) == "failed"
AfterErrorSwallowed(j) == "completed"
AfterError(j) ==
  IF jobs[j].takes - jobs[j].stalls >= Attempts[jobs[j].queue] THEN "failed" ELSE "waiting"

Trouble ==
  /\ troubles < MaxTroubles
  /\ troubles' = troubles + 1

(***************************************************************************)
(* OrderCallbackProcessor.process, LocationCallbackProcessor.process       *)
(***************************************************************************)
\* fetch: the request is on its way.
Fetch(j) ==
  /\ IsIn(j, CallbackQueues, "active")
  /\ wire' = [wire EXCEPT ![j] = @ \cup {jobs[j].takes}]
  /\ Goto(j, "sent")
  /\ UNCHANGED <<added, inbox, excused, troubles>>

Awaits(j, take) == jobs[j].state = "sent" /\ jobs[j].takes = take

\* The partner has it and answers 2xx: to the worker, if that still waits.
PartnerAccepts(j, take) ==
  /\ take \in wire[j]
  /\ wire' = [wire EXCEPT ![j] = @ \ {take}]
  /\ inbox' = [inbox EXCEPT ![j] = @ + 1]
  /\ IF Awaits(j, take) THEN Goto(j, "answered") ELSE UNCHANGED jobs
  /\ UNCHANGED <<added, excused, troubles>>

\* response.ok
Delivered(j) ==
  /\ IsIn(j, CallbackQueues, "answered")
  /\ Goto(j, "completed")
  /\ UNCHANGED <<added, wire, inbox, excused, troubles>>

\* Another status, or no connection: process throws.
PartnerRefuses(j, take) ==
  /\ take \in wire[j]
  /\ wire' = [wire EXCEPT ![j] = @ \ {take}]
  /\ IF Awaits(j, take) THEN Goto(j, AfterError(j)) ELSE UNCHANGED jobs
  /\ Trouble
  /\ UNCHANGED <<added, inbox, excused>>

\* AbortSignal.timeout: the request is lost, under way, or was accepted.
FetchTimesOut(j) ==
  /\ jobs[j].state \in {"sent", "answered"}
  /\ Goto(j, AfterError(j))
  /\ Trouble
  /\ UNCHANGED <<added, wire, inbox, excused>>

(***************************************************************************)
(* CancelNotifyProcessor.process                                           *)
(***************************************************************************)
\* The courier is loaded again.  No token, or FCM disabled: nothing is sent.
LoadCourier(j, reachable) ==
  /\ IsIn(j, {"cancel-notify"}, "active")
  /\ Goto(j, IF reachable THEN "sending" ELSE "completed")
  /\ excused' = IF reachable THEN excused ELSE excused \cup {j}
  /\ UNCHANGED <<added, wire, inbox, troubles>>

\* The database does not answer: findOne throws.
LoadFails(j) ==
  /\ IsIn(j, {"cancel-notify"}, "active")
  /\ Goto(j, AfterError(j))
  /\ Trouble
  /\ UNCHANGED <<added, wire, inbox, excused>>

Push(j) ==
  /\ IsIn(j, {"cancel-notify"}, "sending")
  /\ inbox' = [inbox EXCEPT ![j] = @ + 1]
  /\ Goto(j, "completed")
  /\ UNCHANGED <<added, wire, excused, troubles>>

\* The catch block logs and returns: the job is completed all the same.
PushRefused(j) ==
  /\ IsIn(j, {"cancel-notify"}, "sending")
  /\ excused' = excused \cup {j}
  /\ Goto(j, "completed")
  /\ Trouble
  /\ UNCHANGED <<added, wire, inbox>>

\* A worker dies: the job is taken again, or fails when it has stalled before.
Stall(j) ==
  /\ jobs[j].state \in Working
  /\ jobs' = [jobs EXCEPT ![j].state = IF jobs[j].stalls >= MaxStalls THEN "failed" ELSE "waiting",
                          ![j].stalls = @ + 1]
  /\ Trouble
  /\ UNCHANGED <<added, wire, inbox, excused>>

Work(j) ==
  \/ TakeJob(j)
  \/ Fetch(j)
  \/ Delivered(j)
  \/ LoadCourier(j, TRUE)
  \/ Push(j)

\* The partner answers every request that reaches it.
Answer(j) == \E take \in wire[j] : PartnerAccepts(j, take)

Troubled(j) ==
  \/ \E take \in wire[j] : PartnerRefuses(j, take)
  \/ FetchTimesOut(j)
  \/ LoadCourier(j, FALSE)
  \/ LoadFails(j)
  \/ PushRefused(j)
  \/ Stall(j)

Next ==
  \/ \E q \in Queues : Add(q)
  \/ \E j \in Jobs : Work(j)
  \/ \E j \in Jobs : Answer(j)
  \/ \E j \in Jobs : Troubled(j)

Spec == Init /\ [][Next]_vars

\* A worker that runs takes what waits and goes on with it; a partner answers
\* what it has been sent, or fetch times out.
FairSpec == Spec /\ \A j \in Jobs : WF_vars(Work(j)) /\ WF_vars(Answer(j))

-----------------------------------------------------------------------------
Done == {"completed", "failed"}

Job == [queue : Queues, state : {"waiting"} \cup Working \cup Done,
        takes : Nat, stalls : Nat]

TypeOK ==
  /\ jobs \in [Jobs -> Job \cup {NoJob}]
  /\ added \in 0..MaxJobs
  /\ wire \in [Jobs -> SUBSET Nat]
  /\ inbox \in [Jobs -> Nat]
  /\ excused \subseteq Jobs
  /\ troubles \in 0..MaxTroubles

(***************************************************************************)
(* Specs/003, FR-014 and constitution, principle V.  For a partner the two *)
(* callback queues are a mailbox: a callback is settled only when he has   *)
(* it, he gets it again only after a lapse, and one lapse does not make it *)
(* be given up.                                                            *)
(***************************************************************************)
IsMessage(job) == job.queue \in CallbackQueues
InHand(job) == job.state \in Working \cup {"completed"}

BoxOf(job) ==
  IF ~IsMessage(job) THEN "none"
  ELSE IF job.state = "completed" THEN "settled"
  ELSE IF job.state = "failed" THEN "abandoned" ELSE "kept"

\* The takes that have ended without an answer of the partner.
LapsesOf(job) ==
  IF ~IsMessage(job) THEN 0 ELSE IF InHand(job) THEN job.takes - 1 ELSE job.takes

Box == INSTANCE Mailbox WITH
  Messages <- Jobs,
  Patience <- 2,
  box <- [j \in Jobs |-> BoxOf(jobs[j])],
  copies <- [j \in Jobs |-> IF IsMessage(jobs[j]) THEN inbox[j] ELSE 0],
  lapses <- [j \in Jobs |-> LapsesOf(jobs[j])]
MailboxSpec == Box!Spec

\* The inductive invariant: the copies of a callback, arrived and under way, are
\* of different takes and none yet of a take that is still to send; a take
\* stalls at most once; and what is answered has arrived.
JobInv(j) ==
  LET job == jobs[j] IN
  /\ job = NoJob <=> j > added
  /\ job = NoJob => wire[j] = {} /\ inbox[j] = 0
  /\ wire[j] \subseteq 1..job.takes
  /\ job.stalls <= job.takes
  /\ job.state \in Working => job.stalls < job.takes
  /\ ~IsMessage(job) => wire[j] = {}
  /\ IsMessage(job) => inbox[j] + Cardinality(wire[j]) <= job.takes
  /\ IsMessage(job) /\ job.state = "active" =>
       job.takes \notin wire[j] /\ inbox[j] + Cardinality(wire[j]) < job.takes
  /\ job.state = "answered" => inbox[j] > 0

IInv == TypeOK /\ \A j \in Jobs : JobInv(j)

\* Once it is added, a callback is accepted by the partner, and a push made,
\* unless FCM refuses it, the courier has no token or the attempts are used up.
EveryoneIsTold ==
  \A j \in Jobs :
    (jobs[j].state = "waiting") ~>
      (inbox[j] > 0 \/ j \in excused \/ jobs[j].state = "failed")
=============================================================================
