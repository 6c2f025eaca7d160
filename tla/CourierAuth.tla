---------------------------- MODULE CourierAuth ----------------------------
(***************************************************************************)
(* auth/courier-auth.service.ts: one-time codes and the sessions they      *)
(* open; and auth/code-delivery, the queue that takes codes to couriers    *)
(* and knows a job by the id of its code.  Passwords are in                *)
(* LoginAttemptTracker.                                                    *)
(***************************************************************************)
EXTENDS Naturals, FiniteSets

CONSTANTS
  Couriers,
  Linked,       \* couriers with a telegram_chat_id
  Digits,       \* codes that may be drawn; two rows may have the same
  Requests,     \* slots for requests being handled at the same time
  Attempts,     \* attempts of a delivery job, 3 in the code
  MaxStalls,    \* stalls of a job before it fails, BullMQ's maxStalledCount
  MaxCodes,     \* bound: codes ever inserted
  MaxSessions,  \* bound: refresh tokens ever issued
  MaxFailures,  \* bound: requests lost, messages refused, dead workers
  NULL

Codes == 1..MaxCodes
Sessions == 1..MaxSessions

ASSUME AuthAssumption ==
  /\ Linked \subseteq Couriers
  /\ IsFiniteSet(Requests)
  /\ NULL \notin Couriers \cup Digits
  /\ Attempts \in Nat \ {0} /\ MaxStalls \in Nat
  /\ MaxCodes \in Nat /\ MaxSessions \in Nat /\ MaxFailures \in Nat

VARIABLES
  codes,     \* codes[k]: row k of courier_auth_codes; live until expires_at
  drawn,     \* the rows inserted so far are 1..drawn
  sessions,  \* sessions[s]: row s of courier_refresh_tokens, and the code it
             \* was issued for
  issued,    \* the rows issued so far are 1..issued
  jobs,      \* jobs[k]: the delivery job whose id is k
  received,  \* codes that Telegram has taken
  lost,      \* codes whose request was lost before it could add the job
  req,       \* req[r]: the request in slot r
  failures

tables == <<codes, drawn, sessions, issued>>
delivery == <<jobs, received>>
vars == <<tables, delivery, lost, req, failures>>

NoCode == [courier |-> NULL, digits |-> NULL, used |-> FALSE, live |-> FALSE]
NoSession == [courier |-> NULL, code |-> 0, revoked |-> FALSE]
NoJob == [state |-> "none", channel |-> "none", attempts |-> 0, stalls |-> 0]
Idle == [pc |-> "idle", courier |-> NULL, channel |-> "none", code |-> 0]

Init ==
  /\ codes = [k \in Codes |-> NoCode]
  /\ drawn = 0
  /\ sessions = [s \in Sessions |-> NoSession]
  /\ issued = 0
  /\ jobs = [k \in Codes |-> NoJob]
  /\ received = {}
  /\ lost = {}
  /\ req = [r \in Requests |-> Idle]
  /\ failures = 0

Begin(r, pc, c, channel, k) ==
  /\ req[r].pc = "idle"
  /\ req' = [req EXCEPT ![r] = [pc |-> pc, courier |-> c, channel |-> channel, code |-> k]]
Step(r, pc) == req' = [req EXCEPT ![r].pc = pc]
Return(r) == req' = [req EXCEPT ![r] = Idle]

-----------------------------------------------------------------------------
(***************************************************************************)
(* sendCode                                                                *)
(***************************************************************************)
\* used_at IS NULL and expires_at > now.  Mutation: used codes count.
ActiveOrUsed(k) == codes[k].live
Active(k) == codes[k].live /\ ~codes[k].used

ActiveOf(c) == {k \in Codes : codes[k].courier = c /\ Active(k)}

\* The findOne of the code.  Mutation: it looks for used ones.
FindsUsed(c, k) == k \in {0} \cup {j \in Codes : codes[j].courier = c /\ codes[j].used}
Finds(c, k) == IF ActiveOf(c) = {} THEN k = 0 ELSE k \in ActiveOf(c)

\* The courier, and for Telegram the linked chat, else 404 or 400; then the
\* code that is active, if there is one.
SendCode(r, c, channel, k) ==
  /\ channel = "telegram" => c \in Linked
  /\ Finds(c, k)
  /\ Begin(r, IF k = 0 THEN "insert" ELSE "enqueue", c, channel, k)
  /\ UNCHANGED <<tables, delivery, lost, failures>>

InsertCode(r, d) ==
  /\ req[r].pc = "insert"
  /\ drawn < MaxCodes
  /\ drawn' = drawn + 1
  /\ codes' = [codes EXCEPT ![drawn + 1] =
                 [courier |-> req[r].courier, digits |-> d, used |-> FALSE, live |-> TRUE]]
  /\ req' = [req EXCEPT ![r].pc = "enqueue", ![r].code = drawn + 1]
  /\ UNCHANGED <<sessions, issued, delivery, lost, failures>>

\* queue.add with a jobId does nothing while a job has that id: a completed
\* one is removed, a failed one stays.
EnqueueDelivery(r) ==
  /\ req[r].pc = "enqueue"
  /\ LET k == req[r].code
     IN jobs' = IF jobs[k].state # "none" THEN jobs
                ELSE [jobs EXCEPT ![k] = [NoJob EXCEPT !.state = "kept",
                                                       !.channel = req[r].channel]]
  /\ Return(r)
  /\ UNCHANGED <<tables, received, lost, failures>>

\* Five minutes pass; for a code that is used they mean nothing.
Expire(k) ==
  /\ Active(k)
  /\ codes' = [codes EXCEPT ![k].live = FALSE]
  /\ UNCHANGED <<drawn, sessions, issued, delivery, lost, req, failures>>

-----------------------------------------------------------------------------
(***************************************************************************)
(* verifyCode and issueTokens                                              *)
(***************************************************************************)
\* A row with these digits, or 401.
VerifyCode(r, c, d, k) ==
  /\ k \in ActiveOf(c)
  /\ codes[k].digits = d
  /\ Begin(r, "use", c, "none", k)
  /\ UNCHANGED <<tables, delivery, lost, failures>>

\* save writes used_at whatever the row has become.
MarkUsed(r) ==
  /\ req[r].pc = "use"
  /\ codes' = [codes EXCEPT ![req[r].code].used = TRUE]
  /\ Step(r, "issue")
  /\ UNCHANGED <<drawn, sessions, issued, delivery, lost, failures>>

IssueTokens(r) ==
  /\ req[r].pc = "issue"
  /\ issued < MaxSessions
  /\ issued' = issued + 1
  /\ sessions' = [sessions EXCEPT ![issued + 1] =
                    [courier |-> req[r].courier, code |-> req[r].code, revoked |-> FALSE]]
  /\ Return(r)
  /\ UNCHANGED <<codes, drawn, delivery, lost, failures>>

(***************************************************************************)
(* logout                                                                  *)
(***************************************************************************)
\* A token that is not there, or revoked, is answered at once.  Nothing else
\* changes a session, so the find and the save are one step.
Logout(c, s) ==
  /\ sessions[s].courier = c
  /\ ~sessions[s].revoked
  /\ sessions' = [sessions EXCEPT ![s].revoked = TRUE]
  /\ UNCHANGED <<codes, drawn, issued, delivery, lost, req, failures>>

-----------------------------------------------------------------------------
(***************************************************************************)
(* CodeDeliveryProcessor.  Nobody looks at a job that a worker has taken,  *)
(* so an attempt is one step.                                              *)
(***************************************************************************)
Trouble == failures < MaxFailures /\ failures' = failures + 1

IsKept(k, channel) == jobs[k].state = "kept" /\ jobs[k].channel = channel

\* removeOnFail is not set: a job that has failed stays, with nothing left to do.
FailedJob == [NoJob EXCEPT !.state = "failed"]

AfterError(k) ==
  jobs' = [jobs EXCEPT ![k] = IF @.attempts + 1 < Attempts
                              THEN [@ EXCEPT !.attempts = jobs[k].attempts + 1] ELSE FailedJob]

\* removeOnComplete
DeliverViaTelegram(k) ==
  /\ IsKept(k, "telegram")
  /\ received' = received \cup {k}
  /\ jobs' = [jobs EXCEPT ![k] = NoJob]
  /\ UNCHANGED <<tables, lost, req, failures>>

\* A refusal, or an answer that is lost after Telegram has taken the code.
TelegramFails(k, taken) ==
  /\ IsKept(k, "telegram")
  /\ received' = IF taken THEN received \cup {k} ELSE received
  /\ AfterError(k)
  /\ Trouble
  /\ UNCHANGED <<tables, lost, req>>

\* There is no gateway: every attempt throws.  Mutation: it returns instead.
SmsSwallowed(k) == jobs' = [jobs EXCEPT ![k] = NoJob]
SmsFails(k) == AfterError(k)

DeliverViaSms(k) ==
  /\ IsKept(k, "sms")
  /\ SmsFails(k)
  /\ UNCHANGED <<tables, received, lost, req, failures>>

\* A worker dies: the job is taken again, or fails when it has stalled before.
Stall(k) ==
  /\ jobs[k].state = "kept"
  /\ jobs' = [jobs EXCEPT ![k] = IF @.stalls < MaxStalls
                                 THEN [@ EXCEPT !.stalls = jobs[k].stalls + 1] ELSE FailedJob]
  /\ Trouble
  /\ UNCHANGED <<tables, received, lost, req>>

\* The server dies or a statement throws.
Fail(r) ==
  /\ req[r].pc # "idle"
  /\ Trouble
  /\ lost' = IF req[r].pc = "enqueue" THEN lost \cup {req[r].code} ELSE lost
  /\ Return(r)
  /\ UNCHANGED <<tables, delivery>>

Deliver(k) ==
  \/ DeliverViaTelegram(k)
  \/ DeliverViaSms(k)

Continue(r) ==
  \/ \E d \in Digits : InsertCode(r, d)
  \/ EnqueueDelivery(r)
  \/ MarkUsed(r)
  \/ IssueTokens(r)

Next ==
  \/ \E r \in Requests, c \in Couriers, channel \in {"sms", "telegram"}, k \in Codes \cup {0} :
       SendCode(r, c, channel, k)
  \/ \E r \in Requests, c \in Couriers, d \in Digits, k \in Codes : VerifyCode(r, c, d, k)
  \/ \E c \in Couriers, s \in Sessions : Logout(c, s)
  \/ \E r \in Requests : Continue(r)
  \/ \E r \in Requests : Fail(r)
  \/ \E k \in Codes : Expire(k)
  \/ \E k \in Codes : Deliver(k)
  \/ \E k \in Codes, taken \in BOOLEAN : TelegramFails(k, taken)
  \/ \E k \in Codes : Stall(k)

Spec == Init /\ [][Next]_vars

-----------------------------------------------------------------------------
Row == [courier : Couriers, digits : Digits, used : BOOLEAN, live : BOOLEAN]
Session == [courier : Couriers, code : Codes, revoked : BOOLEAN]
Job == [state : {"kept"}, channel : {"sms", "telegram"}, attempts : Nat, stalls : Nat]
Request == [pc : {"insert", "enqueue", "use", "issue"}, courier : Couriers,
            channel : {"none", "sms", "telegram"}, code : Codes \cup {0}]

TypeOK ==
  /\ codes \in [Codes -> Row \cup {NoCode}]
  /\ drawn \in 0..MaxCodes
  /\ sessions \in [Sessions -> Session \cup {NoSession}]
  /\ issued \in 0..MaxSessions
  /\ jobs \in [Codes -> Job \cup {NoJob, FailedJob}]
  /\ received \subseteq Codes
  /\ lost \subseteq Codes
  /\ req \in [Requests -> Request \cup {Idle}]
  /\ failures \in 0..MaxFailures

\* FR-006, FR-007: a session opened with a code is its courier's and the code
\* is used, and a code opens no more sessions than requests are handled at the
\* same time: one when they come one by one, two when two overlap.
OpenedBy(k) == {s \in Sessions : sessions[s].courier # NULL /\ sessions[s].code = k}
Verifying(k) == {r \in Requests : req[r].pc \in {"use", "issue"} /\ req[r].code = k}

SessionsAreEarned ==
  \A k \in Codes :
    /\ \A s \in OpenedBy(k) : codes[k].used /\ sessions[s].courier = codes[k].courier
    /\ Cardinality(OpenedBy(k)) + Cardinality(Verifying(k)) <= Cardinality(Requests)

\* FR-001: a code that was inserted is never forgotten: Telegram has taken it,
\* or its job is still there, or a request is about to add the job, or such a
\* request was lost.
NoCodeIsForgotten ==
  \A k \in 1..drawn :
    \/ k \in received \cup lost
    \/ jobs[k].state # "none"
    \/ \E r \in Requests : req[r].pc = "enqueue" /\ req[r].code = k

\* FR-005: a courier has no more active codes than there were requests that had
\* found none: one when they come one by one.
Inserting(c) == {r \in Requests : req[r].pc = "insert" /\ req[r].courier = c}

FewActiveCodes ==
  \A c \in Couriers :
    Cardinality(ActiveOf(c)) + Cardinality(Inserting(c)) <= Cardinality(Requests)

\* The inductive invariant: rows are those inserted, and a request under way
\* knows a row of its courier and, when it has a code to send, a channel.
RowsAreInserted ==
  /\ \A k \in Codes : codes[k] = NoCode <=> k > drawn
  /\ \A s \in Sessions : sessions[s] = NoSession <=> s > issued

RequestsAreSound ==
  \A r \in Requests :
    /\ req[r].pc \in {"insert", "enqueue"} => req[r].channel # "none"
    /\ req[r].pc \in {"enqueue", "use", "issue"} =>
         req[r].code # 0 /\ codes[req[r].code].courier = req[r].courier
    /\ req[r].pc = "issue" => codes[req[r].code].used

IInv ==
  /\ TypeOK
  /\ RowsAreInserted
  /\ RequestsAreSound
  /\ SessionsAreEarned
  /\ NoCodeIsForgotten
  /\ FewActiveCodes
=============================================================================
