----------------------------- MODULE StaffUsers -----------------------------
(***************************************************************************)
(* users/users.service.ts: the accounts of a tenant's staff.  A request is *)
(* a read and a write with an await between them; email and the id of the  *)
(* account are what matters, names and roles are left out.                 *)
(***************************************************************************)
EXTENDS Naturals

CONSTANTS
  Emails, OwnersEmail,
  MaxAccounts,   \* bound: accounts ever made
  UserRequests,  \* slots for requests under way
  NULL

Accounts == 1..MaxAccounts
Owner == 1

ASSUME StaffAssumption ==
  /\ OwnersEmail \in Emails /\ NULL \notin Emails
  /\ MaxAccounts \in Nat \ {0}

VARIABLES
  email,    \* email[a]: of the row of account a, NULL when there is none
  made,     \* the accounts made so far are 1..made
  removed,  \* the accounts that were ever removed
  staffReq  \* staffReq[q]: the request in slot q, with its answer at the end

staff == <<email, made, removed, staffReq>>

NoRequest == [pc |-> "idle", account |-> 0, email |-> NULL]

\* The owner's account is there from the start; create makes no owners.
StaffInit ==
  /\ email = [a \in Accounts |-> IF a = Owner THEN OwnersEmail ELSE NULL]
  /\ made = 1
  /\ removed = {}
  /\ staffReq = [q \in UserRequests |-> NoRequest]

InUse(e) == \E a \in Accounts : email[a] = e

Begin(q, pc, a, e) ==
  /\ staffReq[q].pc = "idle"
  /\ staffReq' = [staffReq EXCEPT ![q] = [pc |-> pc, account |-> a, email |-> e]]
  /\ UNCHANGED <<email, made, removed>>

AnswerWith(q, pc) == staffReq' = [staffReq EXCEPT ![q].pc = pc]

\* 409 when the email is found; the hash takes its time.
CreateFind(q, e) == Begin(q, IF InUse(e) THEN "refused" ELSE "insert", 0, e)

\* uq_staff_users_email.  Mutation: there is no such constraint.
NoViolation(e) == FALSE
UniqueViolation(e) == InUse(e)

CreateInsert(q) ==
  /\ staffReq[q].pc = "insert"
  /\ IF UniqueViolation(staffReq[q].email)
     THEN AnswerWith(q, "refused") /\ UNCHANGED <<email, made>>
     ELSE /\ made < MaxAccounts
          /\ made' = made + 1
          /\ email' = [email EXCEPT ![made + 1] = staffReq[q].email]
          /\ AnswerWith(q, "ok")
  /\ UNCHANGED removed

\* 404 when the account is not there.
UpdateFind(q, a) ==
  Begin(q, IF email[a] = NULL THEN "refused" ELSE "save", a, email[a])

\* save inserts a row that has gone; but password_hash was not selected and is
\* NOT NULL.  Mutation: it was selected.
RowThatHasGoneReturns(q) ==
  email' = [email EXCEPT ![staffReq[q].account] = staffReq[q].email] /\ AnswerWith(q, "ok")
RowThatHasGone(q) == AnswerWith(q, "refused") /\ UNCHANGED email

UpdateSave(q) ==
  /\ staffReq[q].pc = "save"
  /\ IF email[staffReq[q].account] = NULL
     THEN RowThatHasGone(q)
     ELSE AnswerWith(q, "ok") /\ UNCHANGED email
  /\ UNCHANGED <<made, removed>>

\* 403 for the own account, 404 when it is not there.
RemoveFind(q, a, requester) ==
  Begin(q, IF a = requester \/ email[a] = NULL THEN "refused" ELSE "delete", a, NULL)

RemoveDelete(q) ==
  /\ staffReq[q].pc = "delete"
  /\ email' = [email EXCEPT ![staffReq[q].account] = NULL]
  /\ removed' = removed \cup {staffReq[q].account}
  /\ AnswerWith(q, "ok")
  /\ UNCHANGED made

Serve(q) == CreateInsert(q) \/ UpdateSave(q) \/ RemoveDelete(q)

\* Any request of the owner, from wherever.
Ask(q) ==
  \/ \E e \in Emails : CreateFind(q, e)
  \/ \E a \in Accounts : UpdateFind(q, a) \/ RemoveFind(q, a, Owner)

\* The answer is there.
Finish(q) ==
  /\ staffReq[q].pc \in {"ok", "refused"}
  /\ staffReq' = [staffReq EXCEPT ![q] = NoRequest]
  /\ UNCHANGED <<email, made, removed>>

-----------------------------------------------------------------------------
StaffTypeOK ==
  /\ email \in [Accounts -> Emails \cup {NULL}]
  /\ made \in Accounts
  /\ removed \subseteq Accounts
  /\ staffReq \in [UserRequests -> [pc : {"idle", "insert", "save", "delete", "ok", "refused"},
                                    account : Accounts \cup {0}, email : Emails \cup {NULL}]]

\* Specs/009, user story 4: however requests overlap, no two accounts have one
\* email, an account that was removed does not come back, and the tenant keeps
\* its only owner.
AccountsAreSound ==
  /\ \A a, b \in Accounts : a # b /\ email[a] # NULL => email[a] # email[b]
  /\ \A a \in removed : email[a] = NULL
  /\ email[Owner] # NULL

\* The inductive invariant: accounts are made in order, what is to be
\* saved or deleted was one of them, and it is not the owner, who asks, that is
\* to be deleted.
StaffInv ==
  /\ StaffTypeOK
  /\ AccountsAreSound
  /\ \A a \in Accounts : email[a] # NULL \/ a \in removed => a <= made
  /\ Owner \notin removed
  /\ \A q \in UserRequests :
       /\ staffReq[q].pc = "insert" => staffReq[q].email \in Emails
       /\ staffReq[q].pc \in {"save", "delete"} => /\ staffReq[q].account \in Accounts
                                                  /\ staffReq[q].account <= made
       /\ staffReq[q].pc = "delete" => staffReq[q].account # Owner
=============================================================================
