\* Two orders, two couriers, two bulk cancellations at a time; an owner and two more accounts.
SPECIFICATION Spec
CONSTANTS
  o1 = o1  o2 = o2  c1 = c1  c2 = c2  l1 = l1  l2 = l2  e1 = e1  e2 = e2  q1 = q1  q2 = q2  NULL = NULL
  Orders = {o1, o2}
  Couriers = {c1, c2}
  Runs = {l1, l2}
  MaxCalls = 2
  MaxEvents = 1
  MaxTroubles = 1
  Emails = {e1, e2}
  OwnersEmail = e1
  MaxAccounts = 3
  UserRequests = {q1, q2}
  Mine = q1
SYMMETRY Symmetry
INVARIANTS BulkReportIsTrue PickedIsNotSaved AccountsAreSound
CHECK_DEADLOCK FALSE
