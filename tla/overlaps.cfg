\* One order, two couriers and an operator, two requests at a time, one of them lost; and
\* an operator of another tenant.
SPECIFICATION HSpec
CONSTANTS
  o1 = o1  o2 = o2  o3 = o3  c1 = c1  c2 = c2  s1 = s1  s2 = s2  A = A  B = B
  r1 = r1  r2 = r2  NULL = NULL
  Orders = {o1}
  Couriers = {c1, c2}
  Staff = {s1, s2}
  Owners = {A, B}
  OwnerOf <- TwoTenants
  WithCallback = {o1}
  Requests = {r1, r2}
  MaxFailures = 1
SYMMETRY Symmetry
INVARIANTS
  ExclusiveAssignment CompletedIsPaid AuditIsTrue CallbackIsTrue PushGoesToWinner
  CouriersSeeItTaken AuditIsComplete TenantIsolation
  NotifiedUnlessContested StaffSeeUnlessContested ChainedUnlessContested
PROPERTIES LedgerSpec ContractSpec
