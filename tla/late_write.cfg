\* A late write of advanceStatus brings a cancelled order back.
SPECIFICATION HFairSpec
CONSTANTS
  o1 = o1  o2 = o2  o3 = o3  c1 = c1  c2 = c2  s1 = s1  s2 = s2  A = A  B = B
  r1 = r1  r2 = r2  NULL = NULL
  Orders = {o1}
  Couriers = {c1}
  Staff = {s1}
  Owners = {A, B}
  OwnerOf <- TwoTenants
  WithCallback = {o1}
  Requests = {r1, r2}
  MaxFailures = 0
PROPERTIES TerminalIsFinal
