\* A courier with a chat, two codes of the same digits, two requests at a time;
\* a login of the courier and one that is nobody's, three logins at a time.
SPECIFICATION AuthSpec
CONSTANTS
  c1 = c1  d1 = d1  r1 = r1  r2 = r2  k1 = k1  k2 = k2  l1 = l1  l2 = l2  l3 = l3  NULL = NULL
  Couriers = {c1}
  Linked = {c1}
  Digits = {d1}
  Requests = {r1, r2}
  Attempts = 2
  MaxStalls = 1
  MaxCodes = 2
  MaxSessions = 2
  MaxFailures = 1
  Keys = {k1, k2}
  Credentialed = {k1}
  Logins = {l1, l2, l3}
  Limit = 2
SYMMETRY Symmetry
INVARIANTS SessionsAreEarned NoCodeIsForgotten FewActiveCodes FailuresAreBounded
CHECK_DEADLOCK FALSE
