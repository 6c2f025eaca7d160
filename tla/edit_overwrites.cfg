\* A courier whose phone is edited while a shift opens.
SPECIFICATION HSpec
CONSTANTS
  c1 = c1  c2 = c2  t1 = t1  t2 = t2  NULL = NULL
  Couriers = {c1}
  Requests = {t1, t2}
  Edits = {NULL}
  MaxClock = 4
  MaxFailures = 0
INVARIANTS StatusFollowsShift
CHECK_DEADLOCK FALSE
