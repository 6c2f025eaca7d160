\* Two couriers, two transactions and edits at a time, one of which may be lost; the database fair.
SPECIFICATION HFairSpec
CONSTANTS
  c1 = c1  c2 = c2  t1 = t1  t2 = t2  NULL = NULL
  Couriers = {c1, c2}
  Requests = {t1, t2}
  Edits = {NULL}
  MaxClock = 4
  MaxFailures = 1
INVARIANTS OpeningsAreAnnounced ShiftsApartUnlessContested AnnouncedUnlessContested
PROPERTIES BoardSpec EveryRequestAnswered
CHECK_DEADLOCK FALSE
