\* Two overlapping requests for two numbers and two phones, and the worker.
SPECIFICATION FairSpec
CONSTANTS
  n1 = n1  n2 = n2  p1 = p1  p2 = p2  c1 = c1  c2 = c2  r1 = r1  r2 = r2
  Numbers = {n1, n2}
  Phones = {p1, p2}
  Couriers = {c1, c2}
  Requests = {r1, r2}
  MaxOrders = 2
  MaxFailures = 2
  MaxAttempts = 3
  MaxStalls = 1
INVARIANTS VisibleOrdersAreWhole
PROPERTIES BookSpec EveryCourierIsPushed
CHECK_DEADLOCK FALSE
