\* A period, two couriers, two orders, two requests at a time, three days.
SPECIFICATION Spec
CONSTANTS
  p1 = p1  p2 = p2  c1 = c1  c2 = c2  o1 = o1  o2 = o2  r1 = r1  r2 = r2  NULL = NULL
  Periods = {p1}
  Couriers = {c1, c2}
  Orders = {o1, o2}
  Requests = {r1, r2}
  LastDay = 3
SYMMETRY Symmetry
PROPERTIES CashBookSpec ReportedAreUnpaid SettledPeriodsAreStable
