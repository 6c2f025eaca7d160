\* Two couriers who submit one or two locations at a time, an order both may claim, a reader.
SPECIFICATION HSpec
CONSTANTS
  c1 = c1  c2 = c2  o1 = o1  p1 = p1  p2 = p2  r1 = r1  r2 = r2  q1 = q1  NULL = NULL
  Couriers = {c1, c2}
  Orders = {o1}
  Points = {p1, p2}
  WithCallback = {o1}
  Requests = {r1, r2}
  Readers = {q1}
  PageSize = 1
  MaxSubmissions = 2
  MaxFailures = 1
SYMMETRY Symmetry
INVARIANTS AnswersAreSound PartnerSeesTheRoute
PROPERTIES PathSpec
