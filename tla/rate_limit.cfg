\* One courier, the limit of .env.example, and two submissions.
SPECIFICATION RateSpec
CONSTANTS
  NULL = NULL
  Couriers = {c1}
  Orders = {o1}
  Points = {p1, p2}
  WithCallback = {}
  Requests = {r1, r2}
  Readers = {}
  PageSize = 1
  MaxSubmissions = 2
  MaxFailures = 0
  Limit = 5
INVARIANTS OnePerWindow
