CONSTANTS
  own = own
  a = a
  b = b
  o1 = o1
  o2 = o2
  c1 = c1
  c2 = c2
  c3 = c3
  p = p
  q = q
  Members = {own, a, b}
  UserOf <- MCUserOf
  Owner = own
  Orders = {o1}
  Amounts = {1}
  Fees = {1}
  Details <- MCOneDetail
  Adjustments = {0}
  MaxMonth = 1
  None = None
  Conns = {c1, c2}
  Stages = {"absent"}
  Ops = {"create", "remove", "role"}
SPECIFICATION SeededSpec
SYMMETRY Alike
INVARIANT PendingPartiesAreEmployees
CHECK_DEADLOCK FALSE
