CONSTANTS
  own = own
  a = a
  b = b
  c = c
  a2 = a2
  o1 = o1
  o2 = o2
  d1 = d1
  d2 = d2
  Members = {own, a, b}
  UserOf <- MCOneEach
  Owner = own
  Orders = {o1}
  Amounts = {1}
  Fees = {1}
  Details = {d1}
  Adjustments = {0}
  MaxMonth = 1
  None = None
SPECIFICATION Spec
INVARIANT OnlyEmployeesHoldMoney
CHECK_DEADLOCK FALSE
