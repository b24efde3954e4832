CONSTANTS
  own = own
  a = a
  b = b
  c = c
  a2 = a2
  o1 = o1
  o2 = o2
  d1 = d1
  d2 = d2
  Members = {own, a, b, a2}
  UserOf <- MCUserOf
  Owner = own
  Orders = {o1}
  Amounts = {1, 2}
  Fees = {1}
  Details = {d1}
  Adjustments = {0}
  MaxMonth = 2
  None = None
SPECIFICATION Spec
INVARIANTS
  
  PendingPartiesAreEmployees
PROPERTIES
  OpenRequestFreezes
  LedgerSpec
CHECK_DEADLOCK FALSE
