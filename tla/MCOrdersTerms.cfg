CONSTANTS
  own = own
  a = a
  b = b
  c = c
  a2 = a2
  o1 = o1
  o2 = o2
  d1 = d1
  d2 = d2
  Members = {own, a, b, c}
  UserOf <- MCOneEach
  Owner = own
  Orders = {o1}
  Amounts = {1, 2}
  Fees = {0, 1}
  Details = {d1, d2}
  Adjustments = {3}
  MaxMonth = 2
  None = None
SPECIFICATION StaffedSpec
SYMMETRY Alike
CHECK_DEADLOCK FALSE
INVARIANTS
  CompletedAgreed
  NoAgreementLeftPending
  CancelledByBoth
  BooksAddUp
PROPERTIES
  ConfirmationsKeepTheirTerms
