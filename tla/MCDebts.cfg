CONSTANTS
  d1 = d1
  c1 = c1
  c2 = c2
  c3 = c3
  Debts = {d1}
  Conns = {c1, c2, c3}
  Originals = {1, 3}
  Payments <- MCPayments
  None = None
SPECIFICATION Spec
SYMMETRY Alike
INVARIANTS
  RepaymentsAddUp
  ActiveDebtsOwe
  AnswersShowTheRequest
PROPERTY ClosedDebtsStay
